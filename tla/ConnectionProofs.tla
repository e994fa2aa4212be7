-------------------------- MODULE ConnectionProofs --------------------------
(***************************************************************************)
(* Proofs about Connection, for any number of callers, events and records, *)
(* whatever waits, fails or restarts, and that it implements Agreement.     *)
(***************************************************************************)
EXTENDS Connection, TLAPS

(* The places a handling can be at, and those before its last dispatch.     *)
Places == {"posted", "build", "dispatch", "log", "report", "exception"}

Unfinished == {"posted", "build", "dispatch"}

(* A handling that dispatches has a resource set left to dispatch.          *)
HasNext == \A e \in Events : handler[e].pc \in Unfinished => handler[e].next \in 1..3

Typed == TypeOK /\ HasNext

-----------------------------------------------------------------------------
(***************************************************************************)
(* The parts of the state, one lemma for each operator that changes one.   *)
(***************************************************************************)

(* There are three resource sets.                                          *)
LEMMA ThreeResourceSets == Len(ResourceSets) = 3
BY DEF ResourceSets

(* An event that is at a place is being handled.                           *)
LEMMA HandlingTyped ==
    ASSUME TypeOK, NEW e \in Events, handler[e].pc \in Places
    PROVE  handler[e] \in Handlings
BY DEF TypeOK, UnusedEvent, HandledEvent, Places

(* Moving a handling keeps all of it but its place.                        *)
LEMMA GotoTyped ==
    ASSUME Typed, NEW e \in Events, handler[e].pc \in Places,
           NEW place \in Places, Goto(e, place),
           place \in Unfinished => handler[e].pc \in Unfinished
    PROVE  /\ handler' \in [Events -> {UnusedEvent, HandledEvent} \cup Handlings]
           /\ HasNext'
<1>1. handler[e] \in Handlings
  BY HandlingTyped DEF Typed
<1>2. [handler[e] EXCEPT !.pc = place] \in Handlings
  BY <1>1, ThreeResourceSets DEF Handlings, Places
<1>3. handler' = [handler EXCEPT ![e] = [handler[e] EXCEPT !.pc = place]]
  BY DEF Goto
<1>4. handler' \in [Events -> {UnusedEvent, HandledEvent} \cup Handlings]
  BY <1>2, <1>3 DEF Typed, TypeOK
<1>5. HasNext'
  <2>1. SUFFICES ASSUME NEW f \in Events, handler'[f].pc \in Unfinished
                 PROVE  handler'[f].next \in 1..3
    BY DEF HasNext
  <2>2. CASE f # e
    BY <2>1, <2>2, <1>3 DEF Typed, TypeOK, HasNext
  <2>3. CASE f = e
    <3>1. handler'[f].pc = place /\ handler'[f].next = handler[e].next
      BY <2>3, <1>1, <1>3 DEF Typed, TypeOK, Handlings
    <3>2. QED
      BY <3>1, <2>1 DEF Typed, HasNext
  <2>4. QED
    BY <2>2, <2>3
<1>6. QED
  BY <1>4, <1>5

(* An event that has been handled is at no place.                          *)
LEMMA EndTyped ==
    ASSUME Typed, NEW e \in Events, End(e)
    PROVE  /\ handler' \in [Events -> {UnusedEvent, HandledEvent} \cup Handlings]
           /\ HasNext'
BY DEF Typed, TypeOK, HasNext, End, HandledEvent, Unfinished

(* After a batch the next one is dispatched, or the activity is logged.     *)
LEMMA AfterDispatchTyped ==
    ASSUME Typed, NEW e \in Events, At(e, "dispatch"), NEW failed \in BOOLEAN,
           AfterDispatch(e, failed)
    PROVE  /\ handler' \in [Events -> {UnusedEvent, HandledEvent} \cup Handlings]
           /\ HasNext'
<1> DEFINE place == IF handler[e].next = 3 THEN "log" ELSE "dispatch"
           either == handler[e].failed \/ failed
           new == [handler[e] EXCEPT !.next = @ + 1, !.failed = either, !.pc = place]
<1>1. handler[e] \in Handlings /\ handler[e].next \in 1..3
  BY HandlingTyped DEF Typed, HasNext, At, Places, Unfinished
<1>2. handler' = [handler EXCEPT ![e] = new]
  BY ThreeResourceSets DEF AfterDispatch
<1>3. new \in Handlings
  <2>1. either \in BOOLEAN
    OBVIOUS
  <2>2. place \in {"log", "dispatch"}
    OBVIOUS
  <2>3. handler[e].next + 1 \in 1..(Len(ResourceSets) + 1)
    BY <1>1, ThreeResourceSets
  <2> HIDE DEF either, place
  <2>4. QED
    BY <1>1, <2>1, <2>2, <2>3 DEF Handlings
<1>4. new.pc = "dispatch" => new.next \in 1..3
  BY <1>1 DEF Handlings
<1>5. new.pc \in {"log", "dispatch"}
  BY <1>1 DEF Handlings
<1> HIDE DEF new
<1>6. handler' \in [Events -> {UnusedEvent, HandledEvent} \cup Handlings]
  BY <1>2, <1>3 DEF Typed, TypeOK
<1>7. HasNext'
  BY <1>2, <1>4, <1>5 DEF Typed, TypeOK, HasNext, Unfinished
<1>8. QED
  BY <1>6, <1>7

(* A status keeps all of the record but its phase and who wrote it.         *)
LEMMA WriteStatusTyped ==
    ASSUME Typed, NEW e \in Events, NEW phase \in {"pending", "provisioned", "failed"},
           WriteStatus(e, phase)
    PROVE  /\ record' \in Records
           /\ record'.id = record.id /\ record'.approved = record.approved
<1>1. record \in Records /\ e \in 0..MaxEvents
  BY ConnectionAssumption DEF Typed, TypeOK, Events
<1>2. CASE Exists
  <2>1. record' = [record EXCEPT !.phase = phase, !.by = e]
    BY <1>2 DEF WriteStatus
  <2>2. QED
    BY <1>1, <2>1 DEF Records
<1>3. CASE ~Exists
  BY <1>1, <1>3 DEF WriteStatus
<1>4. QED
  BY <1>2, <1>3

(* A field of a change leaves a Boolean value, the old one or a new one.    *)
LEMMA SetTyped ==
    ASSUME NEW old \in BOOLEAN, NEW new \in Field
    PROVE  Set(old, new) \in BOOLEAN
<1>1. CASE new = Keep
  BY <1>1 DEF Set
<1>2. CASE new # Keep
  <2>1. Set(old, new) = (TRUE \in new)
    BY <1>2 DEF Set
  <2>2. QED
    BY <2>1
<1>3. QED
  BY <1>1, <1>2

(* A change makes a record of a record; it keeps the id, or takes the next. *)
LEMMA ChangedTyped ==
    ASSUME Typed, NEW change \in Changes, Exists \/ nextId \in Ids
    PROVE  /\ Changed(change) \in Records
           /\ Changed(change).id = IF Exists THEN record.id ELSE nextId
           /\ Changed(change).id \in Ids
           /\ Changed(change).approved =
                  Set(IF Exists THEN record.approved ELSE FALSE, change.approved)
<1>1. /\ record \in Records
      /\ change.approved \in Field /\ change.active \in Field
  BY DEF Typed, TypeOK, Changes
<1> DEFINE old == IF Exists THEN record ELSE NoRecord
           id == IF Exists THEN record.id ELSE nextId
           approved == Set(old.approved, change.approved)
           active == Set(old.active, change.active)
<1>2. old \in Records
  BY <1>1, ConnectionAssumption DEF Records, NoRecord
<1>3. approved \in BOOLEAN /\ active \in BOOLEAN
  BY <1>1, <1>2, SetTyped DEF Records
<1>4. id \in Ids
  BY <1>1, ConnectionAssumption DEF Records, Exists, Ids
<1>5. Changed(change) = [old EXCEPT !.id = id, !.approved = approved, !.active = active]
  <2>1. CASE Exists
    BY <2>1, <1>1 DEF Changed, Records
  <2>2. CASE ~Exists
    BY <2>2 DEF Changed, NoRecord
  <2>3. QED
    BY <2>1, <2>2
<1>6. old.approved = IF Exists THEN record.approved ELSE FALSE
  BY DEF NoRecord
<1> HIDE DEF old, id
<1>7. [old EXCEPT !.id = id, !.approved = approved, !.active = active] \in Records
  <2>1. id \in 0..MaxIds
    BY <1>4, ConnectionAssumption DEF Ids
  <2> HIDE DEF approved, active
  <2>2. QED
    BY <1>2, <1>3, <2>1 DEF Records
<1>8. Changed(change).id = id /\ Changed(change).approved = approved
  BY <1>2, <1>5 DEF Records
<1>9. QED
  BY <1>4, <1>5, <1>6, <1>7, <1>8 DEF id

(* What is posted is an event at its first place, or one that is lost.      *)
LEMMA PostTyped ==
    ASSUME Typed, NEW new \in Records, new.id \in Ids, Post(new)
    PROVE  /\ handler' \in [Events -> {UnusedEvent, HandledEvent} \cup Handlings]
           /\ HasNext'
<1>1. PICK e \in Events :
          handler' = [handler EXCEPT ![e] =
              IF ~Reachable THEN HandledEvent
              ELSE [pc |-> "posted", id |-> new.id, approved |-> new.approved,
                    action |-> IF new.active THEN "apply" ELSE "delete",
                    next |-> 1, failed |-> FALSE]]
  BY DEF Post
<1> DEFINE posted == [pc |-> "posted", id |-> new.id, approved |-> new.approved,
                      action |-> IF new.active THEN "apply" ELSE "delete",
                      next |-> 1, failed |-> FALSE]
<1>2. posted \in Handlings /\ posted.next \in 1..3
  BY ThreeResourceSets DEF Handlings, Records
<1>3. handler' = [handler EXCEPT ![e] = IF ~Reachable THEN HandledEvent ELSE posted]
  BY <1>1
<1> HIDE DEF posted
<1>4. CASE Reachable
  BY <1>2, <1>3, <1>4 DEF Typed, TypeOK, HasNext
<1>5. CASE ~Reachable
  BY <1>3, <1>5 DEF Typed, TypeOK, HasNext, HandledEvent, Unfinished
<1>6. QED
  BY <1>4, <1>5

(* A caller that is about to write holds a change.                          *)
LEMMA WriterTyped ==
    ASSUME TypeOK, NEW c \in Callers, caller[c].pc = "write"
    PROVE  caller[c] \in Changes
BY DEF TypeOK, IdleCaller, Deletions

(* What the gateways hold after a resource set has been applied.            *)
LEMMA RoutedTyped ==
    ASSUME TypeOK, NEW e \in Events, handler[e].pc \in Places, NEW part
    PROVE  Routed(e, part) \in [Ids -> SUBSET Parts]
<1>1. handler[e].id \in Ids
  BY HandlingTyped DEF Handlings
<1>2. QED
  BY <1>1 DEF Routed, TypeOK

-----------------------------------------------------------------------------
(***************************************************************************)
(* Type correctness.                                                       *)
(***************************************************************************)

(* The initial states have their types.                                    *)
LEMMA InitTyped == Init => Typed
<1>1. SUFFICES ASSUME Init PROVE Typed
  OBVIOUS
<1>2. record \in Records /\ nextId \in 1..(MaxIds + 1)
  BY <1>1, ConnectionAssumption DEF Init, NoRecord, Records
<1>3. /\ caller \in [Callers -> {IdleCaller} \cup Changes \cup Deletions]
      /\ handler \in [Events -> {UnusedEvent, HandledEvent} \cup Handlings]
      /\ gateway \in [Ids -> SUBSET Parts]
      /\ granted \subseteq Ids
  BY <1>1 DEF Init
<1>4. HasNext
  BY <1>1 DEF Init, HasNext, UnusedEvent, Unfinished
<1>5. QED
  BY <1>2, <1>3, <1>4 DEF Typed, TypeOK

(* The steps of the Portal, each with the part of the state it changes.     *)
LEMMA PortalTyped ==
    ASSUME Typed, NEW c \in Callers, PortalStep(c)
    PROVE  Typed'
<1> USE DEF Typed
<1>1. CASE CheckUpsert(c)
  <2>1. PICK org \in Orgs, submitted \in Field, active \in Field, other \in BOOLEAN :
            caller' = [caller EXCEPT ![c] =
                 [pc |-> "write", org |-> org, create |-> TRUE, other |-> other,
                  approved |-> WithoutResent(submitted), active |-> active]]
    BY <1>1 DEF CheckUpsert
  <2>2. WithoutResent(submitted) \in Field
    BY DEF WithoutResent, Field
  <2>3. [pc |-> "write", org |-> org, create |-> TRUE, other |-> other,
         approved |-> WithoutResent(submitted), active |-> active] \in Changes
    BY <2>2 DEF Changes
  <2>4. caller' \in [Callers -> {IdleCaller} \cup Changes \cup Deletions]
    BY <2>1, <2>3 DEF TypeOK
  <2>5. QED
    BY <1>1, <2>4 DEF CheckUpsert, TypeOK, HasNext
<1>2. CASE CheckApproval(c)
  <2>1. PICK org \in Orgs, submitted \in Field \ {Keep}, active \in Field :
            caller' = [caller EXCEPT ![c] =
                 [pc |-> "write", org |-> org, create |-> FALSE, other |-> active = Keep,
                  approved |-> WithoutResent(submitted), active |-> active]]
    BY <1>2, ZenonT(60) DEF CheckApproval
  <2> DEFINE other == active = Keep
  <2>2. WithoutResent(submitted) \in Field /\ other \in BOOLEAN
    BY DEF WithoutResent, Field
  <2>3. caller' = [caller EXCEPT ![c] =
                 [pc |-> "write", org |-> org, create |-> FALSE, other |-> other,
                  approved |-> WithoutResent(submitted), active |-> active]]
    BY <2>1
  <2> HIDE DEF other
  <2>4. [pc |-> "write", org |-> org, create |-> FALSE, other |-> other,
         approved |-> WithoutResent(submitted), active |-> active] \in Changes
    BY <2>2 DEF Changes
  <2>5. caller' \in [Callers -> {IdleCaller} \cup Changes \cup Deletions]
    BY <2>3, <2>4 DEF TypeOK
  <2>6. QED
    BY <1>2, <2>5 DEF CheckApproval, TypeOK, HasNext
<1>3. CASE CheckDelete(c)
  <2>1. record.id \in Ids
    BY <1>3, ConnectionAssumption DEF CheckDelete, TypeOK, Records, Exists, Ids
  <2>2. QED
    BY <1>3, <2>1 DEF CheckDelete, TypeOK, HasNext, Deletions
<1>4. CASE Write(c)
  <2> DEFINE new == Changed(caller[c])
  <2>1. caller[c] \in Changes
    BY <1>4, WriterTyped DEF Write
  <2>2. new \in Records /\ new.id \in Ids
    BY <1>4, <2>1, ChangedTyped DEF Write
  <2> HIDE DEF new
  <2>3. /\ record' = new
        /\ nextId' = IF Exists THEN nextId ELSE nextId + 1
        /\ Exists \/ nextId \in Ids
        /\ handler' = handler \/ Post(new)
        /\ granted' = granted \/ granted' = granted \cup {new.id}
        /\ caller' = [caller EXCEPT ![c] = IdleCaller]
        /\ gateway' = gateway
    BY <1>4 DEF Write, new
  <2>4. nextId' \in 1..(MaxIds + 1)
    BY <2>3, ConnectionAssumption DEF TypeOK, Ids
  <2>5. /\ handler' \in [Events -> {UnusedEvent, HandledEvent} \cup Handlings]
        /\ HasNext'
    <3>1. CASE handler' = handler
      BY <3>1 DEF TypeOK, HasNext
    <3>2. CASE Post(new)
      BY <3>2, <2>2, PostTyped
    <3>3. QED
      BY <2>3, <3>1, <3>2
  <2>6. QED
    BY <2>2, <2>3, <2>4, <2>5 DEF TypeOK
<1>5. CASE WriteFails(c)
  BY <1>5 DEF WriteFails, TypeOK, HasNext
<1>6. CASE GuardDelete(c)
  <2>1. caller[c] \in Deletions
    BY <1>6 DEF GuardDelete, TypeOK, IdleCaller, Changes
  <2>2. [pc |-> "delete", id |-> caller[c].id] \in Deletions
    BY <2>1 DEF Deletions
  <2>3. QED
    BY <1>6, <2>2 DEF GuardDelete, TypeOK, HasNext
<1>7. CASE DeleteRow(c)
  <2>1. record' \in Records
    BY <1>7, ConnectionAssumption DEF DeleteRow, TypeOK, Records, NoRecord
  <2>2. QED
    BY <1>7, <2>1 DEF DeleteRow, TypeOK, HasNext
<1>8. QED
  BY <1>1, <1>2, <1>3, <1>4, <1>5, <1>6, <1>7 DEF PortalStep

(* What a step of a handler does to its handling.                           *)
LEMMA HandlerTyped ==
    ASSUME Typed, NEW e \in Events, HandlerStep(e)
    PROVE  Typed'
<1>1. CASE Start(e)
  <2>1. handler[e].pc = "posted"
    BY <1>1 DEF Start, At
  <2>2. record' \in Records
    BY <1>1, WriteStatusTyped DEF Start, Typed, TypeOK
  <2>3. CASE Goto(e, "build")
    BY <1>1, <2>1, <2>2, <2>3, GotoTyped DEF Start, Typed, TypeOK, Places, Unfinished
  <2>4. CASE End(e)
    BY <1>1, <2>2, <2>4, EndTyped DEF Start, Typed, TypeOK
  <2>5. QED
    BY <1>1, <2>3, <2>4 DEF Start
<1>2. CASE StartFails(e)
  BY <1>2, EndTyped DEF StartFails, Typed, TypeOK
<1>3. CASE Build(e)
  BY <1>3, GotoTyped DEF Build, At, Typed, TypeOK, Places, Unfinished
<1>4. CASE BuildFails(e)
  <2>1. CASE Goto(e, "exception")
    BY <1>4, <2>1, GotoTyped DEF BuildFails, At, Typed, TypeOK, Places, Unfinished
  <2>2. CASE End(e)
    BY <1>4, <2>2, EndTyped DEF BuildFails, Typed, TypeOK
  <2>3. QED
    BY <1>4, <2>1, <2>2 DEF BuildFails, Raise
<1>5. ASSUME Dispatch(e) \/ DispatchFails(e) PROVE Typed'
  <2>1. At(e, "dispatch") /\ \E failed \in BOOLEAN : AfterDispatch(e, failed)
    BY <1>5 DEF Dispatch, DispatchFails
  <2>2. Routed(e, ResourceSets[handler[e].next]) \in [Ids -> SUBSET Parts]
    BY <2>1, RoutedTyped DEF Typed, At, Places
  <2>3. gateway' \in [Ids -> SUBSET Parts]
    BY <1>5, <2>2 DEF Dispatch, DispatchFails, Typed, TypeOK
  <2>4. QED
    BY <1>5, <2>1, <2>3, AfterDispatchTyped DEF Dispatch, DispatchFails, Typed, TypeOK
<1>6. CASE LogActivity(e)
  <2>1. CASE Goto(e, "report")
    BY <1>6, <2>1, GotoTyped DEF LogActivity, At, Typed, TypeOK, Places, Unfinished
  <2>2. CASE End(e)
    BY <1>6, <2>2, EndTyped DEF LogActivity, Typed, TypeOK
  <2>3. QED
    BY <1>6, <2>1, <2>2 DEF LogActivity
<1>7. CASE LogActivityFails(e)
  <2>1. CASE Goto(e, "exception")
    BY <1>7, <2>1, GotoTyped DEF LogActivityFails, At, Typed, TypeOK, Places, Unfinished
  <2>2. CASE End(e)
    BY <1>7, <2>2, EndTyped DEF LogActivityFails, Typed, TypeOK
  <2>3. QED
    BY <1>7, <2>1, <2>2 DEF LogActivityFails, Raise
<1>8. CASE Report(e)
  <2>1. record' \in Records
    BY <1>8, WriteStatusTyped DEF Report
  <2>2. QED
    BY <1>8, <2>1, EndTyped DEF Report, Typed, TypeOK
<1>9. CASE HandleException(e)
  <2>1. record' \in Records
    BY <1>9, WriteStatusTyped DEF HandleException
  <2>2. QED
    BY <1>9, <2>1, EndTyped DEF HandleException, Typed, TypeOK
<1>10. CASE StatusWriteFails(e)
  BY <1>10, EndTyped DEF StatusWriteFails, Typed, TypeOK
<1>11. QED
  BY <1>1, <1>2, <1>3, <1>4, <1>5, <1>6, <1>7, <1>8, <1>9, <1>10 DEF HandlerStep

(* Every step keeps types.                                                 *)
LEMMA StepTyped == Typed /\ [Next]_vars => Typed'
<1>1. SUFFICES ASSUME Typed, [Next]_vars PROVE Typed'
  OBVIOUS
<1>2. CASE \E c \in Callers : PortalStep(c)
  BY <1>1, <1>2, PortalTyped
<1>3. CASE \E e \in Events : HandlerStep(e)
  BY <1>1, <1>3, HandlerTyped
<1>4. CASE Crash
  <2>1. handler' \in [Events -> {UnusedEvent, HandledEvent} \cup Handlings]
    BY <1>1, <1>4 DEF Crash, Typed, TypeOK
  <2>2. HasNext'
    BY <1>1, <1>4 DEF Crash, Typed, TypeOK, HasNext, HandledEvent, Unfinished
  <2>3. QED
    BY <1>1, <1>4, <2>1, <2>2 DEF Crash, Typed, TypeOK
<1>5. CASE UNCHANGED vars
  BY <1>1, <1>5 DEF vars, Typed, TypeOK, HasNext
<1>6. QED
  BY <1>1, <1>2, <1>3, <1>4, <1>5 DEF Next

(* Every state has its type; a handling that dispatches always has a        *)
(* resource set left, so the three dispatches of a change are never fewer   *)
(* and never more.                                                          *)
THEOREM TypeCorrect == Spec => []TypeOK
<1>1. Typed => TypeOK
  BY DEF Typed
<1>2. QED
  BY InitTyped, StepTyped, <1>1, PTL DEF Spec
-----------------------------------------------------------------------------
(***************************************************************************)
(* Approval.                                                               *)
(***************************************************************************)

(* Who is about to write an approval is the service's organization.         *)
WritersMayApprove ==
    \A c \in Callers :
        caller[c].pc = "write" /\ caller[c].approved = {TRUE}
        => caller[c].org = "service"

(* What claims an approval, the record or an event that left it, belongs to *)
(* a record that was granted.                                               *)
RecordIsGranted == record.approved => record.id \in granted

EventsAreGranted ==
    \A e \in Events :
        handler[e].pc \in Places /\ handler[e].approved => handler[e].id \in granted

(* A handling that dispatches an apply has passed the policy.               *)
DispatchersPassed ==
    \A e \in Events :
        RequiresApproval /\ handler[e].pc = "dispatch" /\ handler[e].action = "apply"
        => handler[e].approved

Granting ==
    /\ Typed
    /\ WritersMayApprove
    /\ RecordIsGranted
    /\ EventsAreGranted
    /\ DispatchersPassed
    /\ RoutedOnlyIfGranted

(* Nothing is approved in the initial states.                              *)
LEMMA InitGranting == Init => Granting
<1>1. SUFFICES ASSUME Init PROVE Granting
  OBVIOUS
<1>2. WritersMayApprove
  BY <1>1 DEF Init, WritersMayApprove, IdleCaller
<1>3. RecordIsGranted
  BY <1>1 DEF Init, RecordIsGranted, NoRecord
<1>4. EventsAreGranted /\ DispatchersPassed
  BY <1>1 DEF Init, EventsAreGranted, DispatchersPassed, UnusedEvent, Places
<1>5. RoutedOnlyIfGranted
  BY <1>1 DEF Init, RoutedOnlyIfGranted
<1>6. QED
  BY <1>1, <1>2, <1>3, <1>4, <1>5, InitTyped DEF Granting

(* What a write makes approved was approved before, or is granted by it.    *)
LEMMA WriteGrants ==
    ASSUME Granting, NEW c \in Callers, Write(c)
    PROVE  /\ granted \subseteq granted'
           /\ Changed(caller[c]).approved => Changed(caller[c]).id \in granted'
           /\ record'.approved /\ ~record.approved => caller[c].org = "service"
<1> DEFINE new == Changed(caller[c])
           old == IF Exists THEN record.approved ELSE FALSE
           approval == caller[c].approved
<1>1. caller[c] \in Changes /\ approval \in Field
  BY WriterTyped DEF Granting, Typed, Write, Changes
<1>2. /\ new.id = IF Exists THEN record.id ELSE nextId
      /\ new.approved = Set(old, approval)
      /\ record' = new
      /\ granted' = IF new.approved /\ ~record.approved /\ caller[c].org = "service"
                    THEN granted \cup {new.id} ELSE granted
  BY <1>1, ChangedTyped DEF Granting, Write
<1>3. record.approved => Exists
  BY ConnectionAssumption DEF Granting, RecordIsGranted, Typed, TypeOK, Ids, Exists
<1> HIDE DEF new
<1>4. CASE record.approved
  BY <1>2, <1>3, <1>4 DEF Granting, RecordIsGranted, new
<1>5. CASE ~record.approved
  <2>1. ~old
    BY <1>5
  <2>2. Set(old, approval) => approval = {TRUE}
    <3> HIDE DEF old, approval
    <3>1. QED
      BY <1>1, <2>1 DEF Set, Field, Keep
  <2>3. new.approved => caller[c].org = "service"
    BY <1>2, <2>2 DEF Granting, WritersMayApprove, Write
  <2>4. QED
    BY <1>2, <1>5, <2>3 DEF new
<1>6. QED
  BY <1>4, <1>5

(* The steps of the Portal.                                                 *)
LEMMA PortalGranting ==
    ASSUME Granting, NEW c \in Callers, PortalStep(c)
    PROVE  Granting'
<1>1. Typed'
  BY PortalTyped DEF Granting
<1>2. /\ caller \in [Callers -> {IdleCaller} \cup Changes \cup Deletions]
      /\ handler \in [Events -> {UnusedEvent, HandledEvent} \cup Handlings]
  BY DEF Granting, Typed, TypeOK
<1>3. ASSUME CheckUpsert(c) \/ CheckApproval(c) PROVE Granting'
  <2>1. UNCHANGED <<record, handler, gateway, granted>>
    BY <1>3 DEF CheckUpsert, CheckApproval
  <2>2. \E org \in Orgs, submitted \in Field :
            /\ MayUpsert(org, submitted)
            /\ caller'[c].approved = WithoutResent(submitted)
            /\ caller'[c].org = org
    <3>1. CASE CheckUpsert(c)
      BY <1>2, <3>1 DEF CheckUpsert
    <3>2. CASE CheckApproval(c)
      BY <1>2, <3>2 DEF CheckApproval
    <3>3. QED
      BY <1>3, <3>1, <3>2
  <2>3. caller'[c].approved = {TRUE} => caller'[c].org = "service"
    BY <2>2 DEF MayUpsert, WithoutResent, Keep
  <2>4. \A other \in Callers \ {c} : caller'[other] = caller[other]
    BY <1>2, <1>3 DEF CheckUpsert, CheckApproval
  <2>5. WritersMayApprove'
    BY <2>3, <2>4 DEF Granting, WritersMayApprove
  <2>6. QED
    BY <1>1, <2>1, <2>5 DEF Granting, RecordIsGranted, EventsAreGranted,
                            DispatchersPassed, RoutedOnlyIfGranted
<1>4. CASE Write(c)
  <2> DEFINE new == Changed(caller[c])
  <2>1. /\ record' = new /\ gateway' = gateway
        /\ handler' = handler \/ Post(new)
        /\ caller' = [caller EXCEPT ![c] = IdleCaller]
    BY <1>4 DEF Write
  <2>2. /\ granted \subseteq granted'
        /\ new.approved => new.id \in granted'
    BY <1>4, WriteGrants
  <2> HIDE DEF new
  <2>3. WritersMayApprove'
    BY <1>2, <2>1 DEF Granting, WritersMayApprove, IdleCaller
  <2>4. RecordIsGranted'
    BY <2>1, <2>2 DEF RecordIsGranted
  <2>5. \A e \in Events :
            \/ handler'[e] = handler[e]
            \/ handler'[e] = HandledEvent
            \/ /\ handler'[e].pc = "posted" /\ handler'[e].id = new.id
               /\ handler'[e].approved = new.approved
    BY <1>2, <2>1 DEF Post
  <2>6. EventsAreGranted'
    BY <2>2, <2>5 DEF Granting, EventsAreGranted, HandledEvent, Places
  <2>7. DispatchersPassed'
    BY <2>5 DEF Granting, DispatchersPassed, HandledEvent
  <2>8. RoutedOnlyIfGranted'
    BY <2>1, <2>2 DEF Granting, RoutedOnlyIfGranted
  <2>9. QED
    BY <1>1, <2>3, <2>4, <2>6, <2>7, <2>8 DEF Granting
<1>5. CASE WriteFails(c)
  BY <1>1, <1>2, <1>5 DEF WriteFails, Granting, WritersMayApprove, RecordIsGranted,
      EventsAreGranted, DispatchersPassed, RoutedOnlyIfGranted, IdleCaller
<1>6. ASSUME CheckDelete(c) \/ GuardDelete(c) PROVE Granting'
  <2>1. UNCHANGED <<record, handler, gateway, granted>>
    BY <1>6 DEF CheckDelete, GuardDelete
  <2>2. caller'[c].pc # "write"
    BY <1>2, <1>6 DEF CheckDelete, GuardDelete, IdleCaller
  <2>3. \A other \in Callers \ {c} : caller'[other] = caller[other]
    BY <1>2, <1>6 DEF CheckDelete, GuardDelete
  <2>4. QED
    BY <1>1, <2>1, <2>2, <2>3 DEF Granting, WritersMayApprove, RecordIsGranted,
        EventsAreGranted, DispatchersPassed, RoutedOnlyIfGranted
<1>7. CASE DeleteRow(c)
  <2>1. RecordIsGranted'
    BY <1>7 DEF DeleteRow, Granting, RecordIsGranted, NoRecord
  <2>2. QED
    BY <1>1, <1>2, <1>7, <2>1 DEF DeleteRow, Granting, WritersMayApprove,
        EventsAreGranted, DispatchersPassed, RoutedOnlyIfGranted, IdleCaller
<1>8. QED
  BY <1>3, <1>4, <1>5, <1>6, <1>7 DEF PortalStep

(* A step of a handler keeps what an event carries and whether the record is *)
(* approved, and comes to a dispatch only with leave of the policy.         *)
LEMMA HandlerKeeps ==
    ASSUME Typed, NEW e \in Events, HandlerStep(e)
    PROVE  /\ UNCHANGED <<caller, granted>>
           /\ record'.id = record.id /\ record'.approved = record.approved
           /\ \A f \in Events :
                 handler'[f].pc \in Places =>
                     /\ handler[f].pc \in Places
                     /\ handler'[f].id = handler[f].id
                     /\ handler'[f].approved = handler[f].approved
                     /\ handler'[f].action = handler[f].action
                     /\ handler'[f].pc = "dispatch" =>
                            handler[f].pc = "dispatch" \/ PolicyAllows(f)
<1>1. UNCHANGED <<caller, granted>>
  BY DEF HandlerStep, Start, StartFails, Build, BuildFails, Dispatch, DispatchFails,
         LogActivity, LogActivityFails, Report, HandleException, StatusWriteFails
<1>2. record'.id = record.id /\ record'.approved = record.approved
  <2>1. CASE UNCHANGED record
    BY <2>1
  <2>2. CASE \E phase \in {"pending", "provisioned", "failed"} : WriteStatus(e, phase)
    BY <2>2, WriteStatusTyped
  <2>3. QED
    BY <2>1, <2>2 DEF HandlerStep, Start, StartFails, Build, BuildFails, Dispatch,
         DispatchFails, LogActivity, LogActivityFails, Report, HandleException, StatusWriteFails
<1>3. /\ handler[e].pc \in Places
      /\ \/ End(e)
         \/ Goto(e, "build") \/ Goto(e, "log") \/ Goto(e, "report") \/ Goto(e, "exception")
         \/ Goto(e, "dispatch") /\ PolicyAllows(e)
         \/ handler[e].pc = "dispatch" /\ \E failed \in BOOLEAN : AfterDispatch(e, failed)
  BY DEF HandlerStep, Start, StartFails, Build, BuildFails, Dispatch, DispatchFails,
         LogActivity, LogActivityFails, Report, HandleException, StatusWriteFails,
         Raise, At, Places
<1>4. /\ handler \in [Events -> {UnusedEvent, HandledEvent} \cup Handlings]
      /\ handler[e] \in Handlings
  BY <1>3, HandlingTyped DEF Typed, TypeOK
<1>5. \A f \in Events \ {e} : handler'[f] = handler[f]
  BY <1>3, <1>4 DEF End, Goto, AfterDispatch
<1>6. \/ handler'[e] = HandledEvent
      \/ /\ handler'[e].id = handler[e].id
         /\ handler'[e].approved = handler[e].approved
         /\ handler'[e].action = handler[e].action
  <2>1. CASE End(e)
    BY <1>4, <2>1 DEF End
  <2>2. CASE \E place \in Places : Goto(e, place)
    BY <1>4, <2>2 DEF Goto, Handlings
  <2>3. CASE \E failed \in BOOLEAN : AfterDispatch(e, failed)
    <3>1. PICK failed \in BOOLEAN : AfterDispatch(e, failed)
      BY <2>3
    <3> DEFINE either == handler[e].failed \/ failed
               place == IF handler[e].next = Len(ResourceSets) THEN "log" ELSE "dispatch"
    <3>2. handler' = [handler EXCEPT ![e] =
                         [handler[e] EXCEPT !.next = @ + 1, !.failed = either, !.pc = place]]
      BY <3>1 DEF AfterDispatch
    <3> HIDE DEF either, place
    <3>3. QED
      BY <1>4, <3>2 DEF Handlings
  <2>4. QED
    BY <1>3, <2>1, <2>2, <2>3 DEF Places
<1>7. handler'[e].pc = "dispatch" => handler[e].pc = "dispatch" \/ PolicyAllows(e)
  BY <1>3, <1>4 DEF End, Goto, HandledEvent, Handlings
<1>8. QED
  BY <1>1, <1>2, <1>3, <1>5, <1>6, <1>7 DEF HandledEvent, Places

(* A step of a handler that adds configuration is one of an apply that      *)
(* dispatches.                                                              *)
LEMMA HandlerRoutes ==
    ASSUME Typed, NEW e \in Events, HandlerStep(e),
           NEW id \in Ids, gateway'[id] # {}
    PROVE  \/ gateway[id] # {}
           \/ handler[e].pc = "dispatch" /\ handler[e].action = "apply" /\ handler[e].id = id
<1>1. CASE UNCHANGED gateway
  BY <1>1
<1>2. CASE /\ handler[e].pc = "dispatch"
           /\ \E part \in {ResourceSets[handler[e].next]} : gateway' = Routed(e, part)
  <2>1. handler[e] \in Handlings
    BY <1>2, HandlingTyped DEF Typed, Places
  <2>2. gateway \in [Ids -> SUBSET Parts]
    BY DEF Typed, TypeOK
  <2>3. QED
    BY <1>2, <2>1, <2>2 DEF Routed, Handlings
<1>3. QED
  BY <1>1, <1>2 DEF HandlerStep, Start, StartFails, Build, BuildFails, Dispatch,
       DispatchFails, LogActivity, LogActivityFails, Report, HandleException,
       StatusWriteFails, At

(* A handler carries only approvals that its event carried.                *)
LEMMA HandlerGranting ==
    ASSUME Granting, NEW e \in Events, HandlerStep(e)
    PROVE  Granting'
<1>1. Typed /\ Typed'
  BY HandlerTyped DEF Granting
<1>2. WritersMayApprove' /\ RecordIsGranted'
  <2>1. /\ caller' = caller /\ granted' = granted
        /\ record'.id = record.id /\ record'.approved = record.approved
    BY <1>1, HandlerKeeps
  <2>2. WritersMayApprove'
    BY <2>1 DEF Granting, WritersMayApprove
  <2>3. RecordIsGranted'
    BY <2>1 DEF Granting, RecordIsGranted
  <2>4. QED
    BY <2>2, <2>3
<1>3. EventsAreGranted'
  BY <1>1, HandlerKeeps DEF Granting, EventsAreGranted
<1>4. DispatchersPassed'
  <2>1. SUFFICES ASSUME NEW f \in Events, RequiresApproval, handler'[f].pc = "dispatch",
                        handler'[f].action = "apply"
                 PROVE  handler'[f].approved
    BY DEF DispatchersPassed
  <2>2. /\ handler'[f].approved = handler[f].approved
        /\ handler[f].action = "apply"
        /\ handler[f].pc = "dispatch" \/ PolicyAllows(f)
    BY <1>1, <2>1, HandlerKeeps DEF Places
  <2>3. handler[f].approved
    BY <2>1, <2>2 DEF Granting, DispatchersPassed, PolicyAllows
  <2>4. QED
    BY <2>2, <2>3
<1>5. RoutedOnlyIfGranted'
  <2>1. SUFFICES ASSUME RequiresApproval, NEW id \in Ids, gateway'[id] # {}
                 PROVE  id \in granted'
    BY DEF RoutedOnlyIfGranted
  <2>2. granted' = granted
    BY <1>1, HandlerKeeps
  <2>3. CASE gateway[id] # {}
    BY <2>1, <2>2, <2>3 DEF Granting, RoutedOnlyIfGranted
  <2>4. CASE /\ handler[e].pc = "dispatch" /\ handler[e].action = "apply"
             /\ handler[e].id = id
    BY <2>1, <2>2, <2>4 DEF Granting, DispatchersPassed, EventsAreGranted, Places
  <2>5. QED
    BY <1>1, <2>1, <2>3, <2>4, HandlerRoutes
<1>6. QED
  BY <1>1, <1>2, <1>3, <1>4, <1>5 DEF Granting

(* Every step keeps the approval on its way.                               *)
LEMMA StepGranting == Granting /\ [Next]_vars => Granting'
<1>1. SUFFICES ASSUME Granting, [Next]_vars PROVE Granting'
  OBVIOUS
<1>2. CASE \E c \in Callers : PortalStep(c)
  BY <1>1, <1>2, PortalGranting
<1>3. CASE \E e \in Events : HandlerStep(e)
  BY <1>1, <1>3, HandlerGranting
<1>4. CASE Crash
  <2>1. Typed'
    BY <1>1, StepTyped DEF Granting
  <2>2. /\ UNCHANGED <<record, caller, gateway, granted>>
        /\ \A e \in Events : handler'[e] = handler[e] \/ handler'[e] = HandledEvent
    BY <1>4 DEF Crash
  <2>3. WritersMayApprove' /\ RecordIsGranted' /\ RoutedOnlyIfGranted'
    BY <1>1, <2>2 DEF Granting, WritersMayApprove, RecordIsGranted, RoutedOnlyIfGranted
  <2>4. EventsAreGranted'
    BY <1>1, <2>2 DEF Granting, EventsAreGranted, HandledEvent, Places
  <2>5. DispatchersPassed'
    BY <1>1, <2>2 DEF Granting, DispatchersPassed, HandledEvent
  <2>6. QED
    BY <2>1, <2>3, <2>4, <2>5 DEF Granting
<1>5. CASE UNCHANGED vars
  <2>1. Typed'
    BY <1>1, StepTyped DEF Granting
  <2>2. QED
    BY <1>1, <1>5, <2>1 DEF vars, Granting, WritersMayApprove, RecordIsGranted,
        EventsAreGranted, DispatchersPassed, RoutedOnlyIfGranted
<1>6. QED
  BY <1>1, <1>2, <1>3, <1>4, <1>5 DEF Next

(* Under R1 nothing is ever routed for a record that the service's           *)
(* organization never approved, for any number of callers, events and       *)
(* records, and whatever is lost, delayed, repeated by a caller or restarted. *)
THEOREM NothingRoutedUngranted == Spec => []RoutedOnlyIfGranted
<1>1. Granting => RoutedOnlyIfGranted
  BY DEF Granting
<1>2. QED
  BY InitGranting, StepGranting, <1>1, PTL DEF Spec

(* A connection becomes approved only by a write of the service's            *)
(* organization: neither a status, nor a client that resends what it read,  *)
(* approves one.                                                            *)
THEOREM OnlyGrantedByServiceOrg == Spec => OnlyServiceOrgGrants
<1> DEFINE Grants ==
        record'.approved /\ ~record.approved =>
           \E c \in Callers : caller[c].pc = "write" /\ caller[c].org = "service"
                              /\ caller'[c] = IdleCaller
<1>1. Granting /\ [Next]_vars => [Grants]_vars
  <2>1. SUFFICES ASSUME Granting, Next, record'.approved, ~record.approved
                 PROVE  \E c \in Callers : caller[c].pc = "write" /\ caller[c].org = "service"
                              /\ caller'[c] = IdleCaller
    OBVIOUS
  <2>2. CASE \E c \in Callers : Write(c)
    <3>1. PICK c \in Callers : Write(c)
      BY <2>2
    <3>2. caller[c].org = "service"
      BY <2>1, <3>1, WriteGrants
    <3>3. caller[c].pc = "write" /\ caller'[c] = IdleCaller
      BY <2>1, <3>1 DEF Write, Granting, Typed, TypeOK
    <3>4. QED
      BY <3>2, <3>3
  <2>3. CASE \E e \in Events : HandlerStep(e)
    BY <2>1, <2>3, HandlerKeeps DEF Granting
  <2>4. CASE UNCHANGED record
    BY <2>1, <2>4
  <2>5. CASE \E c \in Callers : DeleteRow(c)
    BY <2>1, <2>5 DEF DeleteRow, NoRecord
  <2>6. QED
    BY <2>1, <2>2, <2>3, <2>4, <2>5 DEF Next, PortalStep, Crash, CheckUpsert,
        CheckApproval, CheckDelete, WriteFails, GuardDelete
<1>2. Spec => [][Grants]_vars
  BY <1>1, InitGranting, StepGranting, PTL DEF Spec
<1>3. QED
  BY <1>2 DEF OnlyServiceOrgGrants

-----------------------------------------------------------------------------
(***************************************************************************)
(* Connection implements Agreement: for any callers, events and records,    *)
(* whether callers wait for each other or not.                              *)
(***************************************************************************)

Busy(c) == caller[c] # IdleCaller

(* Callers that wait leave the Portal and the provisioner to one change at a *)
(* time, so that what is in flight is about the record in force and only it *)
(* is routed.                                                               *)
OneAtATime ==
    /\ \A c, d \in Callers : Busy(c) /\ Busy(d) => c = d
    /\ \A c \in Callers, e \in Events : Busy(c) => ~InFlight(e)
    /\ \A e \in Events : InFlight(e) => Exists /\ handler[e].id = record.id
    /\ \A id \in Ids : id # record.id => gateway[id] = {}
    /\ \A c \in Callers :
          caller[c].pc \in {"guard", "delete"} => gateway[caller[c].id] = {}

Kept == Granting /\ (Patient => OneAtATime)

(* An event in flight is one that has a place.                              *)
LEMMA InFlightHasPlace ==
    ASSUME TypeOK, NEW e \in Events
    PROVE  InFlight(e) <=> handler[e].pc \in Places
BY DEF TypeOK, InFlight, UnusedEvent, HandledEvent, Places, Handlings

(* A caller that is busy is in the middle of a write or a delete.            *)
LEMMA BusyHasPlace ==
    ASSUME TypeOK, NEW c \in Callers
    PROVE  Busy(c) <=> caller[c].pc \in {"write", "guard", "delete"}
BY DEF TypeOK, Busy, IdleCaller, Changes, Deletions

-----------------------------------------------------------------------------
(* At first there is no connection.                                         *)
LEMMA InitKept == Init => Kept /\ Promised!Init
<1>1. SUFFICES ASSUME Init PROVE Kept /\ Promised!Init
  OBVIOUS
<1>2. Granting
  BY <1>1, InitGranting
<1>3. OneAtATime
  BY <1>1 DEF Init, OneAtATime, Busy, InFlight, IdleCaller
<1>4. Promised!Init
  BY <1>1 DEF Init, Promised!Init, NoRecord
<1>5. QED
  BY <1>2, <1>3, <1>4 DEF Kept

(* A check changes nothing that was promised; one that a patient caller      *)
(* makes finds nothing else under way.                                      *)
LEMMA CheckKept ==
    ASSUME Kept, NEW c \in Callers, CheckUpsert(c) \/ CheckApproval(c) \/ CheckDelete(c)
    PROVE  /\ Patient => OneAtATime'
           /\ UNCHANGED Promised!vars
<1>1. /\ UNCHANGED <<record, nextId, handler, gateway, granted>> /\ MayCall
      /\ \A d \in Callers \ {c} : caller'[d] = caller[d]
  BY DEF CheckUpsert, CheckApproval, CheckDelete, Kept, Granting, Typed, TypeOK
<1>2. caller'[c].pc \in {"guard", "delete"} => gateway[caller'[c].id] = {}
  <2>1. CASE CheckUpsert(c)
    BY <2>1 DEF CheckUpsert, Kept, Granting, Typed, TypeOK
  <2>2. CASE CheckApproval(c)
    BY <2>2 DEF CheckApproval, Kept, Granting, Typed, TypeOK
  <2>3. CASE CheckDelete(c)
    BY <2>3 DEF CheckDelete, NoConfiguration, Kept, Granting, Typed, TypeOK
  <2>4. QED
    BY <2>1, <2>2, <2>3
<1>3. ASSUME Patient PROVE OneAtATime'
  <2>1. /\ \A e \in Events : ~InFlight(e)
        /\ \A d \in Callers : ~Busy(d)
    BY <1>1, <1>3 DEF MayCall, Quiet, Busy
  <2>2. /\ \A e \in Events : ~InFlight(e)'
        /\ \A d \in Callers \ {c} : ~Busy(d)'
    BY <1>1, <2>1 DEF InFlight, Busy
  <2>3. \A d \in Callers \ {c} : caller'[d].pc \notin {"guard", "delete"}
    BY <1>1, <2>1 DEF Busy, IdleCaller
  <2>4. QED
    BY <1>1, <1>2, <1>3, <2>2, <2>3 DEF OneAtATime, Kept
<1>4. QED
  BY <1>1, <1>3 DEF Promised!vars

(* A caller that gives up, or finds the record active, is not busy any more. *)
LEMMA LeaveKept ==
    ASSUME Kept, NEW c \in Callers, WriteFails(c) \/ GuardDelete(c)
    PROVE  /\ Patient => OneAtATime'
           /\ UNCHANGED Promised!vars
<1>1. /\ UNCHANGED <<record, nextId, handler, gateway, granted>>
      /\ \A d \in Callers \ {c} : caller'[d] = caller[d]
      /\ Busy(c)
  BY BusyHasPlace DEF WriteFails, GuardDelete, Kept, Granting, Typed, TypeOK
<1>2. \/ caller'[c] = IdleCaller
      \/ /\ caller[c].pc = "guard"
         /\ caller'[c] = [pc |-> "delete", id |-> caller[c].id]
  BY DEF WriteFails, GuardDelete, Kept, Granting, Typed, TypeOK
<1>3. ASSUME Patient PROVE OneAtATime'
  BY <1>1, <1>2, <1>3 DEF OneAtATime, Kept, Busy, InFlight, IdleCaller, Exists
<1>4. QED
  BY <1>1, <1>3 DEF Promised!vars

(* A write opens a connection, agrees to it, withdraws from it or changes    *)
(* what was not promised, and its event is about the record it wrote.       *)
LEMMA WriteKept ==
    ASSUME Kept, NEW c \in Callers, Write(c)
    PROVE  /\ Patient => OneAtATime'
           /\ Promised!Next \/ UNCHANGED Promised!vars
<1> DEFINE new == Changed(caller[c])
<1>1. /\ record \in Records /\ granted \subseteq Ids /\ nextId \in Nat
      /\ caller[c] \in Changes /\ Busy(c)
      /\ Exists \/ nextId \in Ids
  BY WriterTyped, BusyHasPlace DEF Write, Kept, Granting, Typed, TypeOK
<1>2. /\ record' = new /\ new \in Records /\ new.id \in Ids
      /\ new.id = IF Exists THEN record.id ELSE nextId
      /\ nextId' = IF Exists THEN nextId ELSE nextId + 1
      /\ UNCHANGED gateway
      /\ caller' = [caller EXCEPT ![c] = IdleCaller]
      /\ UNCHANGED handler \/ Post(new)
  BY <1>1, ChangedTyped DEF Write, Kept, Granting
<1>3. /\ new.approved \in BOOLEAN /\ record.approved \in BOOLEAN
      /\ granted' = IF new.approved /\ ~record.approved
                    THEN granted \cup {new.id} ELSE granted
  BY <1>1, <1>2, WriteGrants DEF Write, Records, Kept
<1> HIDE DEF new
<1>4. ASSUME Patient PROVE OneAtATime'
  <2>1. /\ \A d \in Callers : caller'[d] = IdleCaller
    BY <1>1, <1>2, <1>4 DEF Kept, OneAtATime, Busy, Granting, Typed, TypeOK
  <2>2. \A e \in Events : ~InFlight(e)
    BY <1>1, <1>4 DEF Kept, OneAtATime
  <2>3. ASSUME NEW e \in Events, InFlight(e)'
        PROVE  record'.id # 0 /\ handler'[e].id = record'.id
    <3>1. Post(new)
      BY <1>2, <2>2, <2>3 DEF InFlight
    <3>2. PICK f \in Events :
            handler' = [handler EXCEPT ![f] =
               IF ~Reachable THEN HandledEvent
               ELSE [pc |-> "posted", id |-> new.id, approved |-> new.approved,
                     action |-> IF new.active THEN "apply" ELSE "delete",
                     next |-> 1, failed |-> FALSE]]
      BY <3>1 DEF Post
    <3>3. e = f /\ Reachable
      BY <2>2, <2>3, <3>2 DEF InFlight, Kept, Granting, Typed, TypeOK
    <3>4. handler'[e].id = new.id
      BY <3>2, <3>3 DEF Kept, Granting, Typed, TypeOK
    <3>5. QED
      BY <1>2, <3>4 DEF Ids
  <2>4. \A id \in Ids : id # record'.id => gateway'[id] = {}
    BY <1>2, <1>4 DEF Kept, OneAtATime, Exists, Ids
  <2>5. QED
    BY <2>1, <2>3, <2>4 DEF OneAtATime, Busy, IdleCaller, Exists
<1>5. CASE Exists
  <2>1. record.id \in Ids /\ record.id # 0 /\ record'.id = record.id
    BY <1>1, <1>2, <1>5 DEF Exists, Records, Ids
  <2>2. CASE new.approved /\ ~record.approved
    <3>1. Promised!Agree
      BY <1>2, <1>3, <1>5, <2>1, <2>2 DEF Promised!Agree
    <3>2. QED
      BY <1>4, <3>1 DEF Promised!Next
  <2>3. CASE ~new.approved /\ record.approved
    <3>1. Promised!Withdraw
      BY <1>2, <1>3, <1>5, <2>1, <2>3 DEF Promised!Withdraw
    <3>2. QED
      BY <1>4, <3>1 DEF Promised!Next
  <2>4. CASE new.approved = record.approved
    <3>1. UNCHANGED Promised!vars
      BY <1>2, <1>3, <1>5, <2>1, <2>4 DEF Promised!vars
    <3>2. QED
      BY <1>4, <3>1
  <2>5. QED
    BY <1>3, <2>2, <2>3, <2>4
<1>6. CASE ~Exists
  <2>1. ~record.approved /\ record.id = 0
    BY <1>1, <1>6 DEF Kept, Granting, RecordIsGranted, Exists, Ids
  <2>2. /\ nextId \in Ids \ (1..(nextId - 1)) /\ record'.id = nextId
        /\ 1..(nextId' - 1) = (1..(nextId - 1)) \cup {nextId}
    BY <1>1, <1>2, <1>6 DEF Ids
  <2>3. /\ record'.approved \in BOOLEAN
        /\ granted' = IF record'.approved THEN granted \cup {nextId} ELSE granted
    BY <1>2, <1>3, <1>6, <2>1
  <2>4. Promised!Open
    BY <1>2, <2>1, <2>2, <2>3 DEF Promised!Open
  <2>5. QED
    BY <1>4, <2>4 DEF Promised!Next
<1>7. QED
  BY <1>5, <1>6

(* A delete closes the connection; a patient caller's, with nothing routed.  *)
LEMMA DeleteKept ==
    ASSUME Kept, NEW c \in Callers, DeleteRow(c)
    PROVE  /\ Patient => OneAtATime'
           /\ Promised!Next \/ UNCHANGED Promised!vars
<1>1. /\ UNCHANGED <<nextId, handler, gateway, granted>>
      /\ caller'[c] = IdleCaller
      /\ \A d \in Callers \ {c} : caller'[d] = caller[d]
      /\ Busy(c) /\ caller[c].pc = "delete" /\ caller[c].id \in Ids
  BY BusyHasPlace DEF DeleteRow, Kept, Granting, Typed, TypeOK, IdleCaller, Changes, Deletions
<1>2. \/ UNCHANGED record
      \/ record' = NoRecord /\ record.id = caller[c].id
  BY DEF DeleteRow
<1>3. ASSUME Patient PROVE OneAtATime' /\ gateway[caller[c].id] = {}
  <2>1. gateway[caller[c].id] = {} /\ \A e \in Events : ~InFlight(e)
    BY <1>1, <1>3 DEF Kept, OneAtATime
  <2>2. \A id \in Ids : id # record'.id => gateway'[id] = {}
    BY <1>1, <1>2, <1>3, <2>1 DEF Kept, OneAtATime
  <2>3. QED
    BY <1>1, <1>3, <2>1, <2>2 DEF Kept, OneAtATime, Busy, InFlight, IdleCaller
<1>4. CASE UNCHANGED record
  BY <1>1, <1>3, <1>4 DEF Promised!vars
<1>5. CASE record' = NoRecord /\ record.id = caller[c].id
  <2>1. Promised!Close
    BY <1>1, <1>3, <1>5 DEF Promised!Close, NoRecord, Ids
  <2>2. QED
    BY <1>3, <2>1 DEF Promised!Next
<1>6. QED
  BY <1>2, <1>4, <1>5

-----------------------------------------------------------------------------
(* A step of a handler changes at most one part of one record's              *)
(* configuration: an apply that passed the policy adds it, a delete takes it *)
(* away.                                                                    *)
LEMMA HandlerKept ==
    ASSUME Kept, NEW e \in Events, HandlerStep(e)
    PROVE  /\ Patient => OneAtATime'
           /\ Promised!Next \/ UNCHANGED Promised!vars
<1>1. Typed /\ Typed' /\ TypeOK /\ TypeOK'
  BY HandlerTyped DEF Kept, Granting, Typed
<1>2. /\ UNCHANGED <<caller, granted>>
      /\ record'.id = record.id /\ record'.approved = record.approved
      /\ \A f \in Events :
            handler'[f].pc \in Places =>
                handler[f].pc \in Places /\ handler'[f].id = handler[f].id
  BY <1>1, HandlerKeeps
<1>3. /\ nextId' = nextId
      /\ \/ UNCHANGED gateway
         \/ /\ handler[e].pc = "dispatch"
            /\ gateway' = Routed(e, ResourceSets[handler[e].next])
  BY DEF HandlerStep, Start, StartFails, Build, BuildFails, Dispatch, DispatchFails,
         LogActivity, LogActivityFails, Report, HandleException, StatusWriteFails, At
<1>4. \A f \in Events : InFlight(f)' => InFlight(f) /\ handler'[f].id = handler[f].id
  BY <1>1, <1>2, InFlightHasPlace DEF InFlight, TypeOK, UnusedEvent, HandledEvent, Places, Handlings
<1>5. CASE UNCHANGED gateway
  <2>1. Patient => OneAtATime'
    BY <1>2, <1>4, <1>5 DEF Kept, OneAtATime, Busy, Exists
  <2>2. UNCHANGED Promised!vars
    BY <1>2, <1>3, <1>5 DEF Promised!vars
  <2>3. QED
    BY <2>1, <2>2
<1>6. CASE /\ handler[e].pc = "dispatch"
           /\ gateway' = Routed(e, ResourceSets[handler[e].next])
           /\ gateway' # gateway
  <2> DEFINE id == handler[e].id
             part == ResourceSets[handler[e].next]
  <2>1. handler[e] \in Handlings /\ id \in Ids /\ InFlight(e)
    BY <1>1, <1>6, HandlingTyped, InFlightHasPlace DEF Places, Handlings
  <2>2. part \in Parts
    BY <1>6 DEF Routed
  <2>3. Patient => id = record.id /\ Exists
    BY <2>1 DEF Kept, OneAtATime
  <2>4. \A other \in Ids \ {id} : gateway'[other] = gateway[other]
    BY <1>1, <1>6, <2>1 DEF Routed, TypeOK
  <2>5. Patient => OneAtATime'
    <3>1. ASSUME Patient PROVE \A other \in Ids : other # record'.id => gateway'[other] = {}
      BY <1>2, <2>3, <2>4, <3>1 DEF Kept, OneAtATime
    <3>2. ASSUME Patient, NEW c \in Callers PROVE caller'[c].pc \notin {"guard", "delete"}
      BY <1>1, <1>2, <2>1, <3>2, BusyHasPlace DEF Kept, OneAtATime
    <3>3. QED
      BY <1>2, <1>4, <3>1, <3>2 DEF Kept, OneAtATime, Busy, Exists
  <2>6. CASE handler[e].action = "apply"
    <3>1. RequiresApproval => id \in granted
      BY <1>6, <2>6 DEF Kept, Granting, DispatchersPassed, EventsAreGranted, Places
    <3>2. gateway' = [gateway EXCEPT ![id] = @ \cup {part}]
      BY <1>6, <2>2, <2>6 DEF Routed
    <3> HIDE DEF id, part
    <3>3. Promised!Route(id, part)
      BY <1>2, <1>3, <2>3, <3>1, <3>2 DEF Promised!Route
    <3>4. QED
      BY <2>1, <2>2, <2>5, <3>3 DEF Promised!Next
  <2>7. CASE handler[e].action # "apply"
    <3>1. gateway' = [gateway EXCEPT ![id] = @ \ {part}]
      BY <1>6, <2>2, <2>7 DEF Routed
    <3> HIDE DEF id, part
    <3>2. Promised!Unroute(id, part)
      BY <1>2, <1>3, <3>1 DEF Promised!Unroute
    <3>3. QED
      BY <2>1, <2>2, <2>5, <3>2 DEF Promised!Next
  <2>8. QED
    BY <2>6, <2>7
<1>7. QED
  BY <1>3, <1>5, <1>6

(* A restart forgets what was in flight and changes nothing else.            *)
LEMMA CrashKept ==
    ASSUME Kept, Crash
    PROVE  /\ Patient => OneAtATime'
           /\ UNCHANGED Promised!vars
<1>1. /\ UNCHANGED <<record, nextId, caller, gateway, granted>>
      /\ \A e \in Events : handler'[e] = handler[e] \/ handler'[e] = HandledEvent
  BY DEF Crash
<1>2. QED
  BY <1>1 DEF Kept, OneAtATime, Busy, InFlight, Exists, Promised!vars

(* Every step is one of an agreement, or none.                              *)
LEMMA StepKept == Kept /\ [Next]_vars => Kept' /\ [Promised!Next]_(Promised!vars)
<1>1. SUFFICES ASSUME Kept, [Next]_vars
               PROVE  /\ Patient => OneAtATime'
                      /\ Promised!Next \/ UNCHANGED Promised!vars
  BY StepGranting DEF Kept
<1>2. CASE UNCHANGED vars
  BY <1>1, <1>2 DEF vars, Kept, OneAtATime, Busy, InFlight, Exists, Promised!vars
<1>3. CASE \E c \in Callers : PortalStep(c)
  BY <1>1, <1>3, CheckKept, LeaveKept, WriteKept, DeleteKept DEF PortalStep
<1>4. CASE \E e \in Events : HandlerStep(e)
  BY <1>1, <1>4, HandlerKept
<1>5. CASE Crash
  BY <1>1, <1>5, CrashKept
<1>6. QED
  BY <1>1, <1>2, <1>3, <1>4, <1>5 DEF Next

(* The Portal and the provisioner implement the agreement: an id is used     *)
(* once, approval is the service's organization's, configuration moves part  *)
(* by part and only where it was agreed to and, when callers wait, only for  *)
(* the connection in force, which is closed with nothing left.              *)
THEOREM ImplementsAgreement == Spec => KeepsAgreement
BY InitKept, StepKept, PTL DEF Spec, KeepsAgreement, Promised!Spec

-----------------------------------------------------------------------------
(***************************************************************************)
(* What a delete leaves behind, when nobody waits.                          *)
(***************************************************************************)

(* Nothing is routed for the record id, and no event of it can change that.  *)
Vacant(id) == gateway[id] = {} /\ \A e \in Events : InFlight(e) => handler[e].id # id

(* Every record but the one in force is vacant, and what has been counted     *)
(* for a delete is still so.                                                *)
Vacated ==
    /\ \A id \in Ids : id # record.id => Vacant(id)
    /\ \A c \in Callers : caller[c].pc \in {"guard", "delete"} => gateway[caller[c].id] = {}

(* The event that a write posts is about the record in force.               *)
LEMMA WriteVacates ==
    ASSUME Kept, Vacated, NEW c \in Callers, Write(c)
    PROVE  Vacated'
<1> DEFINE new == Changed(caller[c])
<1>1. /\ record \in Records /\ nextId \in Nat /\ caller[c] \in Changes
      /\ Exists \/ nextId \in Ids
  BY WriterTyped DEF Write, Kept, Granting, Typed, TypeOK
<1>2. /\ record' = new /\ new.id = IF Exists THEN record.id ELSE nextId
      /\ UNCHANGED gateway
      /\ caller' = [caller EXCEPT ![c] = IdleCaller]
      /\ UNCHANGED handler \/ Post(new)
  BY <1>1, ChangedTyped DEF Write, Kept, Granting
<1> HIDE DEF new
<1>3. ASSUME NEW id \in Ids, id # record'.id PROVE Vacant(id)'
  <2>1. Vacant(id)
    BY <1>2, <1>3 DEF Vacated, Exists, Ids
  <2>2. ASSUME NEW e \in Events, InFlight(e)', handler'[e] # handler[e]
        PROVE  handler'[e].id = new.id
    <3>1. PICK f \in Events :
            handler' = [handler EXCEPT ![f] =
               IF ~Reachable THEN HandledEvent
               ELSE [pc |-> "posted", id |-> new.id, approved |-> new.approved,
                     action |-> IF new.active THEN "apply" ELSE "delete",
                     next |-> 1, failed |-> FALSE]]
      BY <1>2, <2>2 DEF Post
    <3>2. e = f /\ Reachable
      BY <2>2, <3>1 DEF InFlight, Kept, Granting, Typed, TypeOK
    <3>3. QED
      BY <3>1, <3>2 DEF Kept, Granting, Typed, TypeOK
  <2>3. QED
    BY <1>2, <1>3, <2>1, <2>2 DEF Vacant, InFlight
<1>4. \A d \in Callers : caller'[d].pc \in {"guard", "delete"} => caller'[d] = caller[d]
  BY <1>2 DEF IdleCaller, Kept, Granting, Typed, TypeOK
<1>5. QED
  BY <1>2, <1>3, <1>4 DEF Vacated

(* The other steps of a caller: a check counts, a delete finds what was       *)
(* counted as it was.                                                       *)
LEMMA PortalVacates ==
    ASSUME Kept, Undisturbed, Vacated, NEW c \in Callers, PortalStep(c)
    PROVE  Vacated'
<1>1. CASE Write(c)
  BY <1>1, WriteVacates
<1>2. CASE ~Write(c)
  <2>1. /\ UNCHANGED <<handler, gateway>>
        /\ \A d \in Callers \ {c} : caller'[d] = caller[d]
    BY <1>2 DEF PortalStep, CheckUpsert, CheckApproval, CheckDelete, WriteFails, GuardDelete,
       DeleteRow, Kept, Granting, Typed, TypeOK
  <2>2. caller'[c].pc \in {"guard", "delete"} => gateway[caller'[c].id] = {}
    <3>1. CASE CheckDelete(c)
      BY <3>1 DEF CheckDelete, NoConfiguration, Kept, Granting, Typed, TypeOK
    <3>2. CASE GuardDelete(c)
      BY <3>2 DEF GuardDelete, Vacated, IdleCaller, Kept, Granting, Typed, TypeOK
    <3>3. CASE CheckUpsert(c) \/ CheckApproval(c)
      <4>1. c \in DOMAIN caller
        BY DEF Kept, Granting, Typed, TypeOK
      <4>2. CASE CheckUpsert(c)
        <5>1. PICK new : new.pc = "write" /\ caller' = [caller EXCEPT ![c] = new]
          BY <4>2 DEF CheckUpsert
        <5>2. QED
          BY <4>1, <5>1
      <4>3. CASE CheckApproval(c)
        <5>1. PICK new : new.pc = "write" /\ caller' = [caller EXCEPT ![c] = new]
          BY <4>3 DEF CheckApproval
        <5>2. QED
          BY <4>1, <5>1
      <4>4. QED
        BY <3>3, <4>2, <4>3
    <3>4. CASE WriteFails(c) \/ DeleteRow(c)
      BY <3>4 DEF WriteFails, DeleteRow, IdleCaller, Kept, Granting, Typed, TypeOK
    <3>5. QED
      BY <1>2, <3>1, <3>2, <3>3, <3>4 DEF PortalStep
  <2>3. ASSUME NEW id \in Ids, id # record'.id PROVE Vacant(id)
    <3>1. CASE UNCHANGED record
      BY <2>3, <3>1 DEF Vacated
    <3>2. CASE DeleteRow(c) /\ id = record.id
      <4>1. record.id = caller[c].id
        BY <2>3, <3>2 DEF DeleteRow
      <4>2. QED
        BY <3>2, <4>1 DEF DeleteRow, Vacated, Undisturbed, Vacant
    <3>3. QED
      BY <1>2, <2>3, <3>1, <3>2 DEF PortalStep, CheckUpsert, CheckApproval, CheckDelete,
         WriteFails, GuardDelete, DeleteRow, Vacated
  <2>4. QED
    BY <2>1, <2>2, <2>3 DEF Vacated, Vacant, InFlight
<1>3. QED
  BY <1>1, <1>2

(* A handler routes, and unroutes, the record in force or one that is being   *)
(* deleted by nobody.                                                       *)
LEMMA HandlerVacates ==
    ASSUME Kept, Undisturbed, Vacated, NEW e \in Events, HandlerStep(e)
    PROVE  Vacated'
<1>1. Typed /\ Typed' /\ TypeOK /\ TypeOK'
  BY HandlerTyped DEF Kept, Granting, Typed
<1>2. /\ UNCHANGED caller
      /\ record'.id = record.id
      /\ \A f \in Events :
            handler'[f].pc \in Places =>
                handler[f].pc \in Places /\ handler'[f].id = handler[f].id
  BY <1>1, HandlerKeeps
<1>3. \/ UNCHANGED gateway
      \/ /\ handler[e].pc = "dispatch"
         /\ gateway' = Routed(e, ResourceSets[handler[e].next])
  BY DEF HandlerStep, Start, StartFails, Build, BuildFails, Dispatch, DispatchFails,
         LogActivity, LogActivityFails, Report, HandleException, StatusWriteFails, At
<1>4. \A f \in Events : InFlight(f)' => InFlight(f) /\ handler'[f].id = handler[f].id
  BY <1>1, <1>2, InFlightHasPlace DEF InFlight, TypeOK, UnusedEvent, HandledEvent, Places, Handlings
<1>5. CASE UNCHANGED gateway
  BY <1>2, <1>4, <1>5 DEF Vacated, Vacant
<1>6. CASE /\ handler[e].pc = "dispatch"
           /\ gateway' = Routed(e, ResourceSets[handler[e].next])
  <2>1. handler[e] \in Handlings /\ handler[e].id \in Ids /\ InFlight(e)
    BY <1>1, <1>6, HandlingTyped, InFlightHasPlace DEF Places, Handlings
  <2>2. \A other \in Ids \ {handler[e].id} : gateway'[other] = gateway[other]
    BY <1>1, <1>6, <2>1 DEF Routed, TypeOK
  <2>3. handler[e].id = record.id
    BY <2>1 DEF Vacated, Vacant
  <2>4. \A c \in Callers : caller[c].pc \in {"guard", "delete"} =>
            caller[c].id \in Ids /\ caller[c].id # handler[e].id
    BY <1>1, <2>1 DEF Undisturbed, TypeOK, IdleCaller, Changes, Deletions
  <2>5. QED
    BY <1>2, <1>4, <2>2, <2>3, <2>4 DEF Vacated, Vacant
<1>7. QED
  BY <1>3, <1>5, <1>6

LEMMA StepVacates == Kept /\ Undisturbed /\ Vacated /\ [Next]_vars => Vacated'
<1>1. SUFFICES ASSUME Kept, Undisturbed, Vacated, [Next]_vars PROVE Vacated'
  OBVIOUS
<1>2. CASE UNCHANGED vars
  BY <1>1, <1>2 DEF vars, Vacated, Vacant, InFlight
<1>3. CASE \E c \in Callers : PortalStep(c)
  BY <1>1, <1>3, PortalVacates
<1>4. CASE \E e \in Events : HandlerStep(e)
  BY <1>1, <1>4, HandlerVacates
<1>5. CASE Crash
  <2>1. /\ UNCHANGED <<record, caller, gateway>>
        /\ \A e \in Events : handler'[e] = handler[e] \/ handler'[e] = HandledEvent
    BY <1>5 DEF Crash
  <2>2. QED
    BY <1>1, <2>1 DEF Vacated, Vacant, InFlight
<1>6. QED
  BY <1>1, <1>2, <1>3, <1>4, <1>5 DEF Next

(* Nobody waits: a record that is gone has left configuration behind only if *)
(* an event of it was in flight between the count of its configuration and   *)
(* the delete of its row, however many callers and events overlap, fail, get  *)
(* lost or are forgotten by a restart.                                      *)
THEOREM DeletedLeavesNothing == Spec => UndisturbedLeavesNothing
<1>1. Init => Vacated
  BY DEF Init, Vacated, Vacant, InFlight, IdleCaller
<1>2. Vacated => NothingLeftBehind
  BY DEF Vacated, Vacant, NothingLeftBehind
<1>3. QED
  BY <1>1, <1>2, InitKept, StepKept, StepVacates, PTL DEF Spec, UndisturbedLeavesNothing

(* When callers wait for the last change to be handled, a record that is     *)
(* gone has left no configuration behind, whatever is lost or restarted.     *)
LEMMA PatientLeavesNothing ==
    ASSUME Patient
    PROVE  Spec => []NothingLeftBehind
<1>1. Kept => NothingLeftBehind
  BY DEF Kept, OneAtATime, NothingLeftBehind
<1>2. QED
  BY <1>1, InitKept, StepKept, PTL DEF Spec

-----------------------------------------------------------------------------
(***************************************************************************)
(* What a status says.                                                     *)
(***************************************************************************)

(* The handling h of the event e, about the record r with these parts routed: *)
(* it is what the record asks for, and has done what it goes on from.        *)
Serving(h, e, r, parts) ==
    /\ h.action = "apply" <=> r.active
    /\ r.by = e => r.phase # "provisioned"
    /\ h.pc \in {"posted", "build"} => h.next = 1
    /\ h.pc = "report" => h.action = "apply"
    /\ h.action = "apply" /\ ~h.failed =>
          /\ h.pc = "dispatch" /\ h.next = 3 => "c" \in parts
          /\ h.pc \in {"log", "report"} => parts = Parts

IsLast(e) == \A later \in Events : later > e => handler[later] = UnusedEvent

(* Events are used in order; the one in flight is the last and serves the    *)
(* record as it is; a status is that of an event, and holds for the last.     *)
Reporting ==
    /\ \A e \in Events : handler[e] = UnusedEvent => IsLast(e)
    /\ \A e \in Events : InFlight(e) =>
          IsLast(e) /\ Serving(handler[e], e, record, gateway[record.id])
    /\ record.phase = "provisioned" => record.by \in Events
    /\ record.by \in Events => handler[record.by] # UnusedEvent
    /\ /\ record.phase = "provisioned" /\ record.active
       /\ IsLast(record.by) /\ ~InFlight(record.by)
       => gateway[record.id] = Parts

(* At first no event is used.                                                *)
LEMMA InitReporting == Init => Reporting
BY ConnectionAssumption DEF Init, Reporting, IsLast, InFlight, NoRecord, UnusedEvent, Events

(* What is not told apart by records, events and configuration.              *)
LEMMA FrameReporting ==
    ASSUME Reporting, UNCHANGED <<record, handler, gateway>>
    PROVE  Reporting'
BY DEF Reporting, IsLast, InFlight

(* A write finds nothing in flight; its event is the next, about the record  *)
(* as written, whose status is then no longer of the last event.             *)
LEMMA WriteReporting ==
    ASSUME Kept, OneAtATime, Reporting, NEW c \in Callers, Write(c)
    PROVE  Reporting'
<1> DEFINE new == Changed(caller[c])
<1>1. /\ record \in Records /\ TypeOK /\ caller[c] \in Changes /\ Busy(c)
      /\ Exists \/ nextId \in Ids
  BY WriterTyped, BusyHasPlace DEF Write, Kept, Granting, Typed, TypeOK
<1>2. /\ record' = new /\ new \in Records /\ UNCHANGED gateway
      /\ new.id \in Ids
  BY <1>1, ChangedTyped DEF Write, Kept, Granting
<1>3. \A e \in Events : ~InFlight(e)
  BY <1>1 DEF OneAtATime
<1>4. /\ new.by = record.by \/ new.by = 0
      /\ new.phase = "provisioned" => record.phase = "provisioned" /\ new.by = record.by
      /\ new.active \in BOOLEAN
  <2>1. CASE Exists
    <3>1. new.by = record.by /\ new.phase = record.phase
      BY <1>1, <2>1 DEF Changed, Records
    <3>2. QED
      BY <1>2, <3>1 DEF Records
  <2>2. CASE ~Exists
    <3>1. new.by = 0 /\ new.phase = "none"
      BY <2>2 DEF Changed, NoRecord
    <3>2. QED
      BY <1>2, <3>1 DEF Records
  <2>3. QED
    BY <2>1, <2>2
<1> HIDE DEF new
<1>5. CASE record' = record /\ UNCHANGED handler
  BY <1>2, <1>5, FrameReporting
<1>6. CASE Post(new)
  <2>1. PICK e \in Events :
          /\ handler[e] = UnusedEvent
          /\ \A earlier \in 1..(e - 1) : handler[earlier] # UnusedEvent
          /\ handler' = [handler EXCEPT ![e] =
               IF ~Reachable THEN HandledEvent
               ELSE [pc |-> "posted", id |-> new.id, approved |-> new.approved,
                     action |-> IF new.active THEN "apply" ELSE "delete",
                     next |-> 1, failed |-> FALSE]]
    BY <1>6 DEF Post
  <2>2. /\ handler'[e] # UnusedEvent
        /\ \A f \in Events \ {e} : handler'[f] = handler[f]
    BY <1>1, <2>1 DEF TypeOK, UnusedEvent, HandledEvent
  <2>3. IsLast(e) /\ IsLast(e)'
    BY <2>1, <2>2 DEF Reporting, IsLast, Events
  <2>4. \A f \in Events : handler'[f] = UnusedEvent => IsLast(f)'
    <3> SUFFICES ASSUME NEW f \in Events, handler'[f] = UnusedEvent PROVE IsLast(f)'
      OBVIOUS
    <3>1. f # e /\ handler[f] = UnusedEvent
      BY <2>2
    <3>2. f > e
      BY <2>1, <3>1 DEF Events
    <3>3. QED
      BY <2>3, <3>2 DEF IsLast, Events
  <2>by. PICK by : by = new.by
    OBVIOUS
  <2>5. by \in Events => by < e /\ handler[by] # UnusedEvent
    <3>1. by \in Events => by = record.by
      BY <1>4, <2>by DEF Events
    <3>2. by \in Events => handler[by] # UnusedEvent
      BY <3>1 DEF Reporting
    <3>3. QED
      BY <2>1, <2>3, <3>2 DEF IsLast, Events
  <2>6. ASSUME NEW f \in Events, InFlight(f)'
        PROVE  IsLast(f)' /\ Serving(handler'[f], f, record', gateway'[record'.id])
    <3>1. f = e /\ Reachable
      BY <1>1, <1>3, <2>1, <2>2, <2>6 DEF InFlight, TypeOK
    <3>2. handler'[f] = [pc |-> "posted", id |-> new.id, approved |-> new.approved,
                         action |-> IF new.active THEN "apply" ELSE "delete",
                         next |-> 1, failed |-> FALSE]
      BY <1>1, <2>1, <3>1 DEF TypeOK
    <3>3. PICK h : h = handler'[f]
      OBVIOUS
    <3>4. h.pc = "posted" /\ h.next = 1 /\ (h.action = "apply" <=> new.active)
      BY <1>4, <3>2, <3>3
    <3>5. by # f
      BY <2>5, <3>1 DEF Events
    <3>6. QED
      BY <1>2, <2>by, <2>3, <3>1, <3>3, <3>4, <3>5 DEF Serving
  <2>7. new.phase = "provisioned" => by \in Events
    BY <1>4, <2>by DEF Reporting
  <2>8. by \in Events => handler'[by] # UnusedEvent /\ ~IsLast(by)'
    BY <2>2, <2>5 DEF IsLast, Events
  <2>9. QED
    BY <1>2, <2>by, <2>4, <2>6, <2>7, <2>8 DEF Reporting
<1>7. QED
  BY <1>5, <1>6 DEF Write, new

(* What a caller does finds nothing in flight, and its write is a step of its *)
(* own; a deleted record has no status.                                     *)
LEMMA PortalReporting ==
    ASSUME Kept, OneAtATime, Reporting, NEW c \in Callers, PortalStep(c)
    PROVE  Reporting'
<1>1. CASE UNCHANGED <<record, handler, gateway>>
  BY <1>1, FrameReporting
<1>2. CASE Write(c)
  BY <1>2, WriteReporting
<1>3. CASE DeleteRow(c) /\ record' # record
  <2>1. record' = NoRecord /\ UNCHANGED handler
    BY <1>3 DEF DeleteRow
  <2>2. \A e \in Events : ~InFlight(e)
    BY <1>3, BusyHasPlace DEF DeleteRow, OneAtATime, Kept, Granting, Typed
  <2>3. record'.phase = "none" /\ record'.by = 0
    BY <2>1 DEF NoRecord
  <2>4. QED
    BY <2>1, <2>2, <2>3 DEF Reporting, IsLast, InFlight, Events
<1>4. QED
  BY <1>1, <1>2, <1>3 DEF PortalStep, CheckUpsert, CheckApproval, CheckDelete, WriteFails,
                          GuardDelete, DeleteRow

(* A handling that ends leaves a status that is not of the last event, or    *)
(* not "provisioned", or true.                                              *)
LEMMA EndReporting ==
    ASSUME Kept, OneAtATime, Reporting, NEW e \in Events, InFlight(e), End(e),
           UNCHANGED gateway, record'.id = record.id, record'.active = record.active,
           \/ UNCHANGED record
           \/ /\ record'.by = e /\ record'.phase # "provisioned"
           \/ /\ record'.by = e /\ handler[e].pc = "report" /\ ~handler[e].failed
    PROVE  Reporting'
<1>1. /\ handler'[e] = HandledEvent /\ HandledEvent # UnusedEvent
      /\ \A f \in Events \ {e} : handler'[f] = handler[f]
  BY DEF End, Kept, Granting, Typed, TypeOK, UnusedEvent, HandledEvent
<1>2. handler[e] # UnusedEvent /\ ~InFlight(e)' /\ IsLast(e)
      /\ Serving(handler[e], e, record, gateway[record.id])
  BY <1>1 DEF InFlight, Reporting
<1>3. \A f \in Events : IsLast(f)' => f >= e
  BY <1>1, <1>2 DEF IsLast, Events
<1>4. \A f \in Events : handler'[f] = UnusedEvent => IsLast(f)'
  BY <1>1, <1>2 DEF Reporting, IsLast
<1>5. \A f \in Events : ~InFlight(f)'
  <2> SUFFICES ASSUME NEW f \in Events, InFlight(f)' PROVE FALSE
    OBVIOUS
  <2>1. f # e /\ InFlight(f) /\ handler[f] # UnusedEvent
    BY <1>1, <1>2 DEF InFlight
  <2>2. IsLast(f) /\ IsLast(e)
    BY <1>2, <2>1 DEF Reporting
  <2>3. QED
    BY <1>2, <2>1, <2>2 DEF IsLast, Events
<1>6. /\ record'.phase = "provisioned" => record'.by \in Events
      /\ record'.by \in Events => handler'[record'.by] # UnusedEvent
  BY <1>1 DEF Reporting
<1>7. ASSUME record'.phase = "provisioned", record'.active,
             \A later \in Events : later > record'.by => handler'[later] = UnusedEvent
      PROVE  gateway[record.id] = Parts
  <2>1. PICK by \in Events : by = record'.by /\ handler'[by] # UnusedEvent
    BY <1>6, <1>7
  <2>2. by = e
    <3>1. by # e => handler[by] # UnusedEvent
      BY <1>1, <2>1
    <3>2. IsLast(by)'
      BY <1>7, <2>1 DEF IsLast
    <3>3. QED
      BY <1>2, <1>3, <3>1, <3>2 DEF IsLast, Events
  <2>3. handler[e].pc = "report" /\ ~handler[e].failed
    BY <1>2, <1>7, <2>1, <2>2 DEF Serving
  <2>4. QED
    BY <1>2, <2>3 DEF Serving
<1>8. QED
  BY <1>4, <1>5, <1>6, <1>7 DEF Reporting, IsLast

(* A handling that goes on keeps the status from being that of the last      *)
(* event and "provisioned".                                                 *)
LEMMA MoveReporting ==
    ASSUME Kept, OneAtATime, Reporting, NEW e \in Events, InFlight(e),
           NEW h \in Handlings, handler' = [handler EXCEPT ![e] = h],
           record'.id = record.id, record'.active = record.active,
           record' = record \/ (record'.by = e /\ record'.phase = "pending"),
           Serving(h, e, record', gateway'[record.id])
    PROVE  Reporting'
<1>1. /\ handler'[e] = h /\ h # UnusedEvent /\ h # HandledEvent
      /\ \A f \in Events \ {e} : handler'[f] = handler[f]
  BY DEF Kept, Granting, Typed, TypeOK, UnusedEvent, HandledEvent, Handlings
<1>2. handler[e] # UnusedEvent /\ InFlight(e)' /\ IsLast(e)
  BY <1>1 DEF InFlight, Reporting
<1>3. /\ IsLast(e)'
      /\ \A f \in Events : IsLast(f)' => f >= e
  BY <1>1, <1>2 DEF IsLast, Events
<1>4. \A f \in Events : handler'[f] = UnusedEvent => IsLast(f)'
  BY <1>1, <1>2 DEF Reporting, IsLast
<1>5. \A f \in Events : InFlight(f)' => f = e
  <2> SUFFICES ASSUME NEW f \in Events, f # e, InFlight(f)' PROVE FALSE
    OBVIOUS
  <2>1. InFlight(f) /\ handler[f] # UnusedEvent
    BY <1>1, <1>2 DEF InFlight
  <2>2. IsLast(f) /\ IsLast(e)
    BY <1>2, <2>1 DEF Reporting
  <2>3. QED
    BY <1>2, <2>1, <2>2 DEF IsLast, Events
<1>6. /\ record'.phase = "provisioned" => record'.by \in Events
      /\ record'.by \in Events => handler'[record'.by] # UnusedEvent
  BY <1>1 DEF Reporting
<1>7. ASSUME record'.by \in Events,
             \A later \in Events : later > record'.by => handler'[later] = UnusedEvent
      PROVE  record'.by = e
  <2>1. PICK by \in Events : by = record'.by
    BY <1>7
  <2>2. by # e => handler[by] # UnusedEvent
    BY <1>1, <1>6, <2>1
  <2>3. IsLast(by)'
    BY <1>7, <2>1 DEF IsLast
  <2>4. QED
    BY <1>2, <1>3, <2>1, <2>2, <2>3 DEF IsLast, Events
<1>8. QED
  BY <1>1, <1>2, <1>3, <1>4, <1>5, <1>6, <1>7 DEF Reporting, IsLast

(* A restart ends what was in flight; a status that is of the last event and *)
(* "provisioned" was written when it ended.                                 *)
LEMMA CrashReporting ==
    ASSUME Kept, Reporting, Crash
    PROVE  Reporting'
<1>1. /\ UNCHANGED <<record, gateway>>
      /\ \A e \in Events : /\ handler'[e] = UnusedEvent <=> handler[e] = UnusedEvent
                          /\ ~InFlight(e)'
  BY DEF Crash, InFlight, UnusedEvent, HandledEvent
<1>2. \A f : IsLast(f)' <=> IsLast(f)
  BY <1>1 DEF IsLast
<1>3. record.by \in Events /\ InFlight(record.by) => record.phase # "provisioned"
  BY DEF Reporting, Serving
<1>4. QED
  BY <1>1, <1>2, <1>3 DEF Reporting

(* The steps of a handler.                                                  *)
LEMMA HandlerReporting ==
    ASSUME Kept, OneAtATime, Reporting, NEW e \in Events, HandlerStep(e)
    PROVE  Reporting'
<1>h. PICK h, parts : h = handler[e] /\ parts = gateway[record.id]
  OBVIOUS
<1>1. /\ handler[e].pc \in Places /\ InFlight(e) /\ Typed /\ TypeOK
      /\ h \in Handlings /\ record \in Records /\ h.id = record.id /\ record.id \in Ids
      /\ Serving(h, e, record, parts) /\ parts \subseteq Parts
  <2>1. handler[e].pc \in Places /\ TypeOK /\ Typed
    BY DEF HandlerStep, Start, StartFails, Build, BuildFails, Dispatch, DispatchFails, LogActivity,
           LogActivityFails, Report, HandleException, StatusWriteFails, At, Places, Kept, Granting,
           Typed
  <2>2. InFlight(e) /\ h \in Handlings
    BY <1>h, <2>1, InFlightHasPlace, HandlingTyped
  <2>3. Serving(h, e, record, parts)
    BY <1>h, <2>2 DEF Reporting
  <2>4. Exists /\ h.id = record.id
    BY <1>h, <2>2 DEF OneAtATime
  <2>5. QED
    BY <1>h, <2>1, <2>2, <2>3, <2>4 DEF TypeOK, Handlings
<1>2. ASSUME End(e), UNCHANGED <<record, gateway>> PROVE Reporting'
  BY <1>1, <1>2, EndReporting
<1>3. ASSUME NEW place \in {"build", "dispatch", "report", "exception"}, Goto(e, place), UNCHANGED gateway,
             place = "build" => h.pc = "posted",
             place = "dispatch" => h.pc = "build",
             place = "report" => h.pc = "log" /\ h.action = "apply",
             \/ UNCHANGED record
             \/ place = "build" /\ h.action = "apply" /\ WriteStatus(e, "pending")
      PROVE  Reporting'
  <2> DEFINE new == [h EXCEPT !.pc = place]
  <2>1. handler' = [handler EXCEPT ![e] = new]
    BY <1>3, <1>h DEF Goto
  <2>2. /\ new \in Handlings /\ new.pc = place /\ new.next = h.next
        /\ new.action = h.action /\ new.failed = h.failed
    BY <1>1 DEF Handlings
  <2> HIDE DEF new
  <2>3. /\ record'.id = record.id /\ record'.active = record.active
        /\ record' = record \/ (record'.by = e /\ record'.phase = "pending")
    BY <1>1, <1>3 DEF WriteStatus, Records
  <2>4. Serving(new, e, record', gateway'[record.id])
    BY <1>1, <1>3, <1>h, <2>2, <2>3 DEF Serving
  <2>5. QED
    BY <1>1, <2>1, <2>2, <2>3, <2>4, MoveReporting
<1>4. CASE Start(e)
  BY <1>1, <1>2, <1>3, <1>4, <1>h DEF Start, At, OneAtATime
<1>5. CASE StartFails(e) \/ StatusWriteFails(e)
  BY <1>2, <1>5 DEF StartFails, StatusWriteFails
<1>6. CASE Build(e)
  BY <1>3, <1>6, <1>h DEF Build, At
<1>7. CASE BuildFails(e) \/ LogActivityFails(e)
  BY <1>2, <1>3, <1>7 DEF BuildFails, LogActivityFails, Raise
<1>8. CASE LogActivity(e)
  BY <1>2, <1>3, <1>8, <1>h DEF LogActivity, At
<1>9. CASE Report(e) \/ HandleException(e)
  <2>1. /\ End(e) /\ UNCHANGED gateway
        /\ \/ WriteStatus(e, "failed")
           \/ WriteStatus(e, "provisioned") /\ handler[e].pc = "report" /\ ~handler[e].failed
    BY <1>9 DEF Report, HandleException, At
  <2>2. PICK phase \in {"failed", "provisioned"} :
          /\ WriteStatus(e, phase)
          /\ phase = "provisioned" => handler[e].pc = "report" /\ ~handler[e].failed
    BY <2>1
  <2>3. record' = [record EXCEPT !.phase = phase, !.by = e]
    BY <1>1, <2>2 DEF WriteStatus, Exists, Ids
  <2>4. /\ record'.id = record.id /\ record'.active = record.active
        /\ record'.by = e /\ record'.phase = phase
    BY <1>1, <2>3 DEF Records
  <2>5. \/ UNCHANGED record
        \/ /\ record'.by = e /\ record'.phase # "provisioned"
        \/ /\ record'.by = e /\ handler[e].pc = "report" /\ ~handler[e].failed
    BY <2>2, <2>4
  <2>6. End(e) /\ UNCHANGED gateway
    BY <2>1
  <2>7. InFlight(e)
    BY <1>1
  <2>8. QED
    BY <2>4, <2>5, <2>6, <2>7, EndReporting
<1>10. CASE Dispatch(e) \/ DispatchFails(e)
  <2>1. PICK failed \in BOOLEAN :
          /\ AfterDispatch(e, failed) /\ UNCHANGED record
          /\ gateway' = Routed(e, ResourceSets[handler[e].next]) \/ failed
    BY <1>10 DEF Dispatch, DispatchFails
  <2>2. h.pc = "dispatch" /\ h.next \in 1..3
    BY <1>1, <1>10, <1>h DEF Dispatch, DispatchFails, At, Typed, HasNext, Unfinished
  <2> DEFINE place == IF h.next = 3 THEN "log" ELSE "dispatch"
             either == h.failed \/ failed
             new == [h EXCEPT !.next = h.next + 1, !.failed = either, !.pc = place]
  <2>3. handler' = [handler EXCEPT ![e] = new]
    BY <1>h, <2>1, ThreeResourceSets DEF AfterDispatch
  <2>4. new \in Handlings
    <3>1. either \in BOOLEAN /\ place \in {"log", "dispatch"}
      OBVIOUS
    <3>2. h.next + 1 \in 1..(Len(ResourceSets) + 1)
      BY <2>2, ThreeResourceSets
    <3> HIDE DEF either, place
    <3>3. QED
      BY <1>1, <3>1, <3>2 DEF Handlings
  <2>5. /\ new.pc = place /\ new.next = h.next + 1 /\ new.action = h.action
        /\ new.failed <=> either
    BY <1>1 DEF Handlings
  <2>6. ASSUME h.action = "apply", ~either, h.next \in {2, 3}
        PROVE  gateway'[record.id] = parts \cup {IF h.next = 2 THEN "c" ELSE "p"}
    <3> DEFINE part == IF h.next = 2 THEN "c" ELSE "p"
    <3>1. ResourceSets[h.next] = part /\ part \in Parts
      BY <2>6 DEF ResourceSets, Parts
    <3> HIDE DEF part
    <3>2. gateway' = [gateway EXCEPT ![h.id] = @ \cup {part}]
      BY <1>h, <2>1, <2>6, <3>1 DEF Routed
    <3>3. QED
      BY <1>1, <1>h, <3>2 DEF TypeOK, part
  <2>7. Serving(new, e, record, gateway'[record.id])
    <3>1. (h.action = "apply" <=> record.active) /\ (record.by = e => record.phase # "provisioned")
      BY <1>1 DEF Serving
    <3>2. new.pc \in {"log", "dispatch"} /\ (new.pc = "log" => h.next = 3)
      BY <2>5
    <3> HIDE DEF new, place
    <3>3. new.action = "apply" /\ ~new.failed /\ new.pc = "dispatch" /\ new.next = 3
             => "c" \in gateway'[record.id]
      BY <2>2, <2>5, <2>6
    <3>4. ASSUME new.action = "apply", ~new.failed, new.pc = "log"
          PROVE  gateway'[record.id] = Parts
      <4>1. h.action = "apply" /\ ~either /\ h.next = 3
        BY <2>5, <3>2, <3>4
      <4>2. "c" \in parts
        BY <1>1, <2>2, <4>1 DEF Serving
      <4>3. gateway'[record.id] = parts \cup {"p"}
        BY <2>6, <4>1
      <4>4. QED
        BY <1>1, <4>2, <4>3 DEF Parts
    <3>5. PICK x, r, q : x = new /\ r = record /\ q = gateway'[record.id]
      OBVIOUS
    <3>6. /\ x.action = "apply" <=> r.active
          /\ r.by = e => r.phase # "provisioned"
          /\ x.pc \in {"log", "dispatch"}
      BY <2>5, <3>1, <3>2, <3>5
    <3>7. /\ x.action = "apply" /\ ~x.failed /\ x.pc = "dispatch" /\ x.next = 3 => "c" \in q
          /\ x.action = "apply" /\ ~x.failed /\ x.pc = "log" => q = Parts
      BY <3>3, <3>4, <3>5
    <3>8. Serving(x, e, r, q)
      BY <3>6, <3>7 DEF Serving
    <3>9. QED
      BY <3>5, <3>8
  <2> HIDE DEF new
  <2>8. QED
    BY <1>1, <2>1, <2>3, <2>4, <2>7, MoveReporting
<1>11. QED
  BY <1>4, <1>5, <1>6, <1>7, <1>8, <1>9, <1>10 DEF HandlerStep

(* When callers wait, an active connection whose status is "provisioned" by   *)
(* the last event is routed on both gateways, whatever was lost, failed or    *)
(* restarted before.                                                        *)
THEOREM ProvisionedRouted ==
    ASSUME Patient
    PROVE  Spec => []ProvisionedIsRouted
<1>1. Init => Kept /\ Reporting
  BY InitKept, InitReporting
<1>2. Kept /\ Reporting /\ [Next]_vars => Kept' /\ Reporting'
  <2> SUFFICES ASSUME Kept, Reporting, [Next]_vars PROVE Kept' /\ Reporting'
    OBVIOUS
  <2>1. Kept' /\ OneAtATime
    BY StepKept DEF Kept
  <2>2. CASE UNCHANGED vars
    BY <2>1, <2>2, FrameReporting DEF vars
  <2>3. CASE \E c \in Callers : PortalStep(c)
    BY <2>1, <2>3, PortalReporting
  <2>4. CASE \E e \in Events : HandlerStep(e)
    BY <2>1, <2>4, HandlerReporting
  <2>5. CASE Crash
    BY <2>1, <2>5, CrashReporting
  <2>6. QED
    BY <2>1, <2>2, <2>3, <2>4, <2>5 DEF Next
<1>3. Reporting => ProvisionedIsRouted
  BY DEF Reporting, ProvisionedIsRouted, Quiet, IsLast
<1>4. QED
  BY <1>1, <1>2, <1>3, PTL DEF Spec
=============================================================================
