------------------------- MODULE IntegrationAccess -------------------------
(***************************************************************************)
(* Access requests of one integration in one environment under policy R1.  *)
(* A request names several services; it is validated against the catalog,  *)
(* planned on one listing of the connections, and written one connection   *)
(* after the other.  Every write posts an event, and the handler of every  *)
(* event computes the grant of the whole integration anew and replaces     *)
(* with it what the gateway and Common SSO hold.                           *)
(*                                                                         *)
(* Only access requests write requester details here.  An approval is      *)
(* decided on the details it is written to.                                *)
(***************************************************************************)
EXTENDS Naturals, FiniteSets, Sequences, SequencesExt

CONSTANTS
    Services,          \* the services the integration may ask for
    Scopes,            \* the scopes their specifications may declare
    Submitters,        \* access requests that may be served at one time
    MaxEvents,         \* bound on the number of events in flight
    MaxAsked,          \* bound on the number of services in one request
    MaxVersion,        \* bound on the number of versions in the catalog
    Evolving,          \* services whose specification may be published again
    Legacy,            \* services with a connection from before versions were kept
    Patient,           \* TRUE: a caller waits until the last change is handled
    Reliable,          \* TRUE: no remote call fails and no event is lost
    WithdrawsInactive  \* TRUE: an approval is withdrawn together with the activation

ASSUME AccessAssumption ==
    /\ IsFiniteSet(Services)
    /\ MaxVersion \in Nat \ {0} /\ MaxAsked \in Nat /\ MaxEvents \in Nat
    /\ Legacy \subseteq Services /\ Evolving \subseteq Services
    /\ Patient \in BOOLEAN
    /\ Reliable \in BOOLEAN /\ WithdrawsInactive \in BOOLEAN

VARIABLES
    catalog,     \* catalog[s]: version and scopes of the specification
    record,      \* record[s]: the connection to service s
    submission,  \* submission[h]: the progress of an access request
    handler,     \* handler[e]: the handling of an event
    view,        \* view[t]: the grant that target t holds
    reviewed     \* history: the details the provider has approved

vars == <<catalog, record, submission, handler, view, reviewed>>

(* The two batches that publish a grant, in the order they are dispatched. *)
Targets == {"gateway", "partner"}

Handlers == 1..MaxEvents

Versions == 1..MaxVersion
Unversioned == 0

Keep == {}
Field == {Keep, {TRUE}, {FALSE}}

NoRecord == [exists |-> FALSE, approved |-> FALSE, active |-> FALSE,
             scopes |-> {}, version |-> Unversioned]

IdleSubmission == [pc |-> "idle"]
IdleHandler == [pc |-> "idle"]

Quiet ==
    /\ \A h \in Submitters : submission[h] = IdleSubmission
    /\ \A e \in Handlers : handler[e] = IdleHandler

MayCall == Patient => Quiet

(* What the connection to s asks for. *)
Entry(s, r) == [service |-> s, scopes |-> r.scopes, version |-> r.version]

(* An approval of a connection without a version covers any version of it. *)
Covers(old, new) ==
    /\ old.service = new.service
    /\ old.scopes = new.scopes
    /\ old.version \in {Unversioned, new.version}

-----------------------------------------------------------------------------
(* Access requests                                                         *)

(* Fault: the version is the one the request gives, if it gives one. *)
ValidatedAsGiven(s) ==
    [scopes : SUBSET catalog[s].scopes, version : {Unversioned, catalog[s].version}]

(* Scopes that are declared, at the version the catalog has now.            *)
Validated(s) == [scopes : SUBSET catalog[s].scopes, version : {catalog[s].version}]

Validate(h) ==
    /\ submission[h] = IdleSubmission /\ MayCall
    /\ \E some \in SUBSET Services :
          /\ Cardinality(some) \in 1..MaxAsked
          /\ \E asked \in [some -> UNION {Validated(s) : s \in some}] :
                /\ \A s \in some : asked[s] \in Validated(s)
                /\ submission' = [submission EXCEPT ![h] =
                                      [pc |-> "validated", asked |-> asked]]
    /\ UNCHANGED <<catalog, record, handler, view, reviewed>>

(* Fault: a change of version goes unnoticed. *)
DiffersInScopes(r, asked) == r.exists /\ r.scopes # asked.scopes

(* planConnectionChange: what a request makes of a record it has read.      *)
Differs(r, asked) ==
    /\ r.exists
    /\ r.scopes # asked.scopes \/ r.version \notin {Unversioned, asked.version}

Reactivates(r, asked) ==
    r.exists /\ ~Differs(r, asked) /\ r.approved /\ ~r.active

PinsVersion(r, asked) ==
    /\ r.exists /\ ~Differs(r, asked) /\ ~Reactivates(r, asked)
    /\ r.version = Unversioned

Stands(r, asked) ==
    /\ r.exists /\ ~Differs(r, asked) /\ ~Reactivates(r, asked)
    /\ ~PinsVersion(r, asked)

(* The approval and the activation that a change submits; pinning a version *)
(* submits those that were read.                                            *)
Change(s, r, asked) ==
    CASE ~r.exists              -> [service |-> s, creates |-> TRUE,
                                    approved |-> Keep, active |-> Keep]
      [] Differs(r, asked)      -> [service |-> s, creates |-> FALSE,
                                    approved |-> {FALSE}, active |-> {FALSE}]
      [] Reactivates(r, asked)  -> [service |-> s, creates |-> FALSE,
                                    approved |-> {TRUE}, active |-> {TRUE}]
      [] OTHER                  -> [service |-> s, creates |-> FALSE,
                                    approved |-> {r.approved}, active |-> {r.active}]

(* The changes in a stable order, planned on one listing of the connections. *)
Planned(asked) ==
    LET order == SetToSeq({s \in DOMAIN asked : ~Stands(record[s], asked[s])})
    IN  [i \in DOMAIN order |-> Change(order[i], record[order[i]], asked[order[i]])]

Plan(h) ==
    /\ submission[h].pc = "validated"
    /\ submission' = [submission EXCEPT ![h] =
           [pc |-> "writing", asked |-> @.asked, todo |-> Planned(@.asked)]]
    /\ UNCHANGED <<catalog, record, handler, view, reviewed>>

(* afterChange: post the change, without awaiting it, in the first free slot. *)
Post(s, new) ==
    \E e \in Handlers :
        /\ handler[e] = IdleHandler
        /\ \A lower \in 1..(e - 1) : handler[lower] # IdleHandler
        /\ handler' = [handler EXCEPT ![e] =
               [pc |-> "posted", service |-> s, approved |-> new.approved,
                gone |-> FALSE, grant |-> {},
                action |-> IF new.active THEN "apply" ELSE "delete"]]

Set(old, new) == IF new = Keep THEN old ELSE TRUE \in new

(* Fault: a version is not pinned. *)
UpsertedUnpinned(r, change, asked) ==
    [r EXCEPT !.exists = TRUE,
              !.approved = Set(@, change.approved), !.active = Set(@, change.active),
              !.scopes = asked.scopes,
              !.version = IF r.exists THEN @ ELSE asked.version]

(* upsertConnection: a request's details are written in every case.         *)
Upserted(r, change, asked) ==
    [exists |-> TRUE,
     approved |-> Set(r.approved, change.approved),
     active |-> Set(r.active, change.active),
     scopes |-> asked.scopes, version |-> asked.version]

(* A change that carries no policy version cannot create a record.          *)
Applicable(change) == change.creates \/ record[change.service].exists

Write(h) ==
    /\ submission[h].pc = "writing" /\ submission[h].todo # <<>>
    /\ LET change == Head(submission[h].todo)
           s == change.service
           new == Upserted(record[s], change, submission[h].asked[s])
       IN  /\ Applicable(change)
           /\ record' = [record EXCEPT ![s] = new]
           /\ Post(s, new)
    /\ submission' = [submission EXCEPT ![h].todo = Tail(@)]
    /\ UNCHANGED <<catalog, view, reviewed>>

(* A write that fails abandons the ones after it; nothing is rolled back.   *)
WriteFails(h) ==
    /\ submission[h].pc = "writing" /\ submission[h].todo # <<>>
    /\ Reliable => ~Applicable(Head(submission[h].todo))
    /\ submission' = [submission EXCEPT ![h] = IdleSubmission]
    /\ UNCHANGED <<catalog, record, handler, view, reviewed>>

Answer(h) ==
    /\ submission[h].pc = "writing" /\ submission[h].todo = <<>>
    /\ submission' = [submission EXCEPT ![h] = IdleSubmission]
    /\ UNCHANGED <<catalog, record, handler, view, reviewed>>

-----------------------------------------------------------------------------
(* The organizations of the client and of the services                     *)

(* PUT /connections/approval.  A pending request is not rejected this way.  *)
(* An activation that is left out counts as a change.                       *)
Decide(s) ==
    /\ MayCall /\ record[s].exists
    /\ \E approve \in BOOLEAN, active \in Field :
          LET new == [record[s] EXCEPT !.approved = approve, !.active = Set(@, active)] IN
          /\ approve \/ record[s].approved
          /\ WithdrawsInactive => approve \/ ~new.active
          /\ new # record[s] \/ active = Keep
          /\ record' = [record EXCEPT ![s] = new]
          /\ Post(s, new)
          /\ reviewed' = IF approve /\ ~record[s].approved
                         THEN reviewed \cup {Entry(s, new)} ELSE reviewed
    /\ UNCHANGED <<catalog, submission, view>>

(* PUT /connections by the client's organization: starts and stops routing. *)
SetActive(s) ==
    /\ MayCall /\ record[s].exists
    /\ LET new == [record[s] EXCEPT !.active = ~@] IN
          /\ record' = [record EXCEPT ![s] = new]
          /\ Post(s, new)
    /\ UNCHANGED <<catalog, submission, view, reviewed>>

(* DELETE /connections/{id} of a connection that is not active; its routing, *)
(* which must be gone, is modelled in Connection.  No event is posted, and  *)
(* the events of the record that are in flight do not find it any more.     *)
DeleteConnection(s) ==
    /\ MayCall /\ record[s].exists /\ ~record[s].active
    /\ record' = [record EXCEPT ![s] = NoRecord]
    /\ handler' = [e \in Handlers |->
           IF handler[e] # IdleHandler /\ handler[e].service = s
           THEN [handler[e] EXCEPT !.gone = TRUE] ELSE handler[e]]
    /\ UNCHANGED <<catalog, submission, view, reviewed>>

(* The provider publishes another version of the specification.             *)
PublishSpecification(s) ==
    /\ s \in Evolving
    /\ catalog[s].version < MaxVersion
    /\ \E declared \in SUBSET Scopes :
          catalog' = [catalog EXCEPT ![s] = [version |-> @.version + 1, scopes |-> declared]]
    /\ UNCHANGED <<record, submission, handler, view, reviewed>>

-----------------------------------------------------------------------------
(* The handler of an event, as far as the shared access goes               *)

End(e) == handler' = [handler EXCEPT ![e] = IdleHandler]

PolicyAllows(e) == handler[e].action = "apply" => handler[e].approved

(* The policy is evaluated, then the event's own connection is looked up.   *)
Start(e) ==
    /\ handler[e].pc = "posted"
    /\ IF PolicyAllows(e) /\ ~handler[e].gone
       THEN handler' = [handler EXCEPT ![e].pc = "list"] ELSE End(e)
    /\ UNCHANGED <<catalog, record, submission, view, reviewed>>

(* Faults: pending connections are granted; only active ones are. *)
GrantedUnfiltered == {Entry(s, record[s]) : s \in {t \in Services : record[t].exists}}

GrantedIfActive ==
    {Entry(s, record[s]) : s \in {t \in Services : record[t].approved /\ record[t].active}}

(* Approval determines the grant; activation controls routing.              *)
Granted == {Entry(s, record[s]) : s \in {t \in Services : record[t].approved}}

(* The connections of the integration; none at all is an error.             *)
List(e) ==
    /\ handler[e].pc = "list"
    /\ IF \E s \in Services : record[s].exists
       THEN handler' = [handler EXCEPT ![e].pc = "lookup", ![e].grant = Granted]
       ELSE End(e)
    /\ UNCHANGED <<catalog, record, submission, view, reviewed>>

(* Scopes the catalog no longer declares.                                   *)
Malformed(x) == ~(x.scopes \subseteq catalog[x.service].scopes)

(* What was approved without a version gets the catalog's.                  *)
Pinned(x) ==
    [x EXCEPT !.version = IF @ = Unversioned THEN catalog[x.service].version ELSE @]

(* Fault: a delete does not go on without a malformed connection. *)
LookUpStrictly(e) ==
    /\ handler[e].pc = "lookup"
    /\ IF \E x \in handler[e].grant : Malformed(x) THEN End(e)
       ELSE handler' = [handler EXCEPT
                ![e].pc = "gateway", ![e].grant = {Pinned(x) : x \in @}]
    /\ UNCHANGED <<catalog, record, submission, view, reviewed>>

(* The services are looked up.  A malformed connection ends an apply; a     *)
(* delete goes on without it.                                               *)
LookUp(e) ==
    /\ handler[e].pc = "lookup"
    /\ LET grant == handler[e].grant IN
       IF handler[e].action = "apply" /\ \E x \in grant : Malformed(x)
       THEN End(e)
       ELSE handler' = [handler EXCEPT
                ![e].pc = "gateway",
                ![e].grant = {Pinned(x) : x \in {y \in grant : ~Malformed(y)}}]
    /\ UNCHANGED <<catalog, record, submission, view, reviewed>>

(* The event is lost, a call fails, or the provisioner restarts.            *)
HandlingFails(e) ==
    /\ ~Reliable
    /\ handler[e].pc \in {"posted", "list", "lookup"}
    /\ End(e)
    /\ UNCHANGED <<catalog, record, submission, view, reviewed>>

(* The first batch of the resource set replaces the consumer's ACL groups.  *)
(* A batch that fails does not stop the next.                               *)
PublishToGateway(e) ==
    /\ handler[e].pc = "gateway"
    /\ \E to \in {{"gateway"}} \cup (IF Reliable THEN {} ELSE {{}}) :
          view' = [t \in Targets |-> IF t \in to THEN handler[e].grant ELSE view[t]]
    /\ handler' = [handler EXCEPT ![e].pc = "partner"]
    /\ UNCHANGED <<catalog, record, submission, reviewed>>

(* The second calls back Common SSO.                                        *)
CallBack(e) ==
    /\ handler[e].pc = "partner"
    /\ \E to \in {{"partner"}} \cup (IF Reliable THEN {} ELSE {{}}) :
          view' = [t \in Targets |-> IF t \in to THEN handler[e].grant ELSE view[t]]
    /\ End(e)
    /\ UNCHANGED <<catalog, record, submission, reviewed>>

-----------------------------------------------------------------------------
(* Connections from before versions were kept are approved and granted.     *)
Init ==
    /\ catalog = [s \in Services |-> [version |-> 1, scopes |-> Scopes]]
    /\ record = [s \in Services |->
           IF s \in Legacy THEN [NoRecord EXCEPT !.exists = TRUE, !.approved = TRUE,
                                                 !.scopes = Scopes]
           ELSE NoRecord]
    /\ submission = [h \in Submitters |-> IdleSubmission]
    /\ handler = [e \in Handlers |-> IdleHandler]
    /\ reviewed = {Entry(s, record[s]) : s \in Legacy}
    /\ view = [t \in Targets |-> {Pinned(x) : x \in reviewed}]

AccessRequest(h) ==
    Validate(h) \/ Plan(h) \/ Write(h) \/ WriteFails(h) \/ Answer(h)

Organizations(s) ==
    Decide(s) \/ SetActive(s) \/ DeleteConnection(s) \/ PublishSpecification(s)

Handling(e) ==
    \/ Start(e) \/ List(e) \/ LookUp(e) \/ HandlingFails(e)
    \/ PublishToGateway(e) \/ CallBack(e)

Next ==
    \/ \E h \in Submitters : AccessRequest(h)
    \/ \E s \in Services : Organizations(s)
    \/ \E e \in Handlers : Handling(e)

(* A request that was accepted and an event that was received go on: each   *)
(* of their steps is the end of a call.                                     *)
Fairness ==
    /\ \A h \in Submitters : WF_vars(Plan(h) \/ Write(h) \/ WriteFails(h) \/ Answer(h))
    /\ \A e \in Handlers : WF_vars(Handling(e))

Spec == Init /\ [][Next]_vars

FairSpec == Spec /\ Fairness

-----------------------------------------------------------------------------
(* Properties                                                              *)

Entries == [service : Services, scopes : SUBSET Scopes, version : 0..MaxVersion]

Asked == [scopes : SUBSET Scopes, version : Versions]

Changes == [service : Services, creates : BOOLEAN, approved : Field, active : Field]

Handlings == [pc : {"posted", "list", "lookup", "gateway", "partner"},
              service : Services, approved : BOOLEAN, gone : BOOLEAN,
              grant : SUBSET Entries, action : {"apply", "delete"}]

TypeOK ==
    /\ catalog \in [Services -> [version : Versions, scopes : SUBSET Scopes]]
    /\ record \in [Services -> [exists : BOOLEAN, approved : BOOLEAN, active : BOOLEAN,
                                scopes : SUBSET Scopes, version : 0..MaxVersion]]
    /\ \A h \in Submitters :
          \/ submission[h] = IdleSubmission
          \/ /\ submission[h].pc \in {"validated", "writing"}
             /\ DOMAIN submission[h].asked \subseteq Services
             /\ \A s \in DOMAIN submission[h].asked : submission[h].asked[s] \in Asked
             /\ submission[h].pc = "writing" =>
                   \A i \in DOMAIN submission[h].todo : submission[h].todo[i] \in Changes
    /\ \A e \in Handlers : handler[e] = IdleHandler \/ handler[e] \in Handlings
    /\ view \in [Targets -> SUBSET Entries]
    /\ reviewed \subseteq Entries

(* "Version or scope changes require re-approval": what an approved          *)
(* connection stands for is what the provider decided on.                   *)
ApprovalIsReviewed ==
    \A s \in Services : record[s].approved =>
        \E old \in reviewed : Covers(old, Entry(s, record[s]))

(* A grant that the gateway or Common SSO holds was decided on by the        *)
(* provider, with these scopes and this version: whatever is decided,       *)
(* deleted, published or fails between the steps of a request and of its    *)
(* events, as long as no two requests overlap.                             *)
GrantIsReviewed ==
    \A t \in Targets : \A x \in view[t] : \E old \in reviewed : Covers(old, x)

(* An access request never approves: it may repeat an approval, but one that *)
(* the provider has withdrawn does not come back.  The code does not keep    *)
(* this when the provider decides between its plan and its write.           *)
OnlyProviderApproves ==
    [][submission' # submission =>
           \A s \in Services : record'[s].approved => record[s].approved]_vars

(* The answer of an access request is true: each connection it asked for has *)
(* the scopes and the version it asked, so the same request changes neither.*)
AnsweredIsStored ==
    \A h \in Submitters :
        submission[h].pc = "writing" /\ submission[h].todo = <<>> =>
            \A s \in DOMAIN submission[h].asked :
                LET r == record[s] asked == submission[h].asked[s] IN
                r.exists => ~Differs(r, asked) /\ ~PinsVersion(r, asked)

(* "Empty replacement grants remain valid when approval is withdrawn ...;    *)
(* the receiver must not retain stale access": at rest, neither target      *)
(* grants a service whose connection is not approved.                       *)
WithdrawnIsRevoked ==
    Quiet => \A t \in Targets : \A x \in view[t] :
        record[x.service].exists => record[x.service].approved

(* "... or no approved services remain": nor one whose connection is gone.   *)
DeletedIsRevoked ==
    Quiet => \A t \in Targets : \A x \in view[t] : record[x.service].exists

AllDeclared ==
    \A s \in Services : record[s].approved => ~Malformed(Entry(s, record[s]))

(* An approval reaches Common SSO, unless it is withdrawn or replaced.       *)
ApprovedIsGranted ==
    []AllDeclared => \A s \in Services : record[s].approved ~>
        (~record[s].approved \/ \E x \in view["partner"] : Covers(Entry(s, record[s]), x))
=============================================================================
