----------------------------- MODULE Credential -----------------------------
(***************************************************************************)
(* The credential of one application in one product environment: requested, *)
(* collected, approved, rejected, issued by the gateway, renewed, revoked.   *)
(* What a handler makes is spread over four stores (the consumer in Kong, the      *)
(* client at the issuer, the consumer and the ServiceAccess in the Portal)  *)
(* and written one call after the other; the name, environment id followed  *)
(* by application id, is the same for every attempt.                        *)
(*                                                                         *)
(* A worker is one HTTP request at work.  It carries the list of the steps  *)
(* that are left, and a step that fails puts the steps of its `catch' there. *)
(***************************************************************************)
EXTENDS Naturals, Sequences, FiniteSets, Functions

CONSTANTS
    Workers,      \* requests that may be served at one time
    Flows,        \* the flows the environment may have
    Activities,   \* what users and gateways may start
    MaxRequests,  \* bound on the number of access requests
    MaxIds,       \* bound on the number of attempts to make a credential
    MaxKeys,      \* bound on the keys that are told apart at one time
    MaxFaults,    \* bound on the number of calls that fail for no reason
    Overlaps      \* what they may start while something is under way

ASSUME CredentialAssumption ==
    /\ Flows \subseteq {"kong-api-key-acl", "kong-api-key-only", "client-credentials"}
    /\ Activities \subseteq {"collect", "approve", "reject", "cancel", "issue", "renew",
                      "revoke"}
    /\ MaxRequests \in Nat /\ MaxIds \in Nat /\ MaxKeys \in Nat /\ MaxFaults \in Nat
    /\ Overlaps \subseteq Activities

VARIABLES
    env,        \* flow and approval of the product environment
    request,    \* request[r]: the access request r
    stores,     \* what Kong, the issuer and the Portal hold under the name
    worker,     \* worker[w]: the steps worker w has left
    feed,       \* the Kong consumer the hourly sync has read
    nextId,     \* the id of the next attempt
    faults,     \* the number of calls that failed for no reason
    history     \* what the properties remember

vars == <<env, request, stores, worker, feed, nextId, faults, history>>

Requests == 1..MaxRequests
Ids == 1..MaxIds
Keys == 1..MaxKeys
None == 0

NotMade == [made |-> FALSE, gone |-> FALSE, approved |-> FALSE, issued |-> FALSE,
            complete |-> FALSE, access |-> None]
Gone == [NotMade EXCEPT !.gone = TRUE]

(* row: the Kong consumer that the Portal's consumer stands for; own: the    *)
(* attempt that made the Portal's consumer, to which its ServiceAccess       *)
(* refers, or None when the sync made it.  keys: those Kong accepts for its   *)
(* consumer; key: the one that the ServiceAccess refers to.                  *)
Empty == [kong |-> None, acl |-> FALSE, keys |-> {}, key |-> None, client |-> None, enabled |-> FALSE,
          row |-> None, own |-> None, access |-> None, active |-> FALSE]

(* consumer: the Kong consumer that is set up or deleted, or the client that  *)
(* was read, with whether it was enabled (seen); key: the key to replace or   *)
(* the one that was made.                                                   *)
Idle == [kind |-> "idle", req |-> None, id |-> None, consumer |-> None,
         key |-> None, seen |-> FALSE, todo |-> <<>>]

OAuth == env.flow = "client-credentials"
Acl == env.flow = "kong-api-key-acl"

(* The ServiceAccess id, its consumer still there.                          *)
HasConsumer(id) == stores.access = id /\ stores.own = id

Resting == \A w \in Workers : worker[w] = Idle

-----------------------------------------------------------------------------
(* The programs                                                            *)

Credentials ==
    IF OAuth THEN <<"client", "consumer", "row", "sync", "access">>
             ELSE <<"consumer", "key", "row", "sync", "access">>

(* setupAuthorizationAndEnable: key-only flows have nothing to enable.       *)
Setup ==
    (IF Acl \/ OAuth THEN <<"enable">> ELSE <<>>) \o <<"activate", "resync">>

(* Fault: what is collected is enabled whether or not it needs an approval.  *)
CollectStepsUnapproved ==
    Credentials \o <<"link", "details">> \o Setup \o <<"complete">>

CollectSteps ==
    Credentials \o <<"link">> \o
    (IF env.approval THEN <<>> ELSE <<"details">> \o Setup \o <<"complete">>)

IssueSteps == Credentials \o <<"consult">> \o Setup

(* Fault: the client at the issuer is not deleted.                          *)
DeleteStepsAtKong(consumer) ==
    <<"unrequest">> \o (IF consumer THEN <<"unrow", "unkong">> ELSE <<>>)
    \o <<"unaccess">>

(* Fault: the key that is replaced stays.                                   *)
ReplaceApiKeyKept == <<"locate", "newkey">>

(* replaceApiKey                                                           *)
ReplaceApiKey == <<"locate", "unkey", "newkey">>

(* A new key, or a new certificate or address of the keys of a client, of    *)
(* which the Portal keeps a reference but when the gateway makes it.         *)
RenewSteps ==
    IF OAuth THEN {<<"find", "put">>, <<"find", "put", "relink">>}
             ELSE {ReplaceApiKey \o <<"relink">>}

(* DeleteAccess, once the ServiceAccess and its consumer are read.           *)
DeleteSteps(consumer) ==
    <<"unrequest">> \o
    (IF consumer THEN <<"unrow", "unkong">> ELSE <<>>) \o
    (IF consumer /\ OAuth THEN <<"unclient">> ELSE <<>>) \o <<"unaccess">>

Deleting == {"svc", "unrequest", "unrow", "unkong", "unclient", "unaccess"}

(* Fault: only the consumer is taken back.                                  *)
CleanUpConsumer(step) ==
    CASE step \in {"client", "consumer"} -> <<>>
      [] step \in {"key", "row"} -> <<"cleanRow", "cleanKong">>
      [] OTHER -> <<"cleanOwn", "cleanKong">>

(* What the gateway's issuance takes back when a step fails before there is  *)
(* a ServiceAccess: what it has made so far.                                *)
CleanUp(step) ==
    CASE step = "client" -> <<>>
      [] step = "consumer" -> IF OAuth THEN <<"cleanClient">> ELSE <<>>
      [] step \in {"key", "row"} -> <<"cleanRow", "cleanKong">> \o
                  (IF OAuth THEN <<"cleanClient">> ELSE <<>>)
      [] OTHER -> <<"cleanOwn", "cleanKong">> \o
                  (IF OAuth THEN <<"cleanClient">> ELSE <<>>)

(* registerApiKey takes back its consumer, AddClientConsumer only the row.   *)
CollectCleanUp(step) ==
    CASE OAuth /\ step = "row" -> <<"cleanRow">>
      [] OAuth /\ step = "sync" -> <<"cleanOwn">>
      [] ~OAuth /\ step \in {"key", "row"} -> <<"cleanRow", "cleanKong">>
      [] OTHER -> <<>>

(* Fault: a failed approval or collection stays marked as issued.           *)
NotTakenBack == <<>>

(* markAccessRequestAsNotIssued, in every `catch' of an update.              *)
TakeBack == <<"unissue">>

(* The steps after `step' has thrown in a worker of kind `kind'.  An update  *)
(* that throws within a collection is taken back by both, a renewal is not.   *)
Recovery(kind, step) ==
    CASE kind = "renew" -> <<>>
      [] kind = "issue" ->
            IF step \in Range(Credentials) THEN CleanUp(step) ELSE <<"svc">>
      [] kind = "collect" -> CollectCleanUp(step) \o TakeBack
      [] kind = "nested" -> TakeBack \o TakeBack
      [] OTHER -> IF step = "write" THEN <<>> ELSE TakeBack

(* A deletion that throws is the end of it; what is left is not deleted, and  *)
(* only what follows a deletion is still done.                              *)
Abandoned(todo) == IF "unissue" \in Range(todo) THEN TakeBack ELSE <<>>

(* A consumer that is not deleted keeps its client.                         *)
Spared(todo) == IF Head(todo) = "unclient" THEN Tail(todo) ELSE todo

-----------------------------------------------------------------------------
(* What users and gateways start                                           *)

Overlapping == [history EXCEPT !.overlapped = @ \/ ~Resting]

Start(w, activity, rec) ==
    /\ activity \in Activities
    /\ Resting \/ activity \in Overlaps
    /\ feed = None      \* bound: nothing starts between a sync's read and its write
    /\ worker[w] = Idle
    /\ worker' = [worker EXCEPT ![w] = rec]
    /\ history' = IF activity # "issue" THEN Overlapping
                  ELSE [Overlapping EXCEPT !.issued = @ \cup {rec.id},
                                           !.justified = @ \cup {rec.id}]

(* A request is refused when the Portal knows a consumer of that name.       *)
CreateRequest(r) ==
    /\ request[r] = NotMade
    /\ stores.row = None
    /\ request' = [request EXCEPT ![r].made = TRUE]
    /\ UNCHANGED <<env, stores, worker, feed, nextId, faults, history>>

(* The credential `NEW': nothing tells whether it was collected before.      *)
Collect(w, r) ==
    /\ request[r].made /\ nextId <= MaxIds
    /\ Start(w, "collect", [Idle EXCEPT !.kind = "collect", !.req = r, !.id = nextId,
                                        !.todo = CollectSteps])
    /\ nextId' = nextId + 1
    /\ UNCHANGED <<env, request, stores, feed, faults>>

(* What an update decides on: isUpdatingToIssued, isUpdatingToRejected.      *)
Open(kind, r) ==
    ~request[r].complete /\ (kind = "reject" \/ ~request[r].issued)

(* Decided on the record as it was before the update.                       *)
Approve(w, r) ==
    /\ request[r].made
    /\ Start(w, "approve", [Idle EXCEPT !.kind = "approve", !.req = r,
             !.todo = <<"write">> \o
                      (IF Open("approve", r) THEN <<"details">> \o Setup ELSE <<>>)])
    /\ UNCHANGED <<env, request, stores, feed, nextId, faults>>

Reject(w, r) ==
    /\ request[r].made
    /\ Start(w, "reject", [Idle EXCEPT !.kind = "reject", !.req = r,
             !.todo = <<"write">> \o
                      (IF Open("reject", r) THEN <<"details">> ELSE <<>>)])
    /\ UNCHANGED <<env, request, stores, feed, nextId, faults>>

(* The requester deletes the request: no hook takes anything else away.      *)
Cancel(r) ==
    /\ "cancel" \in Activities
    /\ Resting \/ "cancel" \in Overlaps
    /\ request[r].made
    /\ request' = [request EXCEPT ![r] = Gone]
    /\ history' = Overlapping
    /\ UNCHANGED <<env, stores, worker, feed, nextId, faults>>

(* issueGatewayCredential: refused when the Portal knows the consumer.       *)
Issue(w) ==
    /\ stores.row = None /\ nextId <= MaxIds
    /\ Start(w, "issue", [Idle EXCEPT !.kind = "issue", !.id = nextId,
                                      !.todo = IssueSteps])
    /\ nextId' = nextId + 1
    /\ UNCHANGED <<env, request, stores, feed, faults>>

(* regenerateCredentials, regenerateGatewayCredential, UpdateCredentials: by  *)
(* the ServiceAccess, approved or not; a client is looked up by its consumer. *)
Renew(w) ==
    /\ stores.access # None
    /\ OAuth => HasConsumer(stores.access)
    /\ \E steps \in RenewSteps :
          Start(w, "renew", [Idle EXCEPT !.kind = "renew", !.id = stores.access,
                                         !.key = stores.key, !.todo = steps])
    /\ UNCHANGED <<env, request, stores, feed, nextId, faults>>

Revoke(w) ==
    /\ stores.access # None
    /\ Start(w, "revoke", [Idle EXCEPT !.kind = "revoke", !.id = stores.access,
                                       !.todo = <<"svc">>])
    /\ UNCHANGED <<env, request, stores, feed, nextId, faults>>

-----------------------------------------------------------------------------
(* The steps                                                               *)

Doing(w, step) == worker[w].todo # <<>> /\ Head(worker[w].todo) = step

Continue(w, rec, todo) ==
    worker' = [worker EXCEPT ![w] = IF todo = <<>> THEN Idle
                                    ELSE [rec EXCEPT !.todo = todo]]

Rest(w) == Tail(worker[w].todo)

Proceed(w) == Continue(w, worker[w], Rest(w))

(* A call fails because its `able' is FALSE, or for no reason.               *)
Fails(able) ==
    \/ ~able /\ UNCHANGED faults
    \/ able /\ faults < MaxFaults /\ faults' = faults + 1

(* A step of the program: on failure the catch takes over.                   *)
Attempt(w, step, able, success) ==
    /\ Doing(w, step)
    /\ \/ able /\ success /\ UNCHANGED faults
       \/ /\ Fails(able)
          /\ Continue(w, worker[w], Recovery(worker[w].kind, step))
          /\ UNCHANGED <<request, stores, history>>
    /\ UNCHANGED <<env, feed, nextId>>

(* A step that only writes to the stores.                                   *)
Call(w, step, able, new) ==
    Attempt(w, step, able,
            stores' = new /\ Proceed(w) /\ UNCHANGED <<request, history>>)

Own(w) == worker[w].id

(* clientRegistration, disabled                                             *)
RegisterClient(w) ==
    Call(w, "client", stores.client = None,
         [stores EXCEPT !.client = Own(w), !.enabled = FALSE])

CreateKongConsumer(w) ==
    Call(w, "consumer", stores.kong = None,
         [stores EXCEPT !.kong = Own(w), !.acl = FALSE])

(* The keys that are not in Kong, nor referred to by anything.              *)
UnusedKeys == {k \in Keys : /\ k \notin stores.keys \cup {stores.key}
                            /\ \A w \in Workers : worker[w].key # k}

NewKey == CHOOSE k \in UnusedKeys : TRUE

AddKeyTo(w, step, consumer) ==
    Attempt(w, step, stores.kong = consumer,
        /\ UnusedKeys # {}      \* bound
        /\ stores' = [stores EXCEPT !.keys = @ \cup {NewKey}]
        /\ Continue(w, [worker[w] EXCEPT !.key = NewKey], Rest(w))
        /\ UNCHANGED <<request, history>>)

AddKeyAuth(w) ==
    \/ AddKeyTo(w, "key", Own(w))
    \/ AddKeyTo(w, "newkey", worker[w].consumer)

AddConsumerRow(w) ==
    Call(w, "row", stores.row = None, [stores EXCEPT !.row = Own(w), !.own = Own(w)])

(* The sync writes what Kong holds; a consumer of that name that stood for   *)
(* another one of Kong's stands for this one from then on                   *)
(* (handleUsernameChange), and is otherwise the same.                       *)
Synced(id) == IF id = None THEN stores ELSE [stores EXCEPT !.row = id]

Found(id) == IF stores.kong = id THEN id ELSE None

ForceSync(w) ==
    \/ Call(w, "sync", TRUE, Synced(Found(Own(w))))
    \/ Call(w, "resync", TRUE, Synced(Found(worker[w].consumer)))

AddServiceAccess(w) ==
    Call(w, "access", stores.access = None /\ stores.own = Own(w),
         [stores EXCEPT !.access = Own(w), !.active = FALSE, !.key = worker[w].key])

(* Somebody has approved the request, or is at it.                          *)
Approving(r) ==
    \/ request[r].approved
    \/ \E w \in Workers : worker[w].kind = "approve" /\ worker[w].req = r

(* What an approved request is linked to later is approved as well.          *)
LinkServiceAccess(w) ==
    LET r == worker[w].req IN
    Attempt(w, "link", request[r].made /\ stores.access = Own(w),
        /\ request' = [request EXCEPT ![r].access = Own(w)]
        /\ history' = [history EXCEPT !.justified =
               IF Approving(r) \/ ~env.approval THEN @ \cup {Own(w)} ELSE @]
        /\ Proceed(w) /\ UNCHANGED stores)

(* The update of an approval, a rejection or the end of a collection.        *)
Write(w) ==
    LET r == worker[w].req IN
    Attempt(w, "write", request[r].made,
        /\ request' = [request EXCEPT ![r] =
               IF worker[w].kind = "reject"
               THEN [@ EXCEPT !.approved = FALSE, !.complete = TRUE]
               ELSE [@ EXCEPT !.approved = TRUE, !.issued = TRUE, !.complete = TRUE]]
        /\ history' = [history EXCEPT
               !.justified = @ \cup (IF worker[w].kind = "approve"
                                     THEN {request[r].access} ELSE {})]
        /\ Proceed(w) /\ UNCHANGED stores)

(* The update that ends a collection is an update to issued of its own, with *)
(* all that comes with it.                                                  *)
Complete(w) ==
    LET r == worker[w].req IN
    Attempt(w, "complete", request[r].made,
        /\ request' = [request EXCEPT ![r] =
               [@ EXCEPT !.approved = TRUE, !.issued = TRUE, !.complete = TRUE]]
        /\ Continue(w, [worker[w] EXCEPT !.kind = "nested"],
               IF Open("approve", r) THEN <<"details">> \o Setup ELSE <<>>)
        /\ UNCHANGED <<stores, history>>)

(* The ServiceAccess of the request, and for an approval its consumer.       *)
LookUpDetails(w) ==
    LET r == worker[w].req  id == request[r].access IN
    Attempt(w, "details",
        /\ id # None /\ stores.access = id
        /\ worker[w].kind = "reject" \/ HasConsumer(id),
        /\ Continue(w, [worker[w] EXCEPT !.id = id, !.consumer = stores.row],
               IF worker[w].kind = "reject"
               THEN <<"svc">> \o (IF HasConsumer(id) THEN <<>> ELSE <<"unissue">>)
               ELSE Rest(w))
        /\ history' = [history EXCEPT
               !.astray = @ \/ (worker[w].kind # "reject" /\ stores.row # id)]
        /\ UNCHANGED <<request, stores>>)

(* The consumer of that name, whoever made it.                              *)
Consult(w) ==
    Attempt(w, "consult", stores.row # None,
        /\ history' = [history EXCEPT !.astray = @ \/ stores.row # Own(w)]
        /\ Continue(w, [worker[w] EXCEPT !.consumer = stores.row], Rest(w))
        /\ UNCHANGED <<request, stores>>)

(* Kong's group is set by the consumer's id, the issuer's client by its name. *)
Enable(w) ==
    Attempt(w, "enable",
        IF OAuth THEN stores.client # None
        ELSE stores.kong # None /\ stores.kong = worker[w].consumer,
        /\ stores' = IF OAuth THEN [stores EXCEPT !.enabled = TRUE]
                              ELSE [stores EXCEPT !.acl = TRUE]
        /\ history' = [history EXCEPT !.astray = @ \/ (OAuth /\ stores.client # Own(w))]
        /\ Proceed(w) /\ UNCHANGED request)

-----------------------------------------------------------------------------
(* Renewing                                                                *)

(* By its name: whoever's consumer that is.                                 *)
Locate(w) ==
    Attempt(w, "locate", stores.kong # None,
        /\ Continue(w, [worker[w] EXCEPT !.consumer = stores.kong], Rest(w))
        /\ UNCHANGED <<request, stores, history>>)

(* The client is read whole, by its name,                                   *)
FindClient(w) ==
    Attempt(w, "find", stores.client # None,
        /\ Continue(w, [worker[w] EXCEPT !.consumer = stores.client,
                                         !.seen = stores.enabled], Rest(w))
        /\ UNCHANGED <<request, stores, history>>)

(* and written back whole, with whether it was enabled.                     *)
PutClient(w) ==
    Call(w, "put", stores.client = worker[w].consumer,
         [stores EXCEPT !.enabled = worker[w].seen])

-----------------------------------------------------------------------------
(* Taking back and deleting                                                *)

(* A call whose failure is logged and not thrown.                           *)
Try(w, step, able, new, next) ==
    /\ Doing(w, step)
    /\ \/ /\ able /\ stores' = new /\ UNCHANGED <<faults, history>>
          /\ Proceed(w)
       \/ /\ Fails(able) /\ UNCHANGED stores
          /\ history' = [history EXCEPT !.dirty = @ \/ faults' # faults]
          /\ \E todo \in next : Continue(w, worker[w], todo)
    /\ UNCHANGED <<env, feed, nextId, request>>

(* Fault: a ServiceAccess that is gone is marked active.                    *)
ActivateBlindly(w) ==
    Try(w, "activate", TRUE, [stores EXCEPT !.active = TRUE], {Rest(w)})

(* markActiveTheServiceAccess: an error in the answer is not looked at.      *)
Activate(w) ==
    Try(w, "activate", TRUE,
        [stores EXCEPT !.active = @ \/ stores.access = Own(w)], {Rest(w)})

(* An error in the answer is logged; when there is no answer the renewal ends. *)
DeleteKeyAuth(w) ==
    \/ Try(w, "unkey", stores.kong = worker[w].consumer /\ worker[w].key \in stores.keys,
           [stores EXCEPT !.keys = @ \ {worker[w].key}], {Rest(w)})
    \/ Attempt(w, "unkey", TRUE, FALSE)

(* linkCredRefsToServiceAccess marks the ServiceAccess as active as well;     *)
(* an error in the answer is not looked at.                                 *)
Relink(w) ==
    /\ Doing(w, "relink")
    /\ \/ /\ stores.access = Own(w) /\ UNCHANGED <<faults, history>>
          /\ stores' = [stores EXCEPT !.active = TRUE, !.key = worker[w].key]
       \/ /\ Fails(stores.access = Own(w)) /\ UNCHANGED stores
          /\ history' = [history EXCEPT !.dirty = @ \/ faults' # faults]
    /\ Proceed(w)
    /\ UNCHANGED <<env, request, feed, nextId>>

WithoutRow == [stores EXCEPT !.row = None, !.own = None]
WithoutKong == [stores EXCEPT !.kong = None, !.acl = FALSE, !.keys = {}]
WithoutClient == [stores EXCEPT !.client = None, !.enabled = FALSE]

(* By the Kong consumer it stands for, or as the one that was made.          *)
CleanRow(w) ==
    \/ Try(w, "cleanRow", TRUE,
           IF stores.row = Own(w) THEN WithoutRow ELSE stores, {Rest(w)})
    \/ Try(w, "cleanOwn", TRUE,
           IF stores.own = Own(w) THEN WithoutRow ELSE stores, {Rest(w)})

CleanKong(w) ==
    Try(w, "cleanKong", TRUE,
        IF stores.kong = Own(w) THEN WithoutKong ELSE stores, {Rest(w)})

CleanClient(w) == Try(w, "cleanClient", TRUE, WithoutClient, {Rest(w)})

(* markAccessRequestAsNotIssued: the approval stays.                        *)
Unissue(w) ==
    LET r == worker[w].req IN
    /\ Doing(w, "unissue")
    /\ \/ /\ request[r].made /\ UNCHANGED <<faults, history>>
          /\ request' = [request EXCEPT ![r] = [@ EXCEPT !.issued = FALSE,
                                                         !.complete = FALSE]]
       \/ /\ Fails(request[r].made) /\ UNCHANGED request
          /\ history' = [history EXCEPT !.dirty = @ \/ faults' # faults]
    /\ Proceed(w)
    /\ UNCHANGED <<env, stores, feed, nextId>>

(* DeleteAccess reads the ServiceAccess and whether it has its consumer.     *)
LookUpAccess(w) ==
    LET has == HasConsumer(Own(w)) IN
    /\ Doing(w, "svc")
    /\ \/ /\ stores.access = Own(w) /\ UNCHANGED <<faults, history>>
          /\ Continue(w, [worker[w] EXCEPT !.consumer = IF has THEN stores.row ELSE None],
                      DeleteSteps(has) \o Rest(w))
       \/ /\ Fails(stores.access = Own(w))
          /\ history' = [history EXCEPT !.dirty = @ \/ faults' # faults]
          /\ Continue(w, worker[w], Rest(w))
    /\ UNCHANGED <<env, request, stores, feed, nextId>>

DeleteRequest(w) ==
    /\ Doing(w, "unrequest")
    /\ \/ /\ request' = [r \in Requests |->
                 IF request[r].made /\ request[r].access = Own(w) THEN Gone ELSE request[r]]
          /\ Proceed(w) /\ UNCHANGED <<faults, history>>
       \/ /\ Fails(TRUE) /\ UNCHANGED request
          /\ history' = [history EXCEPT !.dirty = TRUE]
          /\ \E todo \in {Rest(w), Abandoned(Rest(w))} : Continue(w, worker[w], todo)
    /\ UNCHANGED <<env, stores, feed, nextId>>

DeleteRow(w) ==
    Try(w, "unrow", TRUE,
        IF stores.own = Own(w) THEN WithoutRow ELSE stores,
        {Rest(w), Abandoned(Rest(w))})

(* A consumer that Kong does not know is an error, and the client stays.     *)
DeleteKongConsumer(w) ==
    Try(w, "unkong", stores.kong = worker[w].consumer, WithoutKong,
        {Spared(Rest(w))})

(* By its name: whoever registered it.                                      *)
DeleteClient(w) ==
    Try(w, "unclient", stores.client # None, WithoutClient, {Rest(w)})

DeleteServiceAccess(w) ==
    Try(w, "unaccess", TRUE,
        IF stores.access = Own(w) THEN [stores EXCEPT !.access = None, !.active = FALSE,
                                                        !.key = None]
        ELSE stores, {Rest(w)})

(* The Portal restarts, and nobody takes the request up again.               *)
Stop(w) ==
    /\ worker[w] # Idle /\ Fails(TRUE)
    /\ worker' = [worker EXCEPT ![w] = Idle]
    /\ history' = [history EXCEPT !.dirty = TRUE]
    /\ UNCHANGED <<env, request, stores, feed, nextId>>

-----------------------------------------------------------------------------
(* The hourly sync                                                         *)

FeedRead ==
    /\ feed = None
    /\ feed' = stores.kong
    /\ UNCHANGED <<env, request, stores, worker, nextId, faults, history>>

FeedWrite ==
    /\ feed # None
    /\ stores' = Synced(feed)
    /\ feed' = None
    /\ history' = [history EXCEPT !.astray = @ \/ stores.own \notin {None, feed}]
    /\ UNCHANGED <<env, request, worker, nextId, faults>>

-----------------------------------------------------------------------------
Init ==
    /\ env \in [flow : Flows, approval : BOOLEAN]
    /\ request = [r \in Requests |-> NotMade]
    /\ stores = Empty
    /\ worker = [w \in Workers |-> Idle]
    /\ feed = None /\ nextId = 1 /\ faults = 0
    /\ history = [justified |-> {None}, issued |-> {}, astray |-> FALSE,
                  overlapped |-> FALSE, dirty |-> FALSE]

Work(w) ==
    \/ RegisterClient(w) \/ CreateKongConsumer(w) \/ AddKeyAuth(w)
    \/ AddConsumerRow(w) \/ ForceSync(w) \/ AddServiceAccess(w)
    \/ LinkServiceAccess(w) \/ Write(w) \/ Complete(w) \/ LookUpDetails(w)
    \/ Consult(w) \/ Enable(w) \/ Activate(w)
    \/ Locate(w) \/ FindClient(w) \/ PutClient(w) \/ DeleteKeyAuth(w) \/ Relink(w)
    \/ CleanRow(w) \/ CleanKong(w) \/ CleanClient(w) \/ Unissue(w)
    \/ LookUpAccess(w) \/ DeleteRequest(w) \/ DeleteRow(w)
    \/ DeleteKongConsumer(w) \/ DeleteClient(w) \/ DeleteServiceAccess(w)

Next ==
    \/ \E r \in Requests : CreateRequest(r) \/ Cancel(r)
    \/ \E w \in Workers : Issue(w) \/ Renew(w) \/ Revoke(w) \/ Work(w) \/ Stop(w)
    \/ \E w \in Workers, r \in Requests : Collect(w, r) \/ Approve(w, r) \/ Reject(w, r)
    \/ FeedRead \/ FeedWrite

Spec == Init /\ [][Next]_vars

-----------------------------------------------------------------------------
(* Properties                                                              *)

Programs == {"idle", "collect", "nested", "issue", "approve", "reject", "renew",
             "revoke"}

Steps == {"client", "consumer", "key", "row", "sync", "access", "link", "write",
          "complete", "details", "consult", "enable", "activate", "resync",
          "locate", "unkey", "newkey", "find", "put", "relink",
          "cleanRow", "cleanOwn", "cleanKong", "cleanClient", "unissue"} \cup Deleting

(* Types, and nothing is enabled that is not there.                          *)
TypeOK ==
    /\ env \in [flow : Flows, approval : BOOLEAN]
    /\ request \in [Requests -> [made : BOOLEAN, gone : BOOLEAN, approved : BOOLEAN,
                                 issued : BOOLEAN, complete : BOOLEAN,
                                 access : Ids \cup {None}]]
    /\ stores \in [kong : Ids \cup {None}, acl : BOOLEAN,
                   keys : SUBSET Keys, key : Keys \cup {None},
                   client : Ids \cup {None}, enabled : BOOLEAN,
                   row : Ids \cup {None}, own : Ids \cup {None},
                   access : Ids \cup {None}, active : BOOLEAN]
    /\ stores.acl \/ stores.keys # {} => stores.kong # None
    /\ stores.enabled => stores.client # None
    /\ stores.active => stores.access # None
    /\ stores.own # None => stores.row # None
    /\ worker \in [Workers -> [kind : Programs, req : Requests \cup {None},
                               id : Ids \cup {None}, consumer : Ids \cup {None},
                               key : Keys \cup {None}, seen : BOOLEAN,
                               todo : Seq(Steps)]]
    /\ feed \in Ids \cup {None}
    /\ nextId \in 1..(MaxIds + 1) /\ faults \in 0..MaxFaults

InEffect(id) ==
    /\ stores.access = id /\ stores.active
    /\ Acl => stores.kong = id /\ stores.acl
    /\ OAuth => stores.kong = id /\ stores.enabled

(* Access is only given to what the gateway issued, what needs no approval,  *)
(* or what somebody approved, whatever overlaps, fails or stops half way;    *)
(* unless a handler that acts by the name met another one's credential.  (A    *)
(* ServiceAccess is marked active by a renewal as well, approved or not.)     *)
AccessIsJustified ==
    ~history.astray =>
    /\ stores.acl => stores.kong \in history.justified
    /\ stores.enabled => stores.client \in history.justified

(* A gateway's issuance is all or nothing: whichever of its calls throws,    *)
(* half way or at the last one, nothing that it made is left in Kong, at the *)
(* issuer or as a ServiceAccess.  A call that fails in taking it back, and   *)
(* marking the ServiceAccess active, are only logged and may leave it.       *)
IssuanceIsWhole ==
    Resting /\ ~history.dirty /\ ~history.astray => \A id \in history.issued :
        \/ id \notin {stores.kong, stores.client, stores.access}
        \/ InEffect(id)

(* What is marked as issued is in effect: whichever call of an approval or a  *)
(* collection throws, the mark is taken back.  A failure that is not thrown,  *)
(* like that of markActiveTheServiceAccess, a restart half way, and updates   *)
(* that overlap may leave it.                                               *)
IssuedIsInEffect ==
    Resting /\ ~history.dirty /\ ~history.overlapped => \A r \in Requests :
        request[r].issued => InEffect(request[r].access)

(* Nothing works without a ServiceAccess through which it can be revoked,    *)
(* whatever overlaps and whichever call throws.  A deletion that fails and is *)
(* only logged may leave a consumer or a client that works.                  *)
EffectIsRevocable ==
    Resting /\ ~history.dirty /\ ~history.astray =>
    /\ stores.acl => stores.access = stores.kong
    /\ stores.enabled => stores.access = stores.client

(* Whose key was replaced cannot use it, as long as collections, issuances    *)
(* and renewals do not overlap each other: while no failure went unheard,    *)
(* Kong accepts no key but the one that the next renewal will replace,       *)
(* whatever was approved or revoked meanwhile.  An old key that is not       *)
(* deleted, a new one that is not linked, or a renewal that stops midway     *)
(* leaves one more key each, which no later renewal deletes nor adds to.     *)
OnlyCurrentKeyWorks ==
    Resting /\ stores.access # None =>
    /\ ~history.dirty => stores.keys \subseteq {stores.key}
    /\ stores.kong = stores.access =>
          Cardinality(stores.keys \ {stores.key}) <= faults

(* "This application already has access": who is refused for a consumer of   *)
(* that name has access.                                                    *)
RefusedHasAccess == Resting /\ stores.row # None => stores.access # None
=============================================================================
