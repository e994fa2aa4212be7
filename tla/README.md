# Specifications of the API Services Portal and its SDX provisioner

This directory keeps TLA+ models of the parts of the repository in which
several requests, callbacks and services change shared state: the SDX
connection life cycle, the access requests of integrations over several
connections, the publishing of SDX signing keys, the credentials of API
consumers, the provisioner's token cache, the namespaces of gateways, and the
syncs that copy gateways into the Portal. TLC
checks the models on small instances; TLAPS proves the main results for any
size.

## 1. Inventory of the system

The repository holds five programs. The **Portal** (`src/src`) is a KeystoneJS 5
application: lists with hooks, GraphQL, REST controllers (v1, v2, v3 and `sdx`),
batch jobs, authorization rules and a Next.js front end. The **provisioner**
(`src/provisioner-api`) is a stateless Fastify service that turns a connection
or a key request into gateway resources and publishes them through the gateway
administration API (GWA). The **feeds** service (`src/feeds`) copies the state of Kong,
Prometheus and CKAN into the Portal. `src/oauth2-proxy`, `src/local` and
`src/e2e` hold a log-in proxy, local set-up and end-to-end tests.

Components, the state each keeps, and what makes each correct:

| Component | State | Operations | Hard behaviour | Correct when |
| --- | --- | --- | --- | --- |
| SDX key publishing (`sdx-keys.ts`) | the key set of a qualifier in Kong; nothing in the provisioner | add, rotate, replace, delete, legacy publish, wipe | read, compute, publish without a lock; retried calls; failing publish | a key has one kid, a kid one key, the set does not become empty by targeted operations |
| SDX connection (`connection-service.ts`, `ConnectionRequest.js`, `connections-controller.ts`) | the ConnectionRequest row; tagged configuration on two gateways; status in the row | upsert, approval, delete, status feed; apply and delete events | events lost, reordered and overlapping; check-then-act in the Portal; partial failure; restart | no routing without approval, nothing left behind by a delete, status tells the truth and settles |
| Integration access (`integration-access-service.ts`, `sdx-p2p-consumer-access.ts`, `common-sso-service.ts`) | none of its own; the connections, and the grant that the gateway (ACL groups) and Common SSO hold | submit an access request, compute and publish the grant, call back the partner | a plan made on a snapshot, sequential writes without rollback, overlapping recomputations | an approval covers the scopes and version in force; a grant is what was approved, and goes when the approval goes |
| Batch sync (`feed-worker.ts`) | any Keystone list | sync (create, update, no change), delete, children first | lookup, then create; child lists; exclusive ownership | one record per reference key; a repeated feed changes nothing |
| Access requests (`workflow/apply.ts` and others) | AccessRequest flags, ServiceAccess, GatewayConsumer; consumer in Kong; client in Keycloak | create, collect credentials, approve, reject, revoke | each step is a remote call; errors after earlier effects; retries | access is enabled only when approved; a rejected request leaves no credential |
| Token client (`oauth.ts`) | cached token, refresh in flight, loaded key | get a token, fetch | concurrent refreshes, expiry, failed refresh | no expired token is served, one refresh at a time, an error is not kept |
| Checkpointed tasks (`tasked.ts`) | a YAML file per transaction | add, start, resume | crash between the effect and the checkpoint | a finished task is not run again; order is kept |
| Feeder (`src/feeds`) | what the syncs under way have fetched | scheduled and forced sync | overlap of syncs, failing fetches, retried puts | the Portal converges to the source |
| Authorization (`authz/enforcement.ts`) | none | evaluate the matrix | rule order | deny by default |
| Namespaces and organization groups | Keycloak groups, policies | create, delete, assign | sequences of remote calls | groups and permissions agree |

How they interact: a Portal controller writes a row through `syncRecords`; the
row's hooks validate, and after the write post an event to the provisioner
without awaiting it; the provisioner reads the Portal's REST API, publishes
through GWA, and writes a status back through the Portal's feed endpoint, whose
own hook does not post a further event. Gateway configuration carries a tag
`ns.{gateway}.{qualifier}`, and a publish replaces what carries the tag; this is
the only coordination between two handlers.

The hazards of this code are listed with their lines in `PROJECT.json`
(`hazards`), each with the properties that would catch it.

## 2. Plan, and where it stands

| Module | Models | Checked | Proved |
| --- | --- | --- | --- |
| `SdxKeys` | key operations and publishing | `keys`, `keys_overlap` | all four properties (`SdxKeysProofs`) |
| `Connection` | the Portal's record and the provisioner's handlers | `conn_patient`, `conn_settles`, `conn_race` | types, and all safety properties (`ConnectionProofs`) |
| `Agreement` | what a connection promises, without requests and handlers | as `KeepsAgreement` in `conn_patient` | that `Connection` implements it (`ConnectionProofs`) |
| `IntegrationAccess` | access requests over several connections, and the grant | three `access_` runs | types, and four safety properties, each under the assumption it holds for (`IntegrationAccessProofs`) |
| `Credential` | one credential of an API consumer over four stores | `cred` | types, and all five safety properties: two of them when what makes a credential overlaps nothing (`CredentialProofs`, `CredentialEffectProofs`) |
| `TokenClient` | token cache, shared refresh, expiry | `token` | every safety property (`TokenClientProofs`) |
| `Namespace` | the group, permissions and contents of a namespace | `ns` | all six properties (`NamespaceProofs`) |
| `GatewaySync` | the Portal's records of services and plugins, and the syncs that write them | `sync` | types and the three safety properties (`GatewaySyncProofs`) |

`IntegrationAccess` takes the row of a connection and its posted events over from
`Connection` and adds what several connections share; the two are modules of
their own because neither's properties need the other's detail (routing, status; scopes,
versions, grant). `Agreement` is instantiated by `Connection` with a refinement
mapping. The other components meet only through stores that each module has as
variables.

What is left: the documented key rotation procedure on top of `SdxKeys`. Bounds stay
at two or three values of each sort and two concurrent actors, and one run for each question.

## 3. SdxKeys: publishing SDX signing keys

Source: `provisioner-api/src/services/gateway-patterns/sdx-keys.ts` and
`sdx-keys-crypto.ts`, published by `gateway-admin-service.ts`.

| TLA+ | Code |
| --- | --- |
| `qualifier` | whose keys these are (runtime group, or organization or subsystem) and whether callers name kids; never changes |
| `keySet`, a set of records kid and material | the keys in Kong under the tag of the qualifier (`loadExistingKeys`, `toExistingKey`) |
| `handler[h]` idle, or with the key set it is about to publish | one request between `inject` and `applyResources` |
| `AddKey`, `RotateKey`, `ReplaceKey`, `DeleteKey` | `applyOperation`: the set of key sets it can answer with, empty for a refusal (HTTP 422) |
| `NewKids` | `newDesiredKey`: a supplied kid as it is, or a fresh one that no key of the set has |
| `LegacyKeys` | `legacyKeyDocuments`: `{urn}:0`, or one kid per certificate when a CA chain is given |
| `Prepare`, then `Publish` or `PublishFails` | the two points between which another handler may act |

A public key is identified by its RFC 7638 thumbprint, so it is a model value;
PEM, JWK and certificate parsing are left out. A publish whose answer is lost
is `Publish`: the caller's retry is another `Add`.

Properties. `SignerIsUnambiguous`: on a runtime group no public key has two
kids, neither published nor about to be, because a data plane selects its kid by
matching its private key and fails closed on two matches. `KidsAreUnique`: a
kid names one key, as long as callers leave its choice to the provisioner. `OnlyWipeEmpties`: a key
set becomes empty only by query `action=delete`. `RotateRetains` and, with kids
supplied by callers, `KidsAreUnique` are stated by the documentation and do not
hold: see section 10.

## 4. Connection: from a request to routing

Source: in the Portal `services/batch/connection-service.ts`,
`controllers/sdx/v1/OrgConnectionController.ts`, `batch/feed-worker.ts`,
`lists/ConnectionRequest.js` and `services/provisioner/provisioner-service.ts`; in the
provisioner `controllers/connections-controller.ts`,
`services/connection-status-service.ts`, `services/patterns-evaluator.ts`,
`services/resource-dispatcher.ts` and the policy `SDX.R1.00`.

| TLA+ | Code |
| --- | --- |
| `record` | the row of one client and one service: id, isApproved, isActive, provisionerStatus, and in `by` the event whose handler wrote the status |
| `caller[c]` | a request of the Portal between its check and its write |
| `CheckUpsert`, `CheckApproval`, then `Write` or `WriteFails` | `upsertConnection` and `updateConnectionApproval`: read the row, decide who may do this, drop a resent approval, and `syncRecords` later |
| `CheckDelete`, `GuardDelete`, `DeleteRow` | `deleteConnection` counting the configuration, `beforeDelete` testing isActive, the delete of the row |
| `Post` | `afterChange` posting apply or delete; `syncRecords` writes and posts nothing when nothing changed |
| `handler[e]` | the e-th event: posted, building, dispatching resource set `next`, logging, reporting, or in its exception branch |
| `gateway[id]` | the configuration tagged `{id}.c` on the client's and `{id}.p` on the provider's gateway |
| `granted` | history: the records the service's organization approved |

Every remote call is a step of its own that may fail. `StartFails` is also the
loss of the event, `DispatchFails` a batch that fails before or after the gateway
applied it, `StatusWriteFails` three failed attempts to write a status, and
`Crash` a restart of the provisioner, which keeps nothing. `Reachable` FALSE is
the provisioner being down, so that every event is lost: what is left is the
race of the Portal's own requests (`conn_race`). `Patient` TRUE is callers that wait until the
last change has been handled; the code does not make them.

Properties. `RoutedOnlyIfGranted`: under R1 no configuration exists for a
record the service's organization never approved, whatever overlaps.
`OnlyServiceOrgGrants`: an approval only appears by a write of the service's
organization; a client that resends the approval it read does not bring back
one that was withdrawn meanwhile, which two callers that do not wait show in `conn_race`.
`NothingLeftBehind`: at rest, no configuration of a record that is gone, when callers
wait. `UndisturbedLeavesNothing`: when they do not, configuration is left behind only by
an event of the record that is in flight between the count of the
configuration (`deleteConnection`) and the delete of the row;
nothing else that overlaps, fails or gets lost does it. `ProvisionedIsRouted`: at rest, an active
record whose status is provisioned, by the last event posted, is routed on both
gateways. `PendingSettles`: a pending status does not stay.

`Agreement` says the same without callers, events and handlers: a connection is
opened under an id of its own, agreed to, withdrawn, closed, and its parts are
routed and unrouted one by one, under R1 only what was agreed to; with
`Orderly`, only the connection in force is routed, and only one without routing
is closed. `Promised` maps to it the row (`current`, `approved`), the ids given so
far, `granted` and `gateway`, and `Orderly` to callers that wait. `KeepsAgreement`
is that specification as a property: callers between check and write, lost
events, handlers and statuses are stutters. `NothingLeftBehind` follows from it.

## 5. IntegrationAccess: access requests and the grant

Source: in the provisioner `services/integration-access-service.ts`,
`services/gateway-patterns/sdx-p2p-consumer-access.ts`, `services/common-sso-service.ts`,
`services/resource-dispatcher.ts` and the policy `SDX.R1.00`; in the Portal
`connection-service.ts`, `OrgConnectionController.ts` and `feed-worker.ts` as before.

One integration of one client in one environment has a connection to each
service it asked for. All of them share one grant: the ACL groups of its consumer
on the gateway, and the list that Common SSO is called back with.

| TLA+ | Code |
| --- | --- |
| `catalog[s]` | version and scopes of the latest specification of a service (`upsertOASService`, as `PublishSpecification`) |
| `record[s]` | the connection: isApproved, isActive, the scopes and version in its requester details; `Unversioned` for records written before versions were kept |
| `Validate`, `Plan`, `Write` or `WriteFails`, `Answer` | `submitIntegrationAccessRequest`: every requested service is validated, changes are planned on one listing of the connections, and written one after the other |
| `Change` | `planConnectionChange`: create, ask again for approval, reactivate, pin the version, or leave alone |
| `Upserted`, `Applicable` | what `upsertConnection` and `syncRecords` make of a change; one without a policy version creates nothing |
| `Decide`, `SetActive`, `DeleteConnection` | approval by the provider, activation by the client, deletion |
| `Start` | the policy check and the lookup of the event's own connection |
| `List`, `LookUp` | `buildIntegrationAllowedServices`: the approved connections, their validation against the catalog; an apply ends on a malformed one, a delete goes on without it |
| `PublishToGateway`, `CallBack` | the two batches of the consumer access resource set, the second one the callback |
| `view[t]` | the grant that the gateway or Common SSO holds |
| `reviewed` | history: the details (service, scopes, version) that the provider decided on |

`HandlingFails` is the loss of the event, a failed call or a restart; either batch
may fail by itself. Abstractions: the lookups of the single services are one
step, as is the listing of the connections; only access requests write
requester details; an approval is decided on the details it is written to; a
published specification has a new version. Left out: several integrations
or environments of one subsystem (the code refuses the conflicts), malformed scope
lists, the read-only listing for partners and the ServiceAccess record.

Properties. `ApprovalIsReviewed`: an approved connection asks for the scopes and
version that the provider approved. `GrantIsReviewed`: neither target ever holds
anything else. Both hold as long as no two requests overlap (finding 8), whatever is decided,
activated or deleted between the read and the writes of one. `OnlyProviderApproves`, that an
access request never gives an approval, is stated and not checked: a request whose plan is overtaken by a
withdrawal gives the approval again (finding 7). `AnsweredIsStored`: a request that is answered has stored what it
was asked, so that sending it again changes nothing; it holds whatever
approvals, activations and deletions happen between two writes, and after requests
that were abandoned half-way. `WithdrawnIsRevoked`: at rest, no target grants a
connection whose approval is withdrawn; it needs calls that succeed, handlers that do not compute a
grant at one time (finding 9), and a withdrawal that takes the activation with it
(finding 2). `ApprovedIsGranted`: an approval reaches
Common SSO or is withdrawn or replaced.

## 6. Credential: from an access request to a working credential

Source: in the Portal `lists/AccessRequest.js`, `lists/ServiceAccess.js` and, in
`services/workflow`, `add-client-consumer.ts`, `apply.ts`, `client-credentials.ts`,
`delete-access.ts`, `generate-credential.ts`, `issue-gateway-credential.ts`,
`kong-api-key.ts`, `kong-api-key-replace.ts`, `regenerate-gateway-credential.ts`,
`update-credential.ts` and `validate-access-request.ts`; `services/keystone/service-access.ts`,
`services/kong/consumer-service.ts` and `services/keycloak/client-service.ts`;
`batch/hooks/handleUsernameChange.ts`; and the feeder's `kong/index.js`.

One application asks for one product environment. What it gets is spread over
Kong (consumer, key, ACL group), the issuer (client), the Portal's
GatewayConsumer and its ServiceAccess, which hang together by a name that is
the same in every attempt. An id in the model stands for an attempt, so that
what an earlier one left can be told from what a later one made.

| TLA+ | Code |
| --- | --- |
| `env` | flow and approval setting of the environment |
| `request[r]` | an AccessRequest: isApproved, isIssued, isComplete, its ServiceAccess |
| `stores` | Kong's consumer, its group and its keys, the issuer's client and whether it is enabled; `row`: the Kong consumer the Portal's consumer stands for; `own`: the attempt whose ServiceAccess refers to that row; the ServiceAccess and whether it is active |
| `worker[w]` | one request at work: the steps it has left |
| `Collect`, `CollectSteps` | the credential `NEW` is asked for (`generateCredential`) |
| `Approve`, `Reject`, `Complete` | the updates that `Apply` acts on, decided on the record as it was before |
| `Issue`, `IssueSteps` | `issueGatewayCredential` |
| `Renew`, `ReplaceApiKey`, `FindClient`, `PutClient`, `Relink` | `regenerateCredentials`, `regenerateGatewayCredential`, `UpdateCredentials`: another key, certificate or key set address under the same name |
| `Revoke`, `DeleteSteps` | `DeleteAccess` |
| `Attempt`, `Recovery`, `CleanUp`, `CollectCleanUp` | a call that throws, and what the `catch` around it takes back |
| `Try` | a call whose failure is logged, or whose answer is not looked at |
| `Stop` | a restart of the Portal: a worker goes no further, and nothing is taken back |
| `FeedRead`, `FeedWrite` | the hourly sync of the consumer from Kong |

Every step of a worker may fail, for a reason in the stores (what it makes is
there already, what it needs is not) or for none, `MaxFaults` times; a restart
(`Stop`), between any two calls, counts as one of these, and other requests go on after it. The
deletion of a key both tries and attempts: an answer that is an error is logged and the renewal goes on, a
request that gets no answer throws and the renewal ends there. Bounds and abstractions: the forced sync is one step; nothing
starts between the read and the write of the hourly sync; linking and unlinking
read and write the request in one step; the answer of Kong's create call is not
lost; labels, plugins, secrets, UMA policies, notifications and the deletion of an
application made for the request are left out. A new client secret is a single call at
the issuer and not a step. Keys are told apart by numbers, which are used
again, and one is made only while one is free (`MaxKeys`): three is the key that works,
one that nobody knows of, and a new one. `kong-api-key-only` is in the module and not in the
run: it differs from the other key flow in having no group to set.

Ghosts, in `history`: `justified` (attempts that an approval, or the setting that
none is needed, stands behind), `issued` (attempts of the gateway), `overlapped`
(a handler started while another was at work), `astray` (a handler that acts by
the name met another attempt's credential), `dirty` (a failure of a call that the
code does not look at, or a restart in the middle of a handler).

Properties. `AccessIsJustified`: what is enabled in Kong or at the issuer
has an approval behind it, whatever overlaps or fails, unless `astray`.
`IssuanceIsWhole`: a gateway's issuance leaves everything or nothing, whichever call throws
(neither `dirty` nor `astray`). `IssuedIsInEffect`: a request marked as issued has a working credential,
whichever call throws (neither `dirty` nor `overlapped`).
`EffectIsRevocable`: what works has a ServiceAccess through which it is revoked
(neither `dirty` nor `astray`). `OnlyCurrentKeyWorks` has two parts, for collections, issuances and
renewals that do not overlap each other (finding 11). While nothing is `dirty`, Kong accepts no key but
the one that the ServiceAccess refers to, so that a replaced key is dead. And whatever fails,
also unheard, or is restarted, Kong accepts at most one further key for every such failure: a
renewal that fails adds one key, which no later renewal removes nor adds to.

The guards of the properties name what the code does not cover:

- A sync that read Kong before a consumer was deleted and made again writes the
  old id over the new one (`handleUsernameChange.ts:35`); until the next sync a
  revocation asks Kong to delete a consumer that is gone, logs the error and
  leaves the consumer and, for client credentials, the client.
- The answer to `markActiveTheServiceAccess` is not looked at: when the
  update fails, the credential works and its ServiceAccess says it does not.
- A second collection fails on the consumer that is there and takes back the
  mark of the first, `isIssued`, although its credential works.
- A rejection after an approval sets the flags and takes nothing away.
- `linkCredRefsToServiceAccess`, with which a renewal ends, marks the ServiceAccess active,
  approved or not. `AccessIsJustified` is therefore about what Kong and the issuer
  enable, and not about that mark.
- A renewal of a client's certificate writes the client back as it was read,
  `enabled` included (`client-service.ts:124`): an approval in between is undone at the
  issuer and stays recorded in the Portal.
- When Kong answers the deletion of the old key with an error, that is logged
  (`consumer-service.ts:145`) and the renewal goes on, so that two keys work; no later renewal
  deletes the old one. When the request itself is rejected, the renewal ends and the old key stays,
  the only one. When the creation of the new key fails, none works until the next renewal.
- `linkCredRefsToServiceAccess` does not look at errors (`service-access.ts:514-529`): when it
  fails, or the Portal restarts before it, the new key works and the ServiceAccess
  still names the deleted one. The next renewal deletes that id, in vain, and makes another key;
  from then on two keys work, one of which the Portal does not know. The second part of
  `OnlyCurrentKeyWorks` is about these cases.

## 7. TokenClient: one token, shared by all calls

Source: `provisioner-api/src/clients/oauth.ts`, the client of the Portal's and GWA's
APIs.

| TLA+ | Code |
| --- | --- |
| `cache` | the token kept, with its `expiresAt` |
| `inflight` | `inflight`: the refresh that later callers join (`??=`) |
| `refresh[c]` | the refresh that caller `c` began: loading the key, requesting, answered, settled |
| `key` | `keyPromise`, not read, held or rejected |
| `caller[c]` | a call of the API: waiting for a refresh, or carrying a token |
| `LoopIsFree` | the event loop runs the callers of a settled refresh before it takes the next answer from the network |
| `Tick` | time, in seconds; `MaxLatency` bounds the way of a token to the client, `MaxTransit` that of a call to the API |

Assumed of the environment (`TokenAssumption`): the two latencies together are at
most the buffer of 30 seconds, and a token lives longer than both.

Properties. `ServedIsValid`: no call carries a token that has expired by the time
the API sees it, if the issuer told how long it lives. `SettledIsNotShared`:
nobody joins a refresh that is over, so neither a failure nor an old token is
handed on. `CacheIsNotSetBack`: callers that resume late never put an older token
over a newer one. `CallsAreAnswered`: every call gets its token or an error.

Two observations. A key whose load is rejected stays rejected (`oauth.ts:46`):
every later refresh fails until a restart. And a token whose lifetime the
issuer does not tell is kept for 300 seconds less the buffer, whatever its real
lifetime; `ServedIsValid` leaves such tokens out.

## 8. Namespace: group, permissions and contents

Source: in the Portal `services/workflow/create-namespace.ts`, `create-namespace-sdx.ts` and
`delete-namespace.ts`; in `services/org-groups`, `namespace.ts`, `group-access.ts` and
`org-group-service.ts`; in `services/keycloak`, `group-service.ts` and
`client-policy-service.ts`; `lists/Product.js`, `lists/extensions/Namespace.ts` and
`OrganizationController.ts`.

| TLA+ | Code |
| --- | --- |
| `group` | the Keycloak group of the namespace and its attributes `org` and `org-unit` (one unit), `org-enabled`, `perm-data-plane`, `decommissioned` |
| `authz` | the UMA resource; the permission of organization administrators, by its unit; the permissions of a subsystem's roles |
| `contents` | gateway configuration, products, and consumers with access to them |
| `session[s]` | a request under way and, between its read and its write, the group as it was read |
| `CheckAvailable` ... `Describe` | `CreateNamespace`; `GrantRoles`: `assignSystemRolesToNamespace` for a subsystem |
| `ReadToAssign`, `WriteAssignment`, `Permit` | `assignNamespace` |
| `ReadToUnassign`, `WriteUnassignment`, `Withdraw`, `WithdrawRoles` | `unassignNamespace` |
| `ReadToNotify`, `WriteNotification` | `markNotification`, whose attribute no property is about: it writes the group back |
| `Validate` ... `DeleteResource` | `forceDeleteNamespace` |
| `Interrupt` | a call that fails, or a restart, between any two steps |

Abstractions: an organization and its unit are one value; the gateways of runtime
groups and of organizations as such, the provisioner's policy and the creator's
own scopes are left out; finding a permission and writing it is one step, as is
the deletion of a product with its environments; the groups and policies of units
are there when they are needed. That Keycloak refuses a second resource of a name
and deletes permissions with their resource is taken from how the code uses it. The
switch `force` makes no difference to the model, because without it a delete
only begins in fewer states. Ghosts, in `history`, each for one way in which a property is lost:

- `sdx`: the attributes once said that the gateway is for SDX; `assigned`: a unit was once assigned;
- `lost`: a request wrote the group back although its attributes had changed since it read them;
- `torn`: an assignment or a withdrawal stopped between its two writes, the attributes and the permission,
  or another request wrote between them;
- `early`: a request was served while the creation was still under way;
- `late`: a product, configuration or consumer arrived while a delete was under way.

An overlap or an interruption that does none of this is no excuse: a delete that stops
and is retried, a refused `Permit`, requests that overlap without undoing each other are all covered.

Properties. `NothingOutlives`: whatever stops and is retried, a namespace that
nobody can act on any more holds no product, consumer or configuration (unless `late`).
`DeletedIsMarked`: a deleted namespace stays marked as decommissioned (unless `lost`).
`AssignedIsPermitted`: at rest the permission is that of the unit in the attributes, or none
if no assignment has carried it there yet (unless `lost`, `torn` or `early`).
`OnlyProvisionerDeletesSdx`: no sequence of writes makes a gateway that its attributes call an SDX one deletable
as an ordinary one (unless `lost` or `early`). `RolesOutliveCreation`: a subsystem's roles lose the
namespace only with it, or once it was assigned and unassigned, whatever overlaps or fails.

The exceptions name what the code leaves open:

- The group is read and written back whole. A request that writes back what it read
  before a delete marked the group, or before a creation described it, undoes the mark or the data plane.
- A consumer who gets access between the check and the deletion of the products
  makes that deletion fail; `deleteRecords` does not look at the error, and the
  resource is deleted: the product stays, and nobody may manage it
  (`delete-namespace.ts:140-142` says that this cannot be reached).
- A creation that fails between the resource and the group leaves a name that can
  be neither created (the resource exists) nor deleted ("Namespace not found").
- An assignment that fails after the attributes are written answers "already
  assigned" when it is sent again; unassigning and assigning again repairs it.
- An unassignment that fails after the attributes are written leaves the old unit's
  permission; a later assignment to another unit then fails on it.
- Unassigning an ordinary namespace ends in an error after its work is done,
  because permissions of roles it never had are deleted too. A subsystem's
  gateway, which carries a unit from its creation without a permission, is refused before its
  roles are touched the first time; after an assignment in between they lose
  it.

## 9. GatewaySync: what the Portal records of Kong

Source: the feeder's `kong/index.js`, `index.js`, `utils/transfers.js` and
`utils/portal.js`; in the Portal `batch/feed-worker.ts`, `batch/hooks/handleNameChange.ts`,
`batch/transformations/connectExclusiveList.ts`, `services/keystone/batch-service.ts`,
`services/workflow/delete-gateway-config.ts`, and the lists `GatewayService.js`,
`GatewayPlugin.js` and `Activity.js`.

A product's environment refers to records of services, so that a record that is
removed, or made anew, loses its place there. The feeder matches records by the
id of the service in Kong, and by name when the id has changed.

| TLA+ | Code |
| --- | --- |
| `kong[n]` | the service of a name in Kong, its id and its plugins |
| `services[n]`, `plugins[n]` | the GatewayService with its `extForeignKey` and its list of plugins; the GatewayPlugins by their ids in Kong; `rid` tells a record from one made later |
| `sync[w]` | one `scopedSyncByNamespace` or `sync`: the Kongs left, what was fetched, whether every fetch succeeded, the records to remove |
| `item[w][n]` | one put or deletion of a service: the attempts left and what was read so far |
| `Publish` | a publication (external): service made, deleted, plugin added, plugin removed |
| `FetchServices`, `FetchPlugins`, `FetchFails` | `xfer.copy` of one Kong, `loadProducer`, `findAllPlugins` |
| `FindByName`, `Refer` | `handleNameChange`, before the record is looked up |
| `FindByKey`, `FindChild`, `CreateChild` | `syncRecords` and, for each plugin, `syncListOfRecords` |
| `Same`, `Vanished`, `RemoveChildren` | `connectExclusiveList` |
| `Unchanged`, `Update`, `Create` | the three ways in which `syncRecords` ends |
| `ListGone`, `FindGone`, `RemovePlugins`, `RemoveService` | the cleanup, `deleteRecord` and `beforeDelete` (`DeleteGatewayConfig`) |
| `Refused`, `DeleteAgain` | the retries of `fireAndForget` and `fireAndForgetDeletion` |
| `PutFails`, `DeleteFails`, `Restart` | a call that fails at any point; a restart of the feeder, which keeps nothing |

Several services are put at one time, interleaved step by step. Abstractions: a
service keeps its id until it is deleted; ids are numbered apart for each name;
the pool of five concurrent puts is larger than the instances. Routes go the same way as services and are left
out, as are consumers (see `Credential`), groups and the pages of a fetch. From how the code
uses Keystone it is taken that unique fields are refused a second
time, that a reference to a record that is gone is refused, and that a record that is
deleted disappears from lists that refer to it. `Unchanged` may end in a refusal because fields left
out of the model may have changed. Ghosts: `alone` (no other sync ran since it began)
and `still` (nor was anything published, nor did anything fail); a sync that ended
undisturbed is remembered as `done` until something happens.

Properties. `SyncedIsMirror`: one sync that nothing disturbs puts right whatever
earlier ones left: stale ids, half-written lists of plugins, records of services that are
gone. `OnlyGoneAreRemoved`: a sync that no other overlaps removes no record
that stands for a service Kong has, however much is published
meanwhile and whatever fails. `RemadeKeepsRecord`: a service that was deleted and made again keeps its
record. `PublishedIsRecorded`: once Kong is left alone every service is
recorded with its plugins, for good.

The guards of the properties name what the code leaves open:

- Of two overlapping syncs the one that listed Kong first removes what the other has
  written (section 10).
- A service that is made again while a sync runs loses its record even to a lone sync: the
  sync has seen none of its name, and the record bears an id that is gone.
- A service that is gone from Kong may stay recorded. The periodic sync removes none, the
  post that asks for a sync of the namespace is not repeated, and a sync that
  fetched before the service was deleted may record it again after the cleanup. It stays until the
  next sync of its namespace, so `PublishedIsRecorded` speaks only of
  services that Kong has.

## 10. Where the code and its documents disagree

Each of the first two has a run with the counterexample.

1. `keys_overlap`: a rotate that overlaps another operation drops the key that
   was published in between, although the guide says rotate retains existing keys.
2. `access_withdrawn_active`: withdrawing the approval of a connection that stays
   active posts an apply, which the policy refuses before the grant is
   computed; the gateway and Common SSO keep the service.
The models show more of them when their constants are changed as said here:

3. `KidsAreUnique` of `SdxKeys` without its guard on `qualifier`: a kid that a caller supplies is
   not compared with those of the set (`sdx-keys.ts:650`), while
   `docs/sdx-keys-rotation.md:37-38` wants new kids unique within the keyset.
4. `NothingLeftBehind` of `Connection` with `Patient` FALSE: a delete accepted while an
   apply is under way leaves routing that no record accounts for. `UndisturbedLeavesNothing`
   says that this is the only way.
5. `StatusIsMostRecent` of `Connection` with `Patient` FALSE: overlapping handlers write
   statuses in the order they end, while `OrgConnectionController.ts:142-143` says
   that `provisionerStatus` describes the most recent attempt.
6. `ActiveIsNotDeleted` of `Connection` with two callers and `Patient` FALSE: a record
   activated between `beforeDelete` and the delete is deleted
   (`ConnectionRequest.js:190-199`).
7. `OnlyProviderApproves` of `IntegrationAccess` with `Patient` FALSE, one
   service and one submitter: a reactivation planned before an approval was
   withdrawn writes it back, which `connection-service.ts:134-137` guards against for
   other callers.
8. `ApprovalIsReviewed` with `Patient` FALSE and two submitters: a
   create that was planned before another request's connection was approved
   overwrites its scopes, while `routes/integrationAccess.ts:126` says "Version or scope
   changes require re-approval."
9. `WithdrawnIsRevoked` with two services, `MaxAsked` 2, `WithdrawsInactive` TRUE and one
   version: of two overlapping events of one request the one that listed first
   may publish last.
10. `DeletedIsRevoked` with one service: deleting an approved, inactive connection
   posts no event, so the grant that holds it stays until the next event,
   while `docs/common-sso-partner-api-walkthrough.md:1321-1323` says that a receiver must
   not retain stale access.
11. `OnlyCurrentKeyWorks` of `Credential` with `"renew"` among `Overlaps`: of two overlapping
   renewals each makes a key, and the one that is linked first works from then on
   unknown to the Portal, while
   `e2e/cypress/tests/06-refresh-credential/01-api-key.cy.ts:65` verifies that only
   one API key is set.
12. `RefusedHasAccess` of `Credential` with one worker and `MaxIds` 1: when the sync or the
   ServiceAccess fails after the consumer of an API key was made, nothing takes
   the consumer back, and later requests of the application are refused with "This
   application already has access."
13. `OnlyGoneAreRemoved` of `GatewaySync` without its guard `alone`: of two overlapping
   syncs the one that fetched first removes the record that the other has just
   written, and with it its place in an environment, although
   `feeds/kong/index.js:125` speaks of those "that no longer exist in any Kong".

## 11. Runs, bounds and fairness

| Run | Question | Bounds |
| --- | --- | --- |
| `keys` | every operation and the wipe, for runtime groups and for organizations or subsystems, kids supplied or not | 3 kids, 3 keys, 2 handlers |
| `keys_overlap` | what rotate promises, against an overlapping operation | as above |
| `conn_patient` | one caller that waits; losses, failures and restarts; the agreement | 4 events, 2 records |
| `conn_settles` | one caller that does not wait; no routing without approval, what a delete leaves, and liveness of the status | 2 events, 1 record |
| `conn_race` | two callers that do not wait: an approval is not brought back by a client that resends what it read | 4 events, 2 records; no handler |
| `access_interleaved` | one request over two services, interleaved with decisions, activations, deletions, a new version, failing calls and an event | 2 services, both in one request, one of them with a legacy connection, 2 versions of one of them, 1 event in flight |
| `access_current` | revocation when the approval is withdrawn with the activation and scopes leave the catalog, and liveness of an approval | 2 services, one in each request, 2 versions, 2 events |
| `access_withdrawn_active` | revocation when the approval is withdrawn from an active connection | 1 service, 1 version, 2 events |
| `cred` | one credential through collection, approval, rejection, issuance, renewal, revocation and syncs | 2 workers, 1 request, 2 attempts, 3 keys, 1 fault |
| `token` | cache, refresh and expiry, and that calls are answered | 2 callers, buffer 2, lifetimes 3 and 4, 6 seconds |
| `ns` | creation, assignment and deletion, overlapping and interrupted | 2 sessions, 2 units, one of the data catalogue |
| `sync` | the Portal's records against publications, overlapping syncs and failing calls, and that what is published is recorded | 1 service, 1 Kong, 2 syncs, one of them periodic at times, 2 publications, 3 ids, 2 attempts, 1 fault |

Two handlers are enough for keys, because a handler touches the key set only
once, in its publish: what a third could do between a read and a publish a
second can do by acting twice. Three kids and keys give a set that is full, a
duplicate, and a target with a key to keep. Two events of a connection give an
overlap of an apply and a delete; two records give a row recreated under a
late event; four events give an approval, an activation, a deactivation and
one more change. `MaxEvents` and `MaxIds` are the bounds of `Connection`: when they
are reached, a write that would need another event or row does not happen. What
is proved about `Connection` (section 12) does not depend on them.

In `IntegrationAccess` an event's slot is free again when it has been handled, so
`MaxEvents` bounds only the events in flight. Where callers wait and a request is for one service
(`access_current`, `access_withdrawn_active`) there is one at a time; in `access_interleaved` callers do not wait,
and the event has any of the organizations' and the request's own steps between its own; two
handlers that overlap are left to the proofs and to finding 9. `MaxAsked` bounds the
services of a request, `MaxVersion` the versions of a specification; the second
version is where an approval can be outdated. One scope is enough, because
scopes are compared as a whole: a set is declared, not declared, or different.
`access_interleaved` goes no further (`Watched`) once the provider has decided on more than two
sets of details; and once the second service has its connection no handler goes on, so that the
handlers are watched against every state of one connection and the writes of a request against every state
of both.

In `Credential` two attempts (`MaxIds`) are what it takes for one to find what
another left behind, one fault (`MaxFaults`) leaves any call of any handler undone, and
calls that fail for what they find do so without limit. `Overlaps` says what may
start while a handler is at work: approvals and revocations, which other
people start, overlap everything; a requester does one thing at a time, and so does
who renews. The run goes no further (`Watched`) where handlers have overlapped and, besides,
one met another attempt's credential, an ignored call failed or a restart came: most properties
say nothing there, and it would double the states; what `OnlyCurrentKeyWorks` and `AccessIsJustified` say
there is proved (section 12). `MaxTime`
of `TokenClient` lets a token expire once more after a refresh; the proofs
do not depend on it. `Namespace` counts nothing: its runs are of any length. They go no further
(`Watched`) where something arrived during a delete and, besides, a unit was assigned or an
attribute undone: what arrives concerns neither attributes nor permissions.

In `GatewaySync` services share nothing but their syncs: whether every Kong was fetched, and when the
cleanup begins; so one service meets every order of its own steps. Two
publications delete a service and make it again, with three ids (`MaxIds`) for it and its
plugin. Two attempts instead of three (`Attempts`) let a put be repeated and given up. One of
the two syncs (`Periodic`) may be one of the schedule: two periodic syncs that
overlap do what a periodic sync and one of the namespace do before its cleanup.

Handlers, public keys, workers and sessions are interchangeable and declared
symmetric in the runs of `SdxKeys`, `Credential` and `Namespace`; no liveness run uses
symmetry.

Fairness: the `FairSpec` of `Connection` asks that a handler that can take a step
does (weak fairness of each event's handler). Each of its steps is the return or
the failure of a call, and the run-time runs continuations. Callers get no
fairness. The run of `PendingSettles` excludes restarts and three failing status
writes, since either does leave a status pending; `conn_patient` includes both.
The `FairSpec` of `IntegrationAccess` asks the same of handlers and of a request
that has been accepted; nobody is made to submit, approve or activate. The run
of `ApprovedIsGranted` excludes failing calls, because an event that fails is
not sent again and the grant then waits for the next one. The `FairSpec` of
`TokenClient` asks that each step of a call or of a refresh is taken: the
event loop goes on, and the network answers or times out. The `FairSpec` of
`GatewaySync` asks that a sync that has begun takes its steps, and that the schedule begins one
again and again; no publication's own sync is counted on, since its post may be lost. `Credential` and `Namespace`
have no fairness: their handlers may stop anywhere, and their properties
are about what is left then.

## 12. What is proved

`SdxKeysProofs` holds four theorems, for any sets of kids, keys and handlers and
every qualifier, under `KeysAssumption` (indexed kids are distinct, supplied kids
are kids):

- `TypeCorrect`: `Spec => []TypeOK`;
- `SignerUnambiguous`: `Spec => []SignerIsUnambiguous`. The invariant must speak of
  the handlers as well as of the published set: what a handler is about to
  publish was computed from a set that may be gone, so only the fact that every
  pending set is itself unambiguous makes the step `Publish` preserve it. It rests
  on `AnswersKeepMaterialsOnce` (each answer of an operation to an unambiguous set is
  unambiguous) and `StepShape` (a step publishes a pending set, drops it, or
  prepares an answer to the current one);
- `NeverEmptiedByTargetedOperations`: `Spec => OnlyWipeEmpties`, from the invariant
  that a handler with an empty set pending is idle or a wipe
  (`AnswersNotEmpty`);
- `KidsUnique`: `Spec => []KidsAreUnique`, along the same lines
  (`AnswersKeepKidsOnce`): a fresh kid is not among those of the set it was chosen
  for, and it is that set, plus the fresh kid, which is published.

`ConnectionProofs` holds six theorems, for any callers and any `MaxEvents` and
`MaxIds`, under `ConnectionAssumption` alone (the bounds are natural numbers, the
switches Booleans), so for every combination of callers that wait or do not,
lost events, failed status writes and restarts:

- `TypeCorrect`: `Spec => []TypeOK`. It needs `HasNext`: a handling that dispatches
  has one of the three resource sets left;
- `NothingRoutedUngranted`: `Spec => []RoutedOnlyIfGranted`. Routing is published by a
  handler long after the approval was read, so the invariant (`Granting`) follows
  the approval on its way: whoever is about to write one is the service's
  organization (`WritersMayApprove`), an approved record is a granted one
  (`RecordIsGranted`), so is one whose approval an event in flight carries
  (`EventsAreGranted`), and an apply that dispatches carries an approval
  (`DispatchersPassed`). The lemmas say what each side does to these:
  `WriteGrants` for a write of the Portal, `HandlerKeeps` and `HandlerRoutes` for a
  handler;
- `OnlyGrantedByServiceOrg`: `Spec => OnlyServiceOrgGrants`, from the same invariant:
  the only step that makes a record approved is a write, and `WriteGrants` names
  its author;
- `ImplementsAgreement`: `Spec => KeepsAgreement`. Each step of `Connection` is a
  step of `Agreement` under the mapping or leaves its variables alone. The step of
  a dispatch is a `Route` only because of `Granting`; that a row is closed without
  routing, and that nobody else's is routed, when callers wait, needs an invariant about
  who is under way: a handler or a caller, never both;
- `DeletedLeavesNothing`: `Spec => UndisturbedLeavesNothing`, for callers that need not wait. Every record but
  the one in force is vacant (`Vacated`, `Vacant`): nothing is configured for it and no event of it is in
  flight, so that nothing will be; and what was counted for a delete is still so when the row goes, as
  long as no event of that record is under way in between. That callers wait implies it: the lemma
  `PatientLeavesNothing` gives `NothingLeftBehind` then, for any bounds;
- `ProvisionedRouted`: when callers wait, `ProvisionedIsRouted` holds through lost events,
  failed batches and restarts. `Reporting` adds to that invariant what a status is worth:
  events are used in order, so that the one in flight is the last; it serves the record
  as it is, and has routed what it goes on from unless it remembers a failure
  (`Serving`); a "provisioned" that is of the last event is true, and a write
  makes it one of an earlier event (`WriteReporting`). Callers that do not wait can have
  a delete in flight that unroutes after the status, so the assumption is needed.

`TokenClientProofs` holds four, under `TokenAssumption`, for any callers, lifetimes and
times:

- `TypeCorrect`; `SettledNotShared`, from the invariant `OneIsOpen` that the refresh in
  flight is under way and no other is;
- `ServedValid`: the buffer is spent on the way. The invariant says how old an
  answer (`AnswersAreYoung`) and a settled token that is taken (`TakenAreYoung`)
  can be, until when a cached token is kept (`KeptInTime`), and how long a call carries
  it (`UsedInTime`);
- `CacheNotSetBack`, from `Newer`: whatever somebody still waits for is not older
  than what is cached.

`NamespaceProofs` holds six, one for each property of `Namespace`, for any units and any
number of overlapping requests, under `NamespaceAssumption` (units of the
catalogue are units, and `None` is none). A request writes back what it read some
steps ago, so each part of the invariant speaks of what is read as well as of
what is there:

- `TypeCorrect` needs `Reading`: the group that is written back exists;
- `NothingOutlivesDeletion`, from `Emptied`: what a delete has passed stays empty unless
  something came late, and without the resource nothing is there. A creation
  in a namespace that was deleted and is made again has nothing to find;
- `DeletedMarked`, from `Marking`: the mark is there before the resource goes, and stays there,
  as long as nobody writes back attributes that changed after he read them (`lost`). What overlaps,
  stops and is repeated is not restricted otherwise;
- `AssignedPermitted`, from `Agreeing`: attributes and permission agree but for the one step between the
  two writes, which one request takes at a time unless the history is `torn`; a creation that nobody
  overlaps (`Solitary`) leaves no permission;
- `SdxDeletedByProvisioner`, from `Known`: once the attributes say that a gateway is for SDX they go on saying
  so, and a delete that has passed its check is the provisioner's, interrupted requests or not. `Made` says
  the reverse, that only such a gateway is taken for one;
- `RolesOutlive`, from `Permitting`: a permission of a unit, which the roles' are
  deleted after, comes from an assignment.

`IntegrationAccessProofs` holds five, for any services, scopes, versions, submitters and
events, with failing calls, deletions and publications of specifications anywhere
between the writes of a request. `AccessAssumption` asks that services are finitely many (a
request is a list) and that bounds and switches have their types. The code promises
no more than `TypeCorrect` for requests that overlap without any order, so every other
theorem names the condition it holds under:

- `TypeCorrect`, without more. Its lemmas say what a plan is: `PlannedShape`, that
  every service of a request that does not stand already is written once;
- `ApprovalReviewed`, `GrantReviewed` and `AnsweredStored`, when requests do not overlap
  (`Serial`: there is one submitter, or callers wait). The invariant `Accounted` follows
  what was decided on from the record to the gateway: a write that is still planned
  creates its connection or repeats an approval of what was reviewed
  (`Promised`), a service that is not in the plan any more has been stored (`Stored`),
  an event holds only what was reviewed when it was listed (`EventsReviewed`), and what
  was decided on is not forgotten (`ReviewedGrows`). The organizations may decide and
  delete between two writes of a request; they keep the invariant because they
  write the columns of the decision only (`RecordsKeepRequests`). A second request
  would not: its plan would be made from scopes that the first is about to replace;
- `WithdrawnRevoked`: `Spec /\ []OneComputes /\ [][WithdrawsTogether]_vars => []WithdrawnIsRevoked`, when calls
  succeed (`Reliable`). The callers need not wait: any submitters' requests over several services,
  decisions, deletions and publications overlap, and any number of events wait and
  are started in any order. What is assumed of a behaviour is that no two handlers compute a grant at
  one time (finding 9 is what happens otherwise) and that an approval is withdrawn together with the
  activation (the run `access_withdrawn_active`). In `Revoking`, whatever a target holds without
  being approved is about to be replaced: a delete event of that connection has still to list
  (`Expects`), or one has listed and not yet published to this target (`Replaces`). The grant that a
  handler has computed may become stale under way, by a decision or by a request that asks for other scopes; then
  the step that made it stale has posted the event that is expected. A request that creates a
  connection makes it neither approved nor active (`Creating`), so what is granted of a connection
  that was deleted and asked for again is stale until the delete event that its creation posts
  has been handled.

`GatewaySyncProofs` holds four, for any services, published to any Kongs, any number of syncs, attempts,
publications and faults, under `SyncAssumption` (syncs are finitely many, so
that there is always a record's number that nobody holds; `InUseFinite`,
`UnusedIsNew`):

- `TypeCorrect`, from `Orderly`. What a put will write was read some steps before, so
  it says of each item how far it is and in which stage of its sync (`Staged`),
  and of each service that ids were given by Kong and that the list of a record is
  among the plugins' records (`Whole`);
- `OnlyGone`, from `Careful`. A sync that has fetched a service's Kong
  will not come to remove what Kong has now: the record has the id that was seen, or
  an id that is not Kong's (`Compared`). Publications keep this because ids are not
  given twice, puts because a lone sync writes the ids it has seen; a sync that
  overlaps breaks it, and must tell (`Lone`). That a record is removed only in the
  last step of a deletion that has found it is `RemovedByDeletion`;
- `MirrorsKong`, from `Faithful`. A sync that nothing has disturbed has seen each service of the
  Kongs it has fetched as it is, and an item says how much of the record is
  right already (`Follows`, `Matches`): a renamed id, the list of plugins that has
  grown to the records of those put so far, what is still to be removed
  (`Emptied`). At the end nothing is left to put, whatever the record was before;
- `KeepsRemade`, from both: at the deletion the record has the id that was listed, which
  is not the id that was seen; if Kong had the service, the record would have
  that one.

`CredentialProofs` holds three, and `CredentialEffectProofs`, which extends it, the last
three, for any number of workers, requests, attempts, keys and faults, in any flow,
under `CredentialAssumption`, and all but `KeysAreCurrent` and `IssuancesAreWhole`
whatever may overlap (`IssuedIsInEffect` itself speaks of what did not). A worker
carries the list of the steps it has left, so its type says little; the proofs use what
the list can be:

- `TypeCorrect`. `Follows` says which step may come after which in each program, and a list is
  `Chained` when each step follows the one before (`JoinPaths`, `TailChained`); every program
  is chained (`CollectPath`, `IssuePath`, `RenewPaths`, `DeletePath`), and so is what a worker does
  once a call has thrown (`RecoveryPath`). With it a worker remembers what its
  step will use (`Carries`), so that whatever is written is of its type: an approval
  has a request, a relink a key that was made, an enabling a consumer. From there on the
  lists are not looked at: the lemmas from `AttemptMoves` to `AccessMoves` say of each step
  what it writes, and at which step its worker is then;
- `AccessJustified`. `Justified` follows the approval on its way to Kong or the issuer, several calls
  later: a worker that is about to enable a credential has one that is justified, and the
  consumer it has looked up stands for it or `astray` tells (`WorkerJustified`); one that
  will write a client back as it was enabled has read a justified one; and whoever
  approves a request makes justified what it is linked to, also when that is linked
  only after the approval was begun (`Approving`, `JustifiedAfter`);
- `KeysAreCurrent`, under `MakersAlone`: what collects, is issued to a gateway or renews begins
  when nothing else is at work, while approvals, rejections, cancellations, revocations and the
  sync may begin at any time, also in the middle of these. Finding 11 is what happens
  without it, and the run `cred` is an instance of it. `Order` and `Changes` say of every step
  what may follow it and what it may write at most, so that an invariant is carried over any
  step at once; `Goes` adds the steps that are `Silent`, a failure that nobody hears of or a restart,
  after which a worker may be anywhere further on or gone. The two parts of the property have an
  invariant each. The first one, `Sound`, ends with a silent step (`dirty`), as that part does: only one worker makes or
  renews (`OneMaker`); the number of an attempt is nobody else's until its ServiceAccess is there
  (`Distinct`); the Portal's consumer goes with the Kong consumer of the same attempt, unless
  somebody who deletes the ServiceAccess has taken it back (`Owned`); and then Kong
  has no key but the one referred to, or a renewal is between the deletion of the old one and
  the new reference and knows which one (`Keyed`). A deletion that begins in the middle of a
  renewal is why each of these is said of every step and not only at rest. The second one, `Counted`,
  goes on through silent steps: while the ServiceAccess and its Kong consumer are there, Kong has at most as many
  keys beyond the referred one as there were failures; a renewal that is about to make a key has at
  most that many keys in all, and one that is about to link at most that many beyond the one it made
  (`CountedBy`). A key that is not deleted, or a link that is not written, costs a failure (`CountedSilent`);
  a renewal that then goes to delete a key long dead costs none (`CountedMover`);
- `AccessCanBeRevoked`, whatever overlaps: two issuances at once, a sync in the middle of one,
  a renewal that writes a client back while it is revoked. What is in Kong's group, or enabled
  at the issuer, has its consumer and its ServiceAccess in the Portal (`Covered`), or a worker that
  deletes it in Kong or at the issuer is one call away (`KongHeld`, `ClientHeld`). So that
  this is so when something is enabled, a worker that has looked up a consumer and
  will enable it, or has read an enabled client and will write it back, keeps that this
  holds if what it has read is still there (`HeldBy`), and it cannot have read an attempt that
  is only made later (`Unseen`). `Effects` says of every step what it does to the group and the
  client, and what it must have read to go on where it goes. Only the parts of
  the invariant of `KeysAreCurrent` that need no hypothesis are used (`Tracked`). A handler that
  meets another attempt's credential ends it (`astray`), as does a failure that nobody hears of, or a restart;
- `IssuancesAreWhole`, under `MakersAlone` again: whatever is approved, rejected, cancelled or revoked
  while the gateway issues, nothing of an issuance that failed stays. For every attempt
  that the gateway began, at any time: its consumer in Kong and its client have a ServiceAccess, or the
  issuance is at a step that makes or takes back just these, or somebody is deleting them
  (`KongWhole`, `ClientWhole`); its ServiceAccess is enabled and active, or the issuance has still to
  enable or activate it, or somebody is about to delete its consumer (`Serves`); and a renewal that
  has read the client before it was enabled, and will write it back disabled, only exists when
  somebody is (`AccessWhole`). While a gateway issues no other ServiceAccess exists, so nobody deletes, and
  who deletes later deletes this one (`Issuers`); no request refers to it, so no approval or
  rejection touches it (`Known`). The cleanup of the `catch` blocks is what `IssueGoes` is about: which
  step fails decides what is taken back, and a client that was not registered by this issuance is never
  the one it deletes;
- `IssuedWorking`, for every flow and every call that throws. The property is about what does not
  overlap, so the invariant has one worker at work (`OneAtWork`), and says what it has still to do
  to its request. What is linked to a request that is marked as issued works (`Works`), or the worker
  of an approval or of the end of a collection is enabling it, and takes the mark back in its
  `catch` if it cannot (`Deciding`); a request is marked as complete just when it is marked as issued,
  unless a rejection is under way (`Rejecting`), which is why an update that finds nothing to decide
  finds what works (`Reported`). What a worker has read of its request is still so at each
  of its steps (`Updates`); and while one makes or deletes a credential, nothing is marked as
  issued (`Clears`): a consumer can only be made in Kong when there is none, so that nothing
  worked before, and a deletion begins with the requests. A renewal writes a client back as
  enabled as it is. `RequestEffects` and `UpdateGoes` say of every step what it does to the
  requests and where an update goes from it. Of the other theorems only `Tracked` is used.

Every safety property that a run checks is thus stated by a theorem. Only checked by TLC are
the four liveness properties (`PendingSettles`, `CallsAreAnswered`, `PublishedIsRecorded` and
`ApprovedIsGranted`): the prover has no rules for fairness and ENABLED, nor for
inductions over data.

## 13. What is not modelled

The contents of resources (upgrade settings, the managed R1 settings and the
Cedar rules over them) are left to the unit tests of the policies: the model
keeps of the policy that R1 refuses an apply that is not approved. The preview and diff
actions write nothing. Of the consumer access shared by all connections of a client
the grant is modelled in `IntegrationAccess`, the ServiceAccess record is not. Of the
API credentials, controls (plugins, roles, scopes) and labels are not modelled, as
section 6 says.

Of the batch sync `GatewaySync` has child lists and the deletion of records, and `Connection`
and `Credential` have what their records need; exclusive ownership, and the
transformations of datasets, products, drafts and environments, are not modelled. Of the feeder the syncs of
services, plugins and a consumer are modelled; routes repeat services, and the
syncs of groups, Prometheus and CKAN are left out. The members of organization and system groups are
replaced as a whole by one request, and are left out of `Namespace`. Checkpointed
tasks (`tasked.ts`) are not in use: nothing adds a task to a chain. The authorization matrix
is evaluated on one request without state. Notifications and the activity's
text carry no state. The front end, the log-in proxy, charts and tests
keep no state the servers rely on.
