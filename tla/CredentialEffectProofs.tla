----------------------- MODULE CredentialEffectProofs -----------------------
(***************************************************************************)
(* What is proved about Credential of what gives access: that it can be       *)
(* revoked, that a gateway's issuance is whole, and that what a request is     *)
(* marked as issued for is in effect.                                       *)
(***************************************************************************)
EXTENDS CredentialProofs

-----------------------------------------------------------------------------
(***************************************************************************)
(* What a step does to what gives access, to Kong's group and to the client   *)
(* at the issuer, and where a worker goes on.                               *)
(***************************************************************************)

GroupEffects(w) ==
    LET s == Step(w) IN
    /\ stores'.acl =>
          /\ stores'.kong = stores.kong
          /\ \/ stores.acl
             \/ s = "enable" /\ Acl /\ stores.kong # None /\ stores.kong = worker[w].consumer
    /\ stores.acl /\ ~stores'.acl => stores'.kong # stores.kong

ClientEffects(w) ==
    LET s == Step(w) IN
    /\ \/ stores'.client = stores.client
       \/ /\ s = "client" /\ Step(w)' = "consumer"
          /\ stores.client = None /\ stores'.client = Own(w) /\ ~stores'.enabled
       \/ s \in {"unclient", "cleanClient"} /\ stores'.client = None
    /\ s \in {"unclient", "cleanClient"} => stores'.client = None
    /\ s = "client" /\ Step(w)' = "consumer" => stores'.client = Own(w)
    /\ stores'.enabled /\ ~stores.enabled =>
          \/ s = "enable" /\ OAuth /\ (history'.astray \/ stores.client = Own(w))
          \/ s = "put" /\ worker[w].seen /\ stores.client = worker[w].consumer
    /\ stores.enabled /\ ~stores'.enabled =>
          \/ stores'.client # stores.client
          \/ s = "put" /\ ~worker[w].seen /\ stores.client = worker[w].consumer
    /\ s = "enable" /\ Step(w)' = "activate" => IF OAuth THEN stores'.enabled ELSE stores'.acl

ActiveEffects(w) ==
    /\ stores.active /\ ~stores'.active => stores'.access # stores.access
    /\ Step(w) = "activate" /\ stores.access = Own(w) => stores'.active

(* What it has read.                                                         *)
Reads(w) ==
    LET s == Step(w)  t == Step(w)'  rec == worker'[w] IN
    /\ s = "details" /\ t \in {"enable", "activate"} =>
          /\ rec.id # None /\ HasConsumer(rec.id) /\ rec.consumer = stores.row
          /\ history'.astray \/ stores.row = rec.id
    /\ s = "consult" /\ t \in {"enable", "activate"} =>
          /\ rec.id = Own(w) /\ rec.consumer = stores.row /\ stores.row # None
          /\ history'.astray \/ stores.row = Own(w)
    /\ s = "details" /\ t # "rest" =>
          rec.id = worker[w].id \/ \E r \in Requests : rec.id = request[r].access
    /\ t = "svc" => \/ s = "details" /\ rec.id = stores.access /\ rec.id # None
                    \/ worker[w].kind = "issue"
    /\ t = "enable" => s \in {"details", "consult"}
    /\ t = "put" => rec.seen = stores.enabled /\ rec.consumer = stores.client
    /\ s = "unkong" /\ stores.kong = worker[w].consumer /\ OAuth => t = "unclient"
    /\ s = "svc" /\ stores.access = Own(w) => t = "unrequest"
    /\ s = "unrequest" /\ worker[w].consumer # None => t = "unrow"

(* How one follows the other in the gateway's issuance.                      *)
IssueGoes(w) ==
    LET s == Step(w)  t == Step(w)' IN
    worker[w].kind = "issue" =>
    /\ s = "client" => t \in {"consumer", "rest"}
    /\ s = "consumer" =>
          \/ t \in {"key", "row"}
          \/ stores'.kong = stores.kong /\ t = (IF OAuth THEN "cleanClient" ELSE "rest")
    /\ s = "key" => t \in {"row", "cleanRow"}
    /\ s = "row" => t \in {"sync", "cleanRow"}
    /\ s = "sync" => t \in {"access", "cleanOwn"}
    /\ s = "access" => t \in {"consult", "cleanOwn"}
    /\ s \in {"cleanRow", "cleanOwn"} => t = "cleanKong"
    /\ s = "cleanKong" => t = IF OAuth THEN "cleanClient" ELSE "rest"
    /\ s = "consult" => t = FirstOfSetup \/ t = "svc"
    /\ s = "enable" => t \in {"activate", "svc"}
    /\ s = "activate" => t = "resync"
    /\ s = "resync" => t \in {"rest", "svc"}

Effects(w) ==
    /\ GroupEffects(w) /\ ClientEffects(w) /\ ActiveEffects(w) /\ Reads(w) /\ IssueGoes(w)

(* Where a worker is when a call went well, or threw.                        *)
LEMMA Lands ==
    ASSUME Typed, NEW w \in Workers, NEW rec \in Recs, NEW s, Went(w, rec, s)
    PROVE  /\ Follows(worker[w], s, Step(w)')
           /\ Step(w)' # "rest" => /\ worker'[w].id = rec.id /\ worker'[w].kind = rec.kind
                                   /\ worker'[w].consumer = rec.consumer
                                   /\ worker'[w].seen = rec.seen
<1>1. PICK t : Follows(worker[w], s, t) /\ Moves(w, rec, t)
  BY DEF Went
<1>2. QED
  BY <1>1, MovesTo, TypedParts

(* A step that throws leaves the stores as they are.                       *)
LEMMA EffectsThrown ==
    ASSUME Typed, NEW w \in Workers, NEW s \in Attempted, Step(w) = s, Throws(w, s)
    PROVE  Effects(w)
<1>1. Step(w)' = FirstOfRecovery(worker[w].kind, s) /\ UNCHANGED stores
  BY AfterMove, TypedParts DEF Throws
<1>2. PICK kind, t : kind = worker[w].kind /\ t = Step(w)'
  OBVIOUS
<1>3. t \in {"rest", "cleanClient", "cleanRow", "cleanOwn", "svc", "unissue"}
  BY <1>1, <1>2 DEF FirstOfRecovery
<1>4. s \notin {"activate", "unclient", "cleanClient", "unkong", "svc", "cleanRow", "cleanOwn",
                "cleanKong", "unrequest"}
  BY DEF Attempted
<1>5. GroupEffects(w) /\ ClientEffects(w) /\ ActiveEffects(w)
  BY <1>1, <1>2, <1>3, <1>4 DEF GroupEffects, ClientEffects, ActiveEffects
<1>6. Reads(w)
  <2>1. t = "svc" => kind = "issue"
    BY <1>1, <1>2 DEF FirstOfRecovery
  <2>2. t # "rest" => worker'[w].id = worker[w].id
    BY <1>1, <1>2, AfterMove, TypedParts DEF Throws
  <2>3. QED
    BY <1>2, <1>3, <1>4, <2>1, <2>2 DEF Reads
<1>7. IssueGoes(w)
  BY <1>1, <1>2, <1>4 DEF IssueGoes, FirstOfRecovery
<1>8. QED
  BY <1>5, <1>6, <1>7 DEF Effects

(* A step that leaves those alone.                                           *)
LEMMA EffectsOnward ==
    ASSUME Typed, NEW w \in Workers, NEW s, Step(w) = s, Follows(worker[w], s, Step(w)'),
           s \notin {"client", "enable", "details", "consult", "find", "svc"},
           s = "unkong" => (stores.kong = worker[w].consumer /\ OAuth => Step(w)' = "unclient"),
           GroupEffects(w), ActiveEffects(w),
           s \in {"put", "unclient", "cleanClient"} => ClientEffects(w),
           s \notin {"put", "unclient", "cleanClient"} =>
              stores'.client = stores.client /\ stores'.enabled = stores.enabled
    PROVE  Effects(w)
<1>1. PICK t, rec : t = Step(w)' /\ rec = worker[w] /\ Follows(rec, s, t)
  OBVIOUS
<1>2. t # "put"
  BY <1>1 DEF Follows, Deleting
<1>3. Reads(w)
  <2>1. s = "unrequest" /\ rec.consumer # None => t = "unrow"
    BY <1>1 DEF Follows
  <2>2. t # "svc" /\ (t = "enable" => s \in {"details", "consult"})
    BY <1>1 DEF Follows, Deleting
  <2>3. QED
    BY <1>1, <1>2, <2>1, <2>2 DEF Reads
<1>4. ClientEffects(w)
  BY DEF ClientEffects
<1>5. IssueGoes(w)
  BY <1>1 DEF IssueGoes, Follows, FirstOfSetup
<1>6. QED
  BY <1>3, <1>4, <1>5 DEF Effects

(* The calls whose failure is thrown.                                        *)
LEMMA EffectsCalled ==
    ASSUME Typed, NEW w \in Workers, NEW s \in Attempted, NEW able, NEW new,
           Called(w, s, able, new),
           ASSUME able, stores' = new, history' = history, Follows(worker[w], s, Step(w)')
           PROVE  Effects(w)
    PROVE  Effects(w)
<1>1. CASE Throws(w, s)
  BY <1>1, EffectsThrown DEF Called
<1>2. CASE able /\ stores' = new /\ Went(w, worker[w], s) /\ UNCHANGED <<request, history>>
  <2>1. Follows(worker[w], s, Step(w)')
    BY <1>2, Lands, TypedParts
  <2>2. QED
    BY <1>2, <2>1
<1>3. QED
  BY <1>1, <1>2 DEF Called

(* The calls of that kind.                                                 *)
LEMMA EffectsCalling ==
    ASSUME Typed, CredentialAssumption, NEW w \in Workers,
           \/ RegisterClient(w) \/ CreateKongConsumer(w) \/ AddConsumerRow(w)
           \/ ForceSync(w) \/ AddServiceAccess(w) \/ PutClient(w)
    PROVE  Effects(w)
<1>0. StoresTyped /\ worker[w] \in Recs
  BY TypedParts
<1>1. CASE RegisterClient(w)
  <2>1. Called(w, "client", stores.client = None,
               [stores EXCEPT !.client = Own(w), !.enabled = FALSE])
    BY <1>1, CallsMove
  <2>2. Step(w) = "client" /\ "client" \in Attempted
    BY <2>1 DEF Called, Attempted
  <2>3. ASSUME stores.client = None, stores' = [stores EXCEPT !.client = Own(w), !.enabled = FALSE],
               Follows(worker[w], "client", Step(w)')
        PROVE  Effects(w)
    <3>1. Step(w)' = "consumer"
      BY <2>3 DEF Follows, Deleting
    <3>2. /\ stores'.client = Own(w) /\ ~stores'.enabled
          /\ stores'.acl = stores.acl /\ stores'.kong = stores.kong
          /\ stores'.active = stores.active
      BY <1>0, <2>3 DEF StoresTyped
    <3>3. GroupEffects(w) /\ ActiveEffects(w)
      BY <2>2, <3>2 DEF GroupEffects, ActiveEffects
    <3>4. ClientEffects(w)
      BY <1>0, <2>2, <2>3, <3>1, <3>2 DEF ClientEffects, StoresTyped
    <3>5. Reads(w) /\ IssueGoes(w)
      BY <2>2, <3>1 DEF Reads, IssueGoes
    <3>6. QED
      BY <3>3, <3>4, <3>5 DEF Effects
  <2>4. QED
    BY <2>1, <2>2, <2>3, EffectsCalled
<1>2. ASSUME NEW s, NEW able, NEW new, Called(w, s, able, new),
             s \in {"consumer", "row", "access", "put", "sync", "resync"},
             ASSUME able, stores' = new, Step(w) = s
             PROVE  /\ GroupEffects(w) /\ ActiveEffects(w)
                    /\ s = "put" => ClientEffects(w)
                    /\ s # "put" => /\ stores'.client = stores.client
                                    /\ stores'.enabled = stores.enabled
      PROVE  Effects(w)
  <2>1. Step(w) = s /\ s \in Attempted
    BY <1>2 DEF Called, Attempted
  <2>2. ASSUME able, stores' = new, Follows(worker[w], s, Step(w)') PROVE Effects(w)
    BY <1>2, <2>1, <2>2, EffectsOnward
  <2>3. QED
    BY <1>2, <2>1, <2>2, EffectsCalled
<1>3. CASE CreateKongConsumer(w)
  <2>1. ASSUME stores.kong = None, stores' = [stores EXCEPT !.kong = Own(w), !.acl = FALSE],
               Step(w) = "consumer"
        PROVE  /\ GroupEffects(w) /\ ActiveEffects(w)
               /\ stores'.client = stores.client /\ stores'.enabled = stores.enabled
    <3>1. /\ stores'.client = stores.client /\ stores'.enabled = stores.enabled
          /\ ~stores'.acl /\ stores'.active = stores.active
          /\ ~stores.acl
      BY <1>0, <2>1 DEF StoresTyped
    <3>2. QED
      BY <2>1, <3>1 DEF GroupEffects, ActiveEffects
  <2>2. Called(w, "consumer", stores.kong = None, [stores EXCEPT !.kong = Own(w), !.acl = FALSE])
    BY <1>3, CallsMove
  <2>3. QED
    BY <1>2, <2>1, <2>2
<1>4. CASE AddConsumerRow(w)
  <2>1. ASSUME stores' = [stores EXCEPT !.row = Own(w), !.own = Own(w)], Step(w) = "row"
        PROVE  /\ GroupEffects(w) /\ ActiveEffects(w)
               /\ stores'.client = stores.client /\ stores'.enabled = stores.enabled
    <3>1. /\ stores'.client = stores.client /\ stores'.enabled = stores.enabled
          /\ stores'.acl = stores.acl /\ stores'.active = stores.active
          /\ stores'.kong = stores.kong
      BY <1>0, <2>1 DEF StoresTyped
    <3>2. QED
      BY <2>1, <3>1 DEF GroupEffects, ActiveEffects
  <2>2. Called(w, "row", stores.row = None, [stores EXCEPT !.row = Own(w), !.own = Own(w)])
    BY <1>4, CallsMove
  <2>3. QED
    BY <1>2, <2>1, <2>2
<1>5. CASE AddServiceAccess(w)
  <2> DEFINE new == [stores EXCEPT !.access = Own(w), !.active = FALSE, !.key = worker[w].key]
             able == stores.access = None /\ stores.own = Own(w)
  <2>1. ASSUME able, stores' = new, Step(w) = "access"
        PROVE  /\ GroupEffects(w) /\ ActiveEffects(w)
               /\ stores'.client = stores.client /\ stores'.enabled = stores.enabled
    <3>1. /\ stores'.client = stores.client /\ stores'.enabled = stores.enabled
          /\ stores'.acl = stores.acl /\ ~stores.active
          /\ stores'.kong = stores.kong
      BY <1>0, <2>1 DEF StoresTyped
    <3>2. QED
      BY <2>1, <3>1 DEF GroupEffects, ActiveEffects
  <2>2. Called(w, "access", able, new)
    BY <1>5, CallsMove
  <2> HIDE DEF new, able
  <2>3. QED
    BY <1>2, <2>1, <2>2
<1>6. CASE PutClient(w)
  <2>1. ASSUME stores.client = worker[w].consumer,
               stores' = [stores EXCEPT !.enabled = worker[w].seen], Step(w) = "put"
        PROVE  GroupEffects(w) /\ ActiveEffects(w) /\ ClientEffects(w)
    <3>1. /\ stores'.client = stores.client /\ stores'.enabled = worker[w].seen
          /\ stores'.acl = stores.acl /\ stores'.active = stores.active
          /\ stores'.kong = stores.kong
      BY <1>0, <2>1 DEF StoresTyped
    <3>2. QED
      BY <2>1, <3>1 DEF GroupEffects, ActiveEffects, ClientEffects
  <2>2. Called(w, "put", stores.client = worker[w].consumer,
               [stores EXCEPT !.enabled = worker[w].seen])
    BY <1>6, CallsMove
  <2>3. QED
    BY <1>2, <2>1, <2>2
<1>7. CASE ForceSync(w)
  <2>1. ASSUME NEW id, stores' = Synced(id), Step(w) \in {"sync", "resync"}
        PROVE  /\ GroupEffects(w) /\ ActiveEffects(w)
               /\ stores'.client = stores.client /\ stores'.enabled = stores.enabled
    <3>1. /\ stores'.client = stores.client /\ stores'.enabled = stores.enabled
          /\ stores'.acl = stores.acl /\ stores'.active = stores.active
          /\ stores'.kong = stores.kong
      BY <1>0, <2>1 DEF StoresTyped, Synced
    <3>2. QED
      BY <2>1, <3>1 DEF GroupEffects, ActiveEffects
  <2>2. \/ Called(w, "sync", TRUE, Synced(Found(Own(w))))
        \/ Called(w, "resync", TRUE, Synced(Found(worker[w].consumer)))
    BY <1>7, CallsMove
  <2>3. CASE Called(w, "sync", TRUE, Synced(Found(Own(w))))
    BY <1>2, <2>1, <2>3
  <2>4. CASE Called(w, "resync", TRUE, Synced(Found(worker[w].consumer)))
    BY <1>2, <2>1, <2>4
  <2>5. QED
    BY <2>2, <2>3, <2>4
<1>8. QED
  BY <1>1, <1>3, <1>4, <1>5, <1>6, <1>7

(* Those whose failure is logged.                                           *)
LEMMA EffectsTried ==
    ASSUME Typed, NEW w \in Workers, NEW s, NEW able, NEW new, Tried(w, s, able, new),
           s \notin {"client", "enable", "details", "consult", "find", "svc", "unkong", "put"},
           ASSUME (able /\ stores' = new) \/ (~able /\ stores' = stores), Step(w) = s
           PROVE  /\ GroupEffects(w) /\ ActiveEffects(w)
                  /\ s \in {"unclient", "cleanClient"} => ClientEffects(w)
                  /\ s \notin {"unclient", "cleanClient"} => /\ stores'.client = stores.client
                                                             /\ stores'.enabled = stores.enabled
    PROVE  history'.dirty \/ Effects(w)
<1>1. Step(w) = s /\ Follows(worker[w], s, Step(w)')
  BY Lands, TypedParts DEF Tried
<1>2. CASE (able /\ stores' = new) \/ (~able /\ stores' = stores)
  BY <1>1, <1>2, EffectsOnward
<1>3. CASE history' = [history EXCEPT !.dirty = TRUE]
  BY <1>3, DirtyNow
<1>4. QED
  BY <1>2, <1>3 DEF Tried, Unnoticed

(* The calls of that kind.                                                 *)
LEMMA EffectsTrying ==
    ASSUME Typed, CredentialAssumption, NEW w \in Workers,
           \/ Activate(w) \/ DeleteKeyAuth(w) \/ CleanRow(w) \/ CleanKong(w)
           \/ CleanClient(w) \/ DeleteClient(w) \/ DeleteServiceAccess(w) \/ Relink(w)
    PROVE  history'.dirty \/ Effects(w)
<1>0. StoresTyped /\ worker[w] \in Recs
  BY TypedParts
<1>1. CASE Activate(w)
  <2> DEFINE new == [stores EXCEPT !.active = @ \/ stores.access = Own(w)]
  <2>1. ASSUME stores' = new, Step(w) = "activate"
        PROVE  /\ GroupEffects(w) /\ ActiveEffects(w)
               /\ stores'.client = stores.client /\ stores'.enabled = stores.enabled
    <3>1. /\ stores'.client = stores.client /\ stores'.enabled = stores.enabled
          /\ stores'.acl = stores.acl /\ stores'.kong = stores.kong
      BY <1>0, <2>1 DEF StoresTyped
    <3>2. stores'.active = (stores.active \/ stores.access = Own(w))
      BY <1>0, <2>1 DEF StoresTyped
    <3>3. QED
      BY <2>1, <3>1, <3>2 DEF GroupEffects, ActiveEffects
  <2>2. Tried(w, "activate", TRUE, new)
    BY <1>1, TriesMove
  <2> HIDE DEF new
  <2>3. QED
    BY <2>1, <2>2, EffectsTried
<1>2. CASE DeleteKeyAuth(w)
  <2> DEFINE new == [stores EXCEPT !.keys = @ \ {worker[w].key}]
             able == stores.kong = worker[w].consumer /\ worker[w].key \in stores.keys
  <2>1. ASSUME stores' = new \/ stores' = stores, Step(w) = "unkey"
        PROVE  /\ GroupEffects(w) /\ ActiveEffects(w)
               /\ stores'.client = stores.client /\ stores'.enabled = stores.enabled
    <3>1. /\ stores'.client = stores.client /\ stores'.enabled = stores.enabled
          /\ stores'.acl = stores.acl /\ stores'.kong = stores.kong
          /\ stores'.active = stores.active
      BY <1>0, <2>1 DEF StoresTyped
    <3>2. QED
      BY <2>1, <3>1 DEF GroupEffects, ActiveEffects
  <2>2. Tried(w, "unkey", able, new) \/ Called(w, "unkey", FALSE, stores)
    BY <1>2, TriesMove
  <2> HIDE DEF new, able
  <2>3. CASE Tried(w, "unkey", able, new)
    BY <2>1, <2>3, EffectsTried
  <2>4. CASE Called(w, "unkey", FALSE, stores)
    <3>1. "unkey" \in Attempted
      BY DEF Attempted
    <3>2. QED
      BY <2>4, <3>1, EffectsCalled
  <2>5. QED
    BY <2>2, <2>3, <2>4
<1>3. CASE CleanKong(w)
  <2> DEFINE new == IF stores.kong = Own(w) THEN WithoutKong ELSE stores
  <2>1. ASSUME stores' = new, Step(w) = "cleanKong"
        PROVE  /\ GroupEffects(w) /\ ActiveEffects(w)
               /\ stores'.client = stores.client /\ stores'.enabled = stores.enabled
    <3>1. /\ stores'.client = stores.client /\ stores'.enabled = stores.enabled
          /\ \/ stores'.acl = stores.acl /\ stores'.kong = stores.kong
             \/ ~stores'.acl /\ stores'.kong = None
          /\ stores.acl => stores.kong # None
          /\ stores'.active = stores.active
      BY <1>0, <2>1 DEF StoresTyped, WithoutKong
    <3>2. QED
      BY <2>1, <3>1 DEF GroupEffects, ActiveEffects
  <2>2. Tried(w, "cleanKong", TRUE, new)
    BY <1>3, TriesMove
  <2> HIDE DEF new
  <2>3. QED
    BY <2>1, <2>2, EffectsTried
<1>4. CASE CleanClient(w) \/ DeleteClient(w)
  <2>1. ASSUME NEW s \in {"cleanClient", "unclient"}, Step(w) = s,
               \/ stores' = WithoutClient
               \/ stores' = stores /\ stores.client = None
        PROVE  GroupEffects(w) /\ ActiveEffects(w) /\ ClientEffects(w)
    <3>1. /\ stores'.client = None /\ ~stores'.enabled
          /\ stores'.acl = stores.acl /\ stores'.kong = stores.kong
          /\ stores'.active = stores.active
          /\ stores.enabled => stores.client # None
      BY <1>0, <2>1 DEF StoresTyped, WithoutClient
    <3>2. QED
      BY <2>1, <3>1 DEF GroupEffects, ActiveEffects, ClientEffects
  <2>2. CASE CleanClient(w)
    <3>1. Tried(w, "cleanClient", TRUE, WithoutClient)
      BY <2>2, TriesMove
    <3>2. QED
      BY <2>1, <3>1, EffectsTried
  <2>3. CASE DeleteClient(w)
    <3>1. Tried(w, "unclient", stores.client # None, WithoutClient)
      BY <2>3, TriesMove
    <3>2. QED
      BY <2>1, <3>1, EffectsTried
  <2>4. QED
    BY <1>4, <2>2, <2>3
<1>5. CASE DeleteServiceAccess(w)
  <2> DEFINE new == IF stores.access = Own(w)
                    THEN [stores EXCEPT !.access = None, !.active = FALSE, !.key = None]
                    ELSE stores
  <2>1. ASSUME stores' = new, Step(w) = "unaccess"
        PROVE  /\ GroupEffects(w) /\ ActiveEffects(w)
               /\ stores'.client = stores.client /\ stores'.enabled = stores.enabled
    <3>1. /\ stores'.client = stores.client /\ stores'.enabled = stores.enabled
          /\ stores'.acl = stores.acl /\ stores'.kong = stores.kong
          /\ \/ stores'.active = stores.active
             \/ stores'.access = None
          /\ stores.active => stores.access # None
      BY <1>0, <2>1 DEF StoresTyped
    <3>2. QED
      BY <2>1, <3>1 DEF GroupEffects, ActiveEffects
  <2>2. Tried(w, "unaccess", TRUE, new)
    BY <1>5, TriesMove
  <2> HIDE DEF new
  <2>3. QED
    BY <2>1, <2>2, EffectsTried
<1>6. CASE CleanRow(w)
  <2>1. ASSUME NEW s \in {"cleanRow", "cleanOwn"}, Step(w) = s,
               stores' \in {stores, WithoutRow}
        PROVE  /\ GroupEffects(w) /\ ActiveEffects(w)
               /\ stores'.client = stores.client /\ stores'.enabled = stores.enabled
    <3>1. /\ stores'.client = stores.client /\ stores'.enabled = stores.enabled
          /\ stores'.acl = stores.acl /\ stores'.kong = stores.kong
          /\ stores'.active = stores.active
      BY <1>0, <2>1 DEF StoresTyped, WithoutRow
    <3>2. QED
      BY <2>1, <3>1 DEF GroupEffects, ActiveEffects
  <2>2. ASSUME NEW s \in {"cleanRow", "cleanOwn"}, NEW new \in {stores, WithoutRow},
               Tried(w, s, TRUE, new)
        PROVE  history'.dirty \/ Effects(w)
    BY <2>1, <2>2, EffectsTried
  <2>3. QED
    BY <1>6, <2>2, TriesMove
<1>7. CASE Relink(w)
  <2> DEFINE new == [stores EXCEPT !.active = TRUE, !.key = worker[w].key]
             able == stores.access = Own(w)
  <2>1. ASSUME stores' = new \/ stores' = stores, Step(w) = "relink"
        PROVE  /\ GroupEffects(w) /\ ActiveEffects(w)
               /\ stores'.client = stores.client /\ stores'.enabled = stores.enabled
    <3>1. /\ stores'.client = stores.client /\ stores'.enabled = stores.enabled
          /\ stores'.acl = stores.acl /\ stores'.kong = stores.kong
          /\ stores.active => stores'.active
      BY <1>0, <2>1 DEF StoresTyped
    <3>2. QED
      BY <2>1, <3>1 DEF GroupEffects, ActiveEffects
  <2>2. Tried(w, "relink", able, new)
    BY <1>7, RelinkMoves
  <2> HIDE DEF new, able
  <2>3. QED
    BY <2>1, <2>2, EffectsTried
<1>8. QED
  BY <1>1, <1>2, <1>3, <1>4, <1>5, <1>6, <1>7

(* The deletions, and what only concerns the requests and the keys.          *)
LEMMA EffectsElsewhere ==
    ASSUME Typed, CredentialAssumption, NEW w \in Workers,
           \/ DeleteRow(w) \/ DeleteKongConsumer(w) \/ DeleteRequest(w) \/ Unissue(w)
           \/ AddKeyAuth(w) \/ Locate(w) \/ LinkServiceAccess(w) \/ Write(w) \/ Complete(w)
    PROVE  history'.dirty \/ Effects(w)
<1>0. StoresTyped /\ worker[w] \in Recs
  BY TypedParts
<1>1. ASSUME NEW s \in Attempted, Step(w) = s, Throws(w, s) PROVE Effects(w)
  BY <1>1, EffectsThrown
<1>2. ASSUME NEW s, Step(w) = s, s \notin {"client", "enable", "details", "consult", "find", "svc",
                 "unkong", "put", "unclient", "cleanClient", "activate"},
             NEW rec \in Recs, Went(w, rec, s),
             /\ stores'.client = stores.client /\ stores'.enabled = stores.enabled
             /\ stores'.acl = stores.acl /\ stores'.kong = stores.kong
             /\ stores'.active = stores.active
      PROVE  Effects(w)
  <2>1. Follows(worker[w], s, Step(w)')
    BY <1>2, Lands
  <2>2. GroupEffects(w) /\ ActiveEffects(w)
    BY <1>2 DEF GroupEffects, ActiveEffects
  <2>3. QED
    BY <1>2, <2>1, <2>2, EffectsOnward
<1>3. CASE DeleteRow(w)
  <2>1. /\ Step(w) = "unrow"
        /\ \/ history' = [history EXCEPT !.dirty = TRUE]
           \/ Went(w, worker[w], "unrow") /\ stores' \in {stores, WithoutRow}
    BY <1>3, DeletesMove
  <2>2. QED
    BY <1>0, <1>2, <2>1, DirtyNow DEF StoresTyped, WithoutRow
<1>4. CASE DeleteKongConsumer(w)
  <2>1. /\ Step(w) = "unkong"
        /\ \/ /\ stores.kong = worker[w].consumer /\ stores' = WithoutKong
              /\ Went(w, worker[w], "unkong")
           \/ /\ UNCHANGED stores /\ stores.kong # worker[w].consumer
              /\ Moves(w, worker[w], "unaccess")
           \/ history' = [history EXCEPT !.dirty = TRUE]
    BY <1>4, DeletesMove DEF Unnoticed
  <2>2. CASE /\ stores.kong = worker[w].consumer /\ stores' = WithoutKong
             /\ Went(w, worker[w], "unkong")
    <3>1. Follows(worker[w], "unkong", Step(w)')
      BY <1>0, <2>2, Lands
    <3>2. OAuth => Step(w)' = "unclient"
      BY <3>1 DEF Follows
    <3>3. GroupEffects(w) /\ ActiveEffects(w)
          /\ stores'.client = stores.client /\ stores'.enabled = stores.enabled
      BY <1>0, <2>1, <2>2 DEF StoresTyped, GroupEffects, ActiveEffects, WithoutKong
    <3>4. QED
      BY <2>1, <3>1, <3>2, <3>3, EffectsOnward
  <2>3. CASE UNCHANGED stores /\ stores.kong # worker[w].consumer /\ Moves(w, worker[w], "unaccess")
    <3>1. Step(w)' = "unaccess"
      BY <1>0, <2>3, AfterMove
    <3>2. worker[w].kind # "issue" \/ IssueGoes(w)
      BY <2>1 DEF IssueGoes
    <3>3. GroupEffects(w) /\ ClientEffects(w) /\ ActiveEffects(w) /\ Reads(w)
      BY <2>1, <2>3, <3>1 DEF GroupEffects, ClientEffects, ActiveEffects, Reads
    <3>4. QED
      BY <3>2, <3>3 DEF Effects, IssueGoes
  <2>4. QED
    BY <2>1, <2>2, <2>3, DirtyNow
<1>5. CASE DeleteRequest(w) \/ Unissue(w)
  <2>1. PICK s \in {"unrequest", "unissue"} :
          Step(w) = s /\ UNCHANGED stores
          /\ (history' = [history EXCEPT !.dirty = TRUE] \/ Went(w, worker[w], s))
    <3>1. CASE DeleteRequest(w)
      BY <3>1, DeletesMove
    <3>2. CASE Unissue(w)
      BY <3>2, UnissueMoves
    <3>3. QED
      BY <1>5, <3>1, <3>2
  <2>2. QED
    BY <1>0, <1>2, <2>1, DirtyNow
<1>6. CASE AddKeyAuth(w)
  <2>1. PICK s \in {"key", "newkey"} :
          /\ Step(w) = s
          /\ \/ \E k \in UnusedKeys, rec \in Recs :
                   /\ stores' = [stores EXCEPT !.keys = @ \cup {k}]
                   /\ Went(w, rec, s)
             \/ Throws(w, s)
    BY <1>6, AddKeyMoves
  <2>2. s \in Attempted
    BY DEF Attempted
  <2>3. ASSUME NEW k, NEW rec \in Recs, Went(w, rec, s),
               stores' = [stores EXCEPT !.keys = @ \cup {k}]
        PROVE  Effects(w)
    <3>1. /\ stores'.client = stores.client /\ stores'.enabled = stores.enabled
          /\ stores'.acl = stores.acl /\ stores'.kong = stores.kong
          /\ stores'.active = stores.active
      BY <1>0, <2>3 DEF StoresTyped
    <3>2. QED
      BY <1>2, <2>1, <2>3, <3>1
  <2>4. QED
    BY <1>1, <2>1, <2>2, <2>3
<1>7. CASE Locate(w) \/ LinkServiceAccess(w) \/ Write(w)
  <2>1. PICK s \in {"locate", "link", "write"} :
          Step(w) = s /\ UNCHANGED stores /\ (Throws(w, s) \/ \E rec \in Recs : Went(w, rec, s))
    <3>1. CASE Locate(w)
      BY <3>1, LocateMoves
    <3>2. CASE LinkServiceAccess(w)
      BY <1>0, <3>2, LinkMoves DEF Throws
    <3>3. CASE Write(w)
      BY <1>0, <3>3, WriteMoves DEF Throws
    <3>4. QED
      BY <1>7, <3>1, <3>2, <3>3
  <2>2. QED
    BY <1>1, <1>2, <2>1 DEF Attempted
<1>8. CASE Complete(w)
  <2>1. /\ Step(w) = "complete" /\ worker[w].kind = "collect" /\ UNCHANGED stores
        /\ \/ Throws(w, "complete")
           \/ \E rec \in Recs, t \in {"details", "rest"} : Moves(w, rec, t)
    BY <1>8, CompleteMoves DEF Throws
  <2>2. CASE Throws(w, "complete")
    BY <1>1, <2>1, <2>2 DEF Attempted
  <2>3. CASE ~Throws(w, "complete")
    <3>1. Step(w)' \in {"details", "rest"}
      BY <2>1, <2>3, AfterMove
    <3>2. GroupEffects(w) /\ ClientEffects(w) /\ ActiveEffects(w) /\ Reads(w) /\ IssueGoes(w)
      BY <2>1, <3>1 DEF GroupEffects, ClientEffects, ActiveEffects, Reads, IssueGoes
    <3>3. QED
      BY <3>2 DEF Effects
  <2>4. QED
    BY <2>2, <2>3
<1>9. QED
  BY <1>3, <1>4, <1>5, <1>6, <1>7, <1>8

(* And what is read about it.                                                *)
LEMMA EffectsLooking ==
    ASSUME Typed, CredentialAssumption, NEW w \in Workers,
           LookUpDetails(w) \/ Consult(w) \/ FindClient(w) \/ Enable(w) \/ LookUpAccess(w)
    PROVE  history'.dirty \/ Effects(w)
<1>0. StoresTyped /\ worker[w] \in Recs /\ Remembered
  BY TypedParts
<1>1. ASSUME NEW s \in Attempted, Step(w) = s, Throws(w, s) PROVE Effects(w)
  BY <1>1, EffectsThrown
<1>2. ASSUME UNCHANGED stores,
             Step(w) \notin {"client", "enable", "activate", "unclient", "cleanClient"}
      PROVE  GroupEffects(w) /\ ClientEffects(w) /\ ActiveEffects(w)
  BY <1>2 DEF GroupEffects, ClientEffects, ActiveEffects
<1>3. CASE LookUpDetails(w)
  <2>1. Step(w) = "details" /\ worker[w].kind \in {"collect", "nested", "approve", "reject"}
    BY <1>3, DetailsMove
  <2>2. CASE Throws(w, "details")
    BY <1>1, <2>1, <2>2 DEF Attempted
  <2>3. CASE ~Throws(w, "details")
    <3>1. PICK id \in Ids, rec \in Recs :
            /\ stores.access = id /\ UNCHANGED stores /\ \E r \in Requests : id = request[r].access
            /\ rec.id = id /\ rec.consumer = stores.row
            /\ \/ Moves(w, rec, "svc")
               \/ /\ Went(w, rec, "details") /\ HasConsumer(id)
                  /\ history' = [history EXCEPT !.astray = @ \/ stores.row # id]
      BY <1>3, <2>3, DetailsMove DEF Notes
    <3>2. CASE Moves(w, rec, "svc")
      <4>1. Step(w)' = "svc" /\ worker'[w].id = id
        BY <3>1, <3>2, AfterMove
      <4>2. Reads(w) /\ IssueGoes(w)
        BY <2>1, <3>1, <4>1 DEF Reads, IssueGoes, Ids, None
      <4>3. QED
        BY <1>2, <2>1, <3>1, <4>2 DEF Effects
    <3>3. CASE /\ Went(w, rec, "details") /\ HasConsumer(id)
               /\ history' = [history EXCEPT !.astray = @ \/ stores.row # id]
      <4>1. /\ Follows(worker[w], "details", Step(w)')
            /\ Step(w)' # "rest" => worker'[w].id = id /\ worker'[w].consumer = stores.row
        BY <3>1, <3>3, Lands
      <4>2. Step(w)' \notin {"put", "svc"}
        BY <4>1 DEF Follows, Deleting
      <4>3. history'.astray \/ stores.row = id
        BY <1>0, <3>3 DEF Remembered
      <4>4. id # None
        BY <3>1 DEF Ids, None
      <4>5. Reads(w) /\ IssueGoes(w)
        BY <2>1, <3>1, <3>3, <4>1, <4>2, <4>3, <4>4 DEF Reads, IssueGoes
      <4>6. QED
        BY <1>2, <2>1, <3>1, <4>5 DEF Effects
    <3>4. QED
      BY <3>1, <3>2, <3>3
  <2>4. QED
    BY <2>2, <2>3
<1>4. CASE Consult(w)
  <2>1. Step(w) = "consult" /\ worker[w].kind = "issue"
    BY <1>4, ConsultMoves
  <2>2. CASE Throws(w, "consult")
    BY <1>1, <2>1, <2>2 DEF Attempted
  <2>3. CASE ~Throws(w, "consult")
    <3>1. PICK rec \in Recs :
            /\ stores.row # None /\ UNCHANGED stores
            /\ rec.id = Own(w) /\ rec.consumer = stores.row /\ Went(w, rec, "consult")
            /\ history' = [history EXCEPT !.astray = @ \/ stores.row # Own(w)]
      BY <1>4, <2>3, ConsultMoves DEF Notes, Own
    <3>2. /\ Follows(worker[w], "consult", Step(w)')
          /\ Step(w)' # "rest" => worker'[w].id = Own(w) /\ worker'[w].consumer = stores.row
      BY <3>1, Lands
    <3>3. Step(w)' = FirstOfSetup
      BY <2>1, <3>2 DEF Follows, FirstOfSetup, Deleting
    <3>4. history'.astray \/ stores.row = Own(w)
      BY <1>0, <3>1 DEF Remembered
    <3>5. Reads(w) /\ IssueGoes(w)
      BY <2>1, <3>1, <3>2, <3>3, <3>4 DEF Reads, IssueGoes, FirstOfSetup
    <3>6. QED
      BY <1>2, <2>1, <3>1, <3>5 DEF Effects
  <2>4. QED
    BY <2>2, <2>3
<1>5. CASE FindClient(w)
  <2>1. Step(w) = "find" /\ UNCHANGED stores
    BY <1>5, FindMoves
  <2>2. CASE Throws(w, "find")
    BY <1>1, <2>1, <2>2 DEF Attempted
  <2>3. CASE ~Throws(w, "find")
    <3>1. PICK rec \in Recs :
            rec.consumer = stores.client /\ rec.seen = stores.enabled /\ Went(w, rec, "find")
      BY <1>5, <2>3, FindMoves DEF Notes
    <3>2. /\ Follows(worker[w], "find", Step(w)')
          /\ Step(w)' # "rest" => /\ worker'[w].consumer = stores.client
                                  /\ worker'[w].seen = stores.enabled
      BY <3>1, Lands
    <3>3. Step(w)' = "put" /\ worker[w].kind = "renew"
      BY <3>2 DEF Follows, Deleting
    <3>4. Reads(w) /\ IssueGoes(w)
      BY <2>1, <3>2, <3>3 DEF Reads, IssueGoes
    <3>5. QED
      BY <1>2, <2>1, <3>4 DEF Effects
  <2>4. QED
    BY <2>2, <2>3
<1>6. CASE Enable(w)
  <2>1. Step(w) = "enable"
    BY <1>6, EnableMoves
  <2>2. CASE Throws(w, "enable")
    BY <1>1, <2>1, <2>2 DEF Attempted
  <2>3. CASE ~Throws(w, "enable")
    <3>1. /\ IF OAuth THEN stores.client # None
             ELSE stores.kong # None /\ stores.kong = worker[w].consumer
          /\ stores' = IF OAuth THEN [stores EXCEPT !.enabled = TRUE]
                                ELSE [stores EXCEPT !.acl = TRUE]
          /\ history' = [history EXCEPT !.astray = @ \/ (OAuth /\ stores.client # Own(w))]
          /\ Went(w, worker[w], "enable")
      BY <1>6, <2>3, EnableMoves
    <3>2. Follows(worker[w], "enable", Step(w)')
      BY <1>0, <3>1, Lands
    <3>3. (Acl \/ OAuth) /\ Step(w)' = "activate"
      BY <3>2 DEF Follows, Enables, Deleting
    <3>4. OAuth => history'.astray \/ stores.client = Own(w)
      BY <1>0, <3>1 DEF Remembered
    <3>5. GroupEffects(w) /\ ActiveEffects(w)
      BY <1>0, <2>1, <3>1, <3>3 DEF StoresTyped, GroupEffects, ActiveEffects
    <3>6. ClientEffects(w)
      BY <1>0, <2>1, <3>1, <3>4 DEF StoresTyped, ClientEffects
    <3>7. Reads(w) /\ IssueGoes(w)
      BY <2>1, <3>3 DEF Reads, IssueGoes
    <3>8. QED
      BY <3>5, <3>6, <3>7 DEF Effects
  <2>4. QED
    BY <2>2, <2>3
<1>7. CASE LookUpAccess(w)
  <2>1. Step(w) = "svc" /\ UNCHANGED stores
    BY <1>7, AccessMoves
  <2>2. \/ history' = [history EXCEPT !.dirty = TRUE]
        \/ stores.access = Own(w) /\ Step(w)' = "unrequest"
        \/ stores.access # Own(w) /\ Went(w, worker[w], "svc")
    <3>1. \A rec \in Recs : Moves(w, rec, "unrequest") => Step(w)' = "unrequest"
      BY AfterMove
    <3>2. QED
      BY <1>7, <3>1, AccessMoves DEF Unnoticed
  <2>3. CASE stores.access # Own(w) /\ Went(w, worker[w], "svc")
    <3>1. Follows(worker[w], "svc", Step(w)')
      BY <1>0, <2>3, Lands
    <3>2. Step(w)' \notin {"put", "enable", "svc"}
      BY <3>1 DEF Follows, Deleting
    <3>3. Reads(w) /\ IssueGoes(w)
      BY <2>1, <2>3, <3>2 DEF Reads, IssueGoes
    <3>4. QED
      BY <1>2, <2>1, <3>3 DEF Effects
  <2>4. CASE stores.access = Own(w) /\ Step(w)' = "unrequest"
    <3>1. Reads(w) /\ IssueGoes(w)
      BY <2>1, <2>4 DEF Reads, IssueGoes
    <3>2. QED
      BY <1>2, <2>1, <3>1 DEF Effects
  <2>5. QED
    BY <2>2, <2>3, <2>4, DirtyNow
<1>8. QED
  BY <1>3, <1>4, <1>5, <1>6, <1>7

(* So does every step of work, unless its failure goes unheard of.         *)
LEMMA WorkEffects ==
    ASSUME Typed, CredentialAssumption, NEW w \in Workers, Work(w) \/ Stop(w)
    PROVE  history'.dirty \/ Effects(w)
<1>1. CASE Stop(w)
  BY <1>1, StopMoves, DirtyNow
<1>2. CASE Work(w)
  BY <1>2, EffectsCalling, EffectsTrying, EffectsElsewhere, EffectsLooking DEF Work
<1>3. QED
  BY <1>1, <1>2

-----------------------------------------------------------------------------
(***************************************************************************)
(* What can be revoked.  As long as no handler has met another one's          *)
(* credential, what is in Kong's group, or about to be, has its consumer and  *)
(* its ServiceAccess in the Portal, or somebody is about to delete it.        *)
(***************************************************************************)

Covered(id) == stores.access = id /\ stores.own = id

KongGoing == stores.kong # None /\ \E v \in Workers :
                Step(v) = "unkong" /\ worker[v].consumer = stores.kong

KongHeld == stores.kong = None \/ Covered(stores.kong) \/ KongGoing

ClientHeld ==
    \/ stores.client = None \/ Covered(stores.client) \/ KongGoing
    \/ \E v \in Workers : Step(v) = "unclient"

(* What the worker at the step s is about to enable, or to delete.           *)
HeldBy(rec, s) ==
    /\ s = "consult" /\ stores.kong = rec.id => KongHeld
    /\ s = "enable" /\ stores.kong = rec.consumer => KongHeld
    /\ s \in {"consult", "enable"} /\ stores.client = rec.id => ClientHeld
    /\ s = "put" /\ rec.seen /\ stores.client = rec.consumer => ClientHeld
    /\ s \in {"unrequest", "unrow"} /\ stores.own = rec.id => rec.consumer = rec.id
    /\ s \in {"enable", "put"} => rec.consumer < nextId

(* Nobody has looked up what is not made yet.                                *)
Unseen ==
    \A u, w \in Workers :
        /\ Step(u) = "client" => stores.client # worker[u].id
        /\ Step(u) = "client" /\ Step(w) = "put" => worker[w].consumer # worker[u].id
        /\ Step(u) \in {"client", "consumer"} /\ Step(w) = "enable" =>
              worker[w].consumer # worker[u].id

Held ==
    /\ stores.own # None => stores.row = stores.own
    /\ stores.client < nextId /\ (~OAuth => stores.client = None)
    /\ stores.acl => KongHeld
    /\ stores.enabled => ClientHeld
    /\ \A w \in Workers : HeldBy(worker[w], Step(w))
    /\ Unseen

(* A ServiceAccess and its consumer stay, until somebody is deleting both.    *)
LEMMA CoveredStays ==
    ASSUME Typed, CredentialAssumption, Distinct, Owned, Held,
           NEW w \in Workers, NEW rec, NEW t, Changes(w, rec, t),
           NEW id, id # None, Covered(id)
    PROVE  \/ Covered(id)'
           \/ /\ stores.kong = id /\ stores'.kong = id
              /\ Step(w)' = "unkong" /\ worker'[w].consumer = id
<1>1. KongChanges(w, rec, t) /\ PortalChanges(w, t) /\ stores.kong = id
  BY DEF Changes, Owned, Covered
<1>2. stores'.access = id
  <2>1. CASE Step(w) = "unaccess"
    <3>1. stores.own # worker[w].id
      BY <2>1 DEF Owned, OwnedBy
    <3>2. QED
      BY <1>1, <2>1, <3>1 DEF PortalChanges, Covered, Own
  <2>2. CASE Step(w) # "unaccess"
    BY <1>1, <2>2 DEF PortalChanges, Covered
  <2>3. QED
    BY <2>1, <2>2
<1>3. Step(w) \in Making => worker[w].id # id
  BY DEF Distinct, Apart, Covered
<1>4. CASE stores'.own = stores.own
  BY <1>2, <1>4 DEF Covered
<1>5. CASE stores'.own # stores.own
  <2>1. Step(w) = "unrow" /\ stores.own = Own(w)
    BY <1>1, <1>3, <1>5, OwnChanges DEF Covered, Making, Own
  <2>2. t = "unkong" /\ Step(w)' = t /\ worker'[w].consumer = worker[w].consumer
    BY <2>1, Mover DEF Order
  <2>3. worker[w].consumer = worker[w].id
    BY <2>1 DEF Held, HeldBy, Own
  <2>4. stores'.kong = stores.kong
    BY <1>1, <2>1 DEF KongChanges
  <2>5. QED
    BY <1>1, <2>1, <2>2, <2>3, <2>4 DEF Covered, Own
<1>6. QED
  BY <1>4, <1>5

(* What is being deleted in Kong is then deleted at the issuer as well.        *)
LEMMA GoingStays ==
    ASSUME Typed, CredentialAssumption, Distinct, Owned, KongGoing,
           NEW w \in Workers, NEW rec, NEW t, Changes(w, rec, t), Effects(w)
    PROVE  \/ stores'.kong = stores.kong /\ KongGoing'
           \/ stores'.kong = None /\ (OAuth => Step(w)' = "unclient")
<1>1. \A v \in Workers \ {w} : worker'[v] = worker[v] /\ Step(v)' = Step(v)
  BY Mover
<1>2. KongChanges(w, rec, t)
  BY DEF Changes
<1>3. PICK v \in Workers : Step(v) = "unkong" /\ worker[v].consumer = stores.kong
  BY DEF KongGoing
<1>4. stores.kong # None /\ stores.kong = worker[v].id
  BY <1>3 DEF KongGoing, Owned, OwnedBy
<1>5. CASE v = w
  <2>1. stores'.kong = None
    BY <1>2, <1>3, <1>5 DEF KongChanges
  <2>2. OAuth => Step(w)' = "unclient"
    BY <1>3, <1>5 DEF Effects, Reads
  <2>3. QED
    BY <2>1, <2>2
<1>6. CASE v # w
  <2>1. Step(v)' = "unkong" /\ worker'[v] = worker[v]
    BY <1>1, <1>3, <1>6
  <2>2. CASE stores'.kong = stores.kong
    BY <1>3, <1>4, <2>1, <2>2 DEF KongGoing
  <2>3. CASE stores'.kong # stores.kong
    <3>1. stores'.kong = None /\ stores.kong = Own(w) /\ Step(w) \in {"cleanKong", "unkong"}
      BY <1>4, <2>3, OwnChanges
    <3>2. Step(w) # "cleanKong"
      BY <1>4, <1>6, <3>1 DEF Distinct, Apart, Making, Own
    <3>3. stores.kong = worker[w].consumer
      BY <1>2, <2>3, <3>1, <3>2 DEF KongChanges
    <3>4. OAuth => Step(w)' = "unclient"
      BY <3>1, <3>2, <3>3 DEF Effects, Reads
    <3>5. QED
      BY <3>1, <3>4
  <2>4. QED
    BY <2>2, <2>3
<1>7. QED
  BY <1>5, <1>6

(* What is held stays held, as long as it is there.                          *)
LEMMA HeldStays ==
    ASSUME Typed, CredentialAssumption, Distinct, Owned, Held,
           NEW w \in Workers, NEW rec, NEW t, Changes(w, rec, t), Effects(w)
    PROVE  /\ KongHeld /\ stores'.kong = stores.kong => KongHeld'
           /\ ClientHeld /\ stores'.client = stores.client => ClientHeld'
<1>1. /\ \A v \in Workers \ {w} : worker'[v] = worker[v] /\ Step(v)' = Step(v)
      /\ Step(w)' = t
  BY Mover
<1>2. KongChanges(w, rec, t) /\ env' = env
  BY DEF Changes
<1>3. ASSUME KongHeld, stores'.kong = stores.kong PROVE KongHeld'
  <2>1. CASE stores.kong = None
    BY <1>3, <2>1 DEF KongHeld
  <2>2. CASE stores.kong # None /\ Covered(stores.kong)
    <3>1. PICK id : id = stores.kong
      OBVIOUS
    <3>2. \/ Covered(id)'
          \/ Step(w)' = "unkong" /\ worker'[w].consumer = id
      BY <2>2, <3>1, CoveredStays
    <3>3. stores'.kong = id /\ id # None
      BY <1>3, <2>2, <3>1
    <3>4. QED
      BY <3>2, <3>3 DEF KongHeld, KongGoing, Covered
  <2>3. CASE stores.kong # None /\ KongGoing
    BY <1>3, <2>3, GoingStays DEF KongHeld
  <2>4. QED
    BY <1>3, <2>1, <2>2, <2>3 DEF KongHeld
<1>4. ASSUME ClientHeld, stores'.client = stores.client PROVE ClientHeld'
  <2>1. CASE stores.client = None
    BY <1>4, <2>1 DEF ClientHeld
  <2>2. CASE stores.client # None /\ Covered(stores.client)
    <3>1. PICK id : id = stores.client
      OBVIOUS
    <3>2. \/ Covered(id)'
          \/ stores'.kong = id /\ Step(w)' = "unkong" /\ worker'[w].consumer = id
      BY <2>2, <3>1, CoveredStays
    <3>3. stores'.client = id /\ id # None
      BY <1>4, <2>2, <3>1
    <3>4. QED
      BY <3>2, <3>3 DEF ClientHeld, KongGoing, Covered
  <2>3. CASE stores.client # None /\ KongGoing
    <3>1. OAuth
      BY <2>3 DEF Held
    <3>2. KongGoing' \/ Step(w)' = "unclient"
      BY <2>3, <3>1, <1>2, GoingStays
    <3>3. QED
      BY <3>2 DEF ClientHeld
  <2>4. CASE stores.client # None /\ \E v \in Workers : Step(v) = "unclient"
    <3>1. PICK v \in Workers : Step(v) = "unclient"
      BY <2>4
    <3>2. v # w
      BY <1>4, <2>4, <3>1 DEF Effects, ClientEffects
    <3>3. QED
      BY <1>1, <3>1, <3>2 DEF ClientHeld
  <2>5. QED
    BY <1>4, <2>1, <2>2, <2>3, <2>4 DEF ClientHeld
<1>5. QED
  BY <1>3, <1>4

(* The client at the issuer only comes to be the worker's own.               *)
LEMMA ClientNames ==
    ASSUME Typed, CredentialAssumption, NEW w \in Workers, ClientEffects(w)
    PROVE  \/ stores'.client \in {stores.client, None}
           \/ stores'.client = Own(w) /\ Step(w) = "client" /\ OAuth
<1>1. Step(w) = "client" => OAuth
  <2>1. ASSUME Step(w) = "client" PROVE \E t : Follows(worker[w], "client", t)
    BY <2>1, StepFollows
  <2>2. QED
    BY <2>1 DEF Follows, Deleting
<1>2. QED
  BY <1>1 DEF ClientEffects

(* The other workers know what they knew.                                    *)
LEMMA HeldByOthers ==
    ASSUME Typed, CredentialAssumption, Distinct, Owned, Held,
           NEW w \in Workers, NEW rec, NEW t, Changes(w, rec, t), Effects(w),
           NEW v \in Workers \ {w}
    PROVE  HeldBy(worker[v], Step(v))'
<1>1. /\ worker'[v] = worker[v] /\ Step(v)' = Step(v)
      /\ UNCHANGED <<env, nextId>>
  BY Mover DEF Changes
<1>2. HeldBy(worker[v], Step(v)) /\ Unseen
  BY DEF Held
<1>3. Step(w) \in Making => worker[v].id # worker[w].id
  BY DEF Distinct, Apart
<1>4. ASSUME stores.kong = stores'.kong => KongHeld,
             stores'.kong = stores.kong \/ stores'.kong = None
      PROVE  KongHeld'
  BY <1>4, HeldStays DEF KongHeld
<1>5. \/ stores'.kong \in {stores.kong, None}
      \/ stores'.kong = worker[w].id /\ Step(w) = "consumer"
  BY OwnChanges DEF Own
<1>6. Step(v) = "consult" /\ stores'.kong = worker[v].id => KongHeld'
  BY <1>2, <1>3, <1>4, <1>5 DEF HeldBy, Making
<1>7. Step(v) = "enable" /\ stores'.kong = worker[v].consumer => KongHeld'
  BY <1>2, <1>4, <1>5 DEF HeldBy, Unseen
<1>8. ASSUME stores.client = stores'.client => ClientHeld,
             stores'.client = stores.client \/ stores'.client = None
      PROVE  ClientHeld'
  BY <1>8, HeldStays DEF ClientHeld
<1>9. \/ stores'.client \in {stores.client, None}
      \/ stores'.client = worker[w].id /\ Step(w) = "client"
  BY ClientNames DEF Effects, Own
<1>10. Step(v) \in {"consult", "enable"} /\ stores'.client = worker[v].id => ClientHeld'
  BY <1>2, <1>3, <1>8, <1>9 DEF HeldBy, Making
<1>11. Step(v) = "put" /\ worker[v].seen /\ stores'.client = worker[v].consumer => ClientHeld'
  BY <1>2, <1>8, <1>9 DEF HeldBy, Unseen
<1>12. Step(v) \in {"unrequest", "unrow"} /\ stores'.own = worker[v].id =>
          worker[v].consumer = worker[v].id
  <2>1. Step(v) \in {"unrequest", "unrow"} => worker[v].id # None
    BY KindAtStep DEF Deleting, Ids, None
  <2>2. stores'.own \in {stores.own, None} \/ (Step(w) = "row" /\ stores'.own = Own(w))
    BY OwnChanges
  <2>3. QED
    BY <1>2, <1>3, <2>1, <2>2 DEF HeldBy, Making, Own
<1>13. QED
  BY <1>1, <1>2, <1>6, <1>7, <1>10, <1>11, <1>12 DEF HeldBy

(* The one that moves has seen to it.                                        *)
LEMMA HeldByMover ==
    ASSUME Typed, CredentialAssumption, Distinct, Owned, Held,
           NEW w \in Workers, NEW rec, NEW t, Changes(w, rec, t), Effects(w), ~history'.astray
    PROVE  HeldBy(worker[w], t)'
<1>1. /\ Step(w)' = t /\ Order(worker'[w], Step(w), t) /\ UNCHANGED <<env, nextId>>
      /\ KongChanges(w, rec, t) /\ PortalChanges(w, t)
  BY Mover DEF Changes
<1>2. HeldBy(worker[w], Step(w)) /\ Reads(w) /\ ClientEffects(w)
  BY DEF Held, Effects
<1>3. t = "consult" => stores'.access = worker'[w].id /\ stores'.own = worker'[w].id
  <2>1. ASSUME t = "consult" PROVE Step(w) = "access" /\ worker'[w].id = worker[w].id
    BY <1>1, <2>1, Mover DEF Order
  <2>2. QED
    BY <1>1, <2>1 DEF PortalChanges, Own
<1>4. t = "consult" /\ stores'.kong = worker'[w].id => KongHeld'
  BY <1>3 DEF KongHeld, Covered
<1>5. t = "consult" /\ stores'.client = worker'[w].id => ClientHeld'
  BY <1>3 DEF ClientHeld, Covered
<1>6. t = "enable" => /\ Step(w) \in {"details", "consult"}
                      /\ stores'.kong = stores.kong /\ stores'.client = stores.client
                      /\ worker'[w].consumer = stores.row /\ stores.row = worker'[w].id
  BY <1>1, <1>2 DEF Reads, KongChanges, ClientEffects
<1>7. t = "enable" /\ Step(w) = "details" => Covered(worker'[w].id)
  BY <1>1, <1>2 DEF Reads, HasConsumer, Covered
<1>8. t = "enable" /\ Step(w) = "consult" => worker'[w].id = worker[w].id
  BY <1>1, Mover
<1>9. t = "enable" /\ stores'.kong = worker'[w].consumer => KongHeld'
  <2>1. ASSUME t = "enable", stores'.kong = worker'[w].consumer PROVE KongHeld
    BY <1>2, <1>6, <1>7, <1>8, <2>1 DEF HeldBy, KongHeld
  <2>2. QED
    BY <1>6, <2>1, HeldStays
<1>10. t = "enable" /\ stores'.client = worker'[w].id => ClientHeld'
  <2>1. ASSUME t = "enable", stores'.client = worker'[w].id PROVE ClientHeld
    BY <1>2, <1>6, <1>7, <1>8, <2>1 DEF HeldBy, ClientHeld
  <2>2. QED
    BY <1>6, <2>1, HeldStays
<1>11. t = "put" => /\ Step(w) = "find" /\ worker'[w].seen = stores.enabled
                    /\ worker'[w].consumer = stores.client /\ stores'.client = stores.client
  BY <1>1, <1>2 DEF Reads, Order, ClientEffects
<1>12. t = "put" /\ worker'[w].seen => ClientHeld'
  BY <1>11, HeldStays DEF Held
<1>13. t \in {"unrequest", "unrow"} /\ stores'.own = worker'[w].id =>
          worker'[w].consumer = worker'[w].id
  <2>1. CASE t = "unrequest"
    <3>1. Step(w) = "svc"
      BY <1>1, <2>1 DEF Order
    <3>2. stores.access = Own(w) /\ stores'.own = stores.own
      BY <1>1, <2>1, <3>1 DEF PortalChanges
    <3>3. worker'[w].id = worker[w].id
      BY <2>1, <3>1, Mover
    <3>4. worker'[w].consumer = IF HasConsumer(Own(w)) THEN stores.row ELSE None
      BY <2>1, <3>1, <3>2, Mover
    <3>5. worker[w].id # None
      BY <3>1, KindAtStep DEF Deleting, Ids, None
    <3>6. QED
      BY <3>2, <3>3, <3>4, <3>5 DEF HasConsumer, Held, Own
  <2>2. CASE t = "unrow"
    <3>1. Step(w) = "unrequest"
      BY <1>1, <2>2 DEF Order
    <3>2. worker'[w].id = worker[w].id /\ worker'[w].consumer = worker[w].consumer
      BY <2>2, <3>1, Mover
    <3>3. stores'.own = stores.own
      BY <1>1, <3>1 DEF PortalChanges
    <3>4. QED
      BY <1>2, <3>1, <3>2, <3>3 DEF HeldBy
  <2>3. QED
    BY <2>1, <2>2
<1>14. t \in {"enable", "put"} => worker'[w].consumer < nextId
  BY <1>6, <1>11 DEF Held, Distinct, Numbered
<1>15. QED
  BY <1>1, <1>4, <1>5, <1>9, <1>10, <1>12, <1>13, <1>14 DEF HeldBy

(* What is not made yet is not seen.                                         *)
LEMMA UnseenGoes ==
    ASSUME Typed, CredentialAssumption, Distinct, Owned, Held,
           NEW w \in Workers, NEW rec, NEW t, Changes(w, rec, t), Effects(w)
    PROVE  Unseen'
<1>1. /\ \A v \in Workers \ {w} : worker'[v] = worker[v] /\ Step(v)' = Step(v)
      /\ Step(w)' = t /\ Order(worker'[w], Step(w), t)
  BY Mover
<1>2. Unseen /\ Reads(w) /\ ClientEffects(w)
  BY DEF Held, Effects
<1>3. ASSUME NEW u \in Workers, Step(u)' \in {"client", "consumer"}
      PROVE  /\ Step(u) \in {"client", "consumer"} /\ worker'[u].id = worker[u].id
             /\ Step(u)' = "client" => u # w /\ Step(u) = "client"
             /\ worker[u].id \in Ids /\ worker[u].id # stores.row
  <2>1. CASE u = w
    <3>1. t = "consumer" /\ Step(w) = "client"
      BY <1>1, <1>3, <2>1 DEF Order
    <3>2. worker'[w].id = worker[w].id
      BY <3>1, Mover
    <3>3. QED
      BY <1>1, <2>1, <3>1, <3>2, KindAtStep DEF Distinct, Unused, Making
  <2>2. CASE u # w
    BY <1>1, <1>3, <2>2, KindAtStep DEF Distinct, Unused, Making
  <2>3. QED
    BY <2>1, <2>2
<1>4. t = "put" => worker'[w].consumer = stores.client
  BY <1>1, <1>2 DEF Reads
<1>5. t = "enable" => worker'[w].consumer = stores.row
  BY <1>1, <1>2 DEF Reads
<1>6. \/ stores'.client \in {stores.client, None}
      \/ stores'.client = worker[w].id /\ Step(w) = "client"
  BY <1>2, ClientNames DEF Own
<1>7. ASSUME NEW u \in Workers, Step(u)' = "client" PROVE stores'.client # worker'[u].id
  <2>1. u # w /\ Step(u) = "client" /\ worker'[u].id = worker[u].id /\ worker[u].id # None
    BY <1>3, <1>7 DEF Ids, None
  <2>2. worker[w].id # worker[u].id
    BY <2>1 DEF Distinct, Apart, Making
  <2>3. QED
    BY <1>2, <1>6, <2>1, <2>2 DEF Unseen
<1>8. ASSUME NEW u \in Workers, NEW v \in Workers, Step(u)' = "client", Step(v)' = "put"
      PROVE  worker'[v].consumer # worker'[u].id
  <2>1. Step(u) = "client" /\ worker'[u].id = worker[u].id
    BY <1>3, <1>8
  <2>2. QED
    BY <1>1, <1>2, <1>4, <1>8, <2>1 DEF Unseen
<1>9. ASSUME NEW u \in Workers, NEW v \in Workers, Step(u)' \in {"client", "consumer"},
             Step(v)' = "enable"
      PROVE  worker'[v].consumer # worker'[u].id
  <2>1. /\ Step(u) \in {"client", "consumer"} /\ worker'[u].id = worker[u].id
        /\ worker[u].id # stores.row
    BY <1>3, <1>9
  <2>2. QED
    BY <1>1, <1>2, <1>5, <1>9, <2>1 DEF Unseen
<1>10. QED
  BY <1>7, <1>8, <1>9 DEF Unseen

(* So a step of a worker leaves nothing that cannot be revoked.              *)
LEMMA HeldGoes ==
    ASSUME Typed, StoresTyped', CredentialAssumption, Distinct, Owned, Held,
           NEW w \in Workers, NEW rec, NEW t, Changes(w, rec, t), Effects(w), ~history'.astray
    PROVE  Held'
<1>1. /\ UNCHANGED <<env, nextId>> /\ Step(w)' = t
      /\ KongChanges(w, rec, t) /\ PortalChanges(w, t)
      /\ GroupEffects(w) /\ ClientEffects(w)
  BY Mover DEF Changes, Effects
<1>2. HeldBy(worker[w], Step(w))
  BY DEF Held
<1>3. stores'.own # None => stores'.row = stores'.own
  BY <1>1 DEF PortalChanges, Held, Owned
<1>4. stores'.client < nextId' /\ (~OAuth' => stores'.client = None)
  <2>1. None < nextId /\ Own(w) < nextId /\ (OAuth' <=> OAuth)
    BY <1>1, TypedParts DEF Distinct, Numbered, None, Own, OAuth, CredentialAssumption
  <2>2. QED
    BY <1>1, <2>1, ClientNames DEF Held
<1>5. stores'.acl => KongHeld'
  <2>1. ASSUME stores'.acl PROVE KongHeld /\ stores'.kong = stores.kong
    BY <1>1, <1>2, <2>1 DEF GroupEffects, Held, HeldBy
  <2>2. QED
    BY <2>1, HeldStays
<1>6. stores'.enabled => ClientHeld'
  <2>1. ASSUME stores'.enabled PROVE ClientHeld /\ stores'.client = stores.client
    <3>1. stores'.client # None
      BY <2>1 DEF StoresTyped
    <3>2. stores'.client = stores.client
      BY <1>1, <2>1, <3>1 DEF ClientEffects
    <3>3. CASE stores.enabled
      BY <3>2, <3>3 DEF Held
    <3>4. CASE ~stores.enabled
      BY <1>1, <1>2, <2>1, <3>2, <3>4 DEF ClientEffects, HeldBy, Own
    <3>5. QED
      BY <3>3, <3>4, <3>2
  <2>2. QED
    BY <2>1, HeldStays
<1>7. \A v \in Workers : HeldBy(worker[v], Step(v))'
  <2>1. HeldBy(worker[w], Step(w))'
    BY <1>1, HeldByMover
  <2>2. QED
    BY <2>1, HeldByOthers
<1>8. Unseen'
  BY UnseenGoes
<1>9. QED
  BY <1>3, <1>4, <1>5, <1>6, <1>7, <1>8 DEF Held

(* At first nothing gives access.                                            *)
LEMMA HeldInit == Init => Held
<1> SUFFICES ASSUME Init PROVE Held
  OBVIOUS
<1>1. \A w \in Workers : Step(w) = "rest"
  BY DEF Init, Idle, Step, First
<1>2. QED
  BY <1>1 DEF Init, Held, HeldBy, Unseen, Empty, None

(* What starts finds it revocable, and has looked up nothing yet.          *)
LEMMA HeldStarts ==
    ASSUME Typed, Numbered, Held, NEW w \in Workers,
           NEW kind, NEW id, NEW key, NEW s, Starting(w, kind, id, key, s)
    PROVE  Held'
<1>1. PICK rec \in Recs : rec.id = id /\ Moves(w, rec, s)
  BY DEF Starting
<1>2. /\ s \in {"client", "consumer", "find", "locate", "svc", "write"}
      /\ s \in {"client", "consumer"} => id = nextId
      /\ Step(w) = "rest" /\ UNCHANGED <<env, stores>> /\ nextId' \in {nextId, nextId + 1}
      /\ nextId \in Nat
  BY TypedParts DEF Starting, FirstOfMaking, FirstOfRenewal, CredentialAssumption
<1>3. /\ \A v \in Workers \ {w} : worker'[v] = worker[v] /\ Step(v)' = Step(v)
      /\ Step(w)' = s /\ worker'[w].id = id
  BY <1>1, <1>2, AfterMove
<1>4. KongHeld => KongHeld'
  BY <1>2, <1>3 DEF KongHeld, KongGoing, Covered
<1>5. ClientHeld => ClientHeld'
  BY <1>2, <1>3 DEF ClientHeld, KongGoing, Covered
<1>6. ASSUME NEW v \in Workers PROVE HeldBy(worker[v], Step(v))'
  <2>1. CASE v = w
    BY <1>2, <1>3, <2>1 DEF HeldBy
  <2>2. CASE v # w
    <3>1. HeldBy(worker[v], Step(v)) /\ worker[v].consumer \in Ids \cup {None}
      BY TypedParts DEF Held, Recs
    <3>2. worker[v].consumer < nextId => worker[v].consumer < nextId'
      BY <1>2, <3>1 DEF Ids, None
    <3>3. QED
      BY <1>2, <1>3, <1>4, <1>5, <2>2, <3>1, <3>2 DEF HeldBy
  <2>3. QED
    BY <2>1, <2>2
<1>7. Unseen'
  <2>1. ASSUME NEW u \in Workers, Step(u)' = "client" PROVE stores'.client # worker'[u].id
    BY <1>2, <1>3, <2>1 DEF Held, Unseen
  <2>2. ASSUME NEW u \in Workers, NEW v \in Workers, Step(u)' \in {"client", "consumer"},
               Step(v)' = "enable" \/ (Step(v)' = "put" /\ Step(u)' = "client")
        PROVE  worker'[v].consumer # worker'[u].id
    <3>1. v # w /\ worker'[v] = worker[v] /\ Step(v)' = Step(v)
      BY <1>2, <1>3, <2>2
    <3>2. worker[v].consumer < nextId
      BY <2>2, <3>1 DEF Held, HeldBy
    <3>3. CASE u = w
      BY <1>2, <1>3, <2>2, <3>1, <3>2, <3>3
    <3>4. CASE u # w
      BY <1>3, <2>2, <3>1, <3>4 DEF Held, Unseen
    <3>5. QED
      BY <3>3, <3>4
  <2>3. QED
    BY <2>1, <2>2 DEF Unseen
<1>8. stores'.client < nextId' /\ (~OAuth' => stores'.client = None)
  BY <1>2, TypedParts DEF Held, OAuth, StoresTyped, Ids, None
<1>9. QED
  BY <1>2, <1>4, <1>5, <1>6, <1>7, <1>8 DEF Held

(* Requests leave it alone, and a sync that writes what Kong has.          *)
LEMMA HeldOthers ==
    ASSUME Typed, Held, ~history'.astray,
           \/ \E r \in Requests : CreateRequest(r) \/ Cancel(r)
           \/ FeedRead \/ FeedWrite \/ UNCHANGED vars
    PROVE  Held'
<1>0. StoresTyped /\ Remembered
  BY TypedParts
<1>1. /\ UNCHANGED <<env, worker, nextId>>
      /\ stores'.kong = stores.kong /\ stores'.own = stores.own
      /\ stores'.access = stores.access
  BY OthersChange
<1>2. CASE FeedWrite
  <2>1. /\ stores'.client = stores.client /\ stores'.enabled = stores.enabled
        /\ stores'.acl = stores.acl
    BY <1>0, <1>2 DEF FeedWrite, Synced, StoresTyped
  <2>2. stores.own \in {None, feed} /\ stores'.row = feed
    BY <1>0, <1>2 DEF FeedWrite, Synced, StoresTyped, Remembered
  <2>3. stores'.own # None => stores'.row = stores'.own
    BY <1>1, <2>2
  <2>4. QED
    BY <1>1, <2>1, <2>3 DEF Held, HeldBy, Unseen, KongHeld, ClientHeld, KongGoing, Covered,
       Step, OAuth
<1>3. CASE ~FeedWrite
  <2>1. UNCHANGED stores
    BY <1>3 DEF CreateRequest, Cancel, FeedRead, vars
  <2>2. QED
    BY <1>1, <2>1 DEF Held, HeldBy, Unseen, KongHeld, ClientHeld, KongGoing, Covered,
       Step, OAuth
<1>4. QED
  BY <1>2, <1>3

(* Every step leaves what gives access revocable.                            *)
LEMMA HeldNext ==
    ASSUME Typed, CredentialAssumption, Tracked, Held, [Next]_vars, ~history'.astray
    PROVE  history'.dirty \/ Held'
<1>0. Distinct /\ Numbered /\ Owned /\ StoresTyped'
  BY TypedNext, TypedParts DEF Tracked, Distinct, Typed, TypeOK, StoresTyped
<1>1. ASSUME NEW w \in Workers, Work(w) \/ Stop(w) PROVE history'.dirty \/ Held'
  <2>1. Goes(w) /\ (history'.dirty \/ Effects(w))
    BY <1>1, WorkGoes, WorkEffects
  <2>2. QED
    BY <1>0, <2>1, HeldGoes DEF Goes
<1>2. ASSUME NEW w \in Workers,
             \/ \E r \in Requests : Collect(w, r) \/ Approve(w, r) \/ Reject(w, r)
             \/ Issue(w) \/ Renew(w) \/ Revoke(w)
      PROVE  Held'
  BY <1>0, <1>2, StartsSo, HeldStarts
<1>3. QED
  BY <1>1, <1>2, HeldOthers DEF Next

(* Nothing works without a ServiceAccess through which it can be revoked,     *)
(* whatever overlaps, unless a handler met another one's credential, a        *)
(* failure went unheard of or a restart cut a handler off.                    *)
THEOREM AccessCanBeRevoked == Spec => []EffectIsRevocable
<1> DEFINE Inv == Typed /\ (history.dirty \/ (Tracked /\ (history.astray \/ Held)))
<1>1. Init => Inv
  BY TypedInit, TrackedInit, HeldInit, CredentialAssumption
<1>2. Inv /\ [Next]_vars => Inv'
  <2> SUFFICES ASSUME Inv, [Next]_vars PROVE Inv'
    OBVIOUS
  <2>1. Typed'
    BY TypedNext, CredentialAssumption
  <2>2. CASE history.dirty
    BY <2>1, <2>2, MarksStay
  <2>3. CASE Tracked /\ history.astray
    BY <2>1, <2>3, TrackedNext, MarksStay, CredentialAssumption
  <2>4. CASE Tracked /\ Held
    BY <2>1, <2>4, TrackedNext, HeldNext, CredentialAssumption
  <2>5. QED
    BY <2>2, <2>3, <2>4
<1>3. Inv => EffectIsRevocable
  <2> SUFFICES ASSUME Typed, Held, Resting
               PROVE  /\ stores.acl => stores.access = stores.kong
                      /\ stores.enabled => stores.access = stores.client
    BY DEF EffectIsRevocable
  <2>1. \A w \in Workers : Step(w) = "rest"
    BY DEF Resting, Step, First, Idle
  <2>2. (stores.acl => stores.kong # None) /\ (stores.enabled => stores.client # None)
    BY TypedParts DEF StoresTyped
  <2>3. QED
    BY <2>1, <2>2 DEF Held, KongHeld, ClientHeld, KongGoing, Covered
<1>4. QED
  BY <1>1, <1>2, <1>3, PTL DEF Spec

-----------------------------------------------------------------------------
(***************************************************************************)
(* An issuance of the gateway is whole.  What is in Kong or at the issuer is    *)
(* still being made, or taken back, or has its ServiceAccess; and that works,  *)
(* or is about to be enabled or deleted.                                     *)
(***************************************************************************)

(* The gateway that issues the attempt id is at one of these steps.          *)
Issuing(id, steps) ==
    \E w \in Workers : worker[w].kind = "issue" /\ worker[w].id = id /\ Step(w) \in steps

(* Somebody is deleting its ServiceAccess, and has not come to its consumer.   *)
Withdrawing(id) ==
    \E w \in Workers : worker[w].id = id /\ Step(w) \in {"svc", "unrequest", "unrow"}

Enabled == (Acl => stores.acl) /\ (OAuth => stores.enabled)

Serves(id) ==
    \/ Enabled /\ (stores.active \/ Issuing(id, {"activate"}))
    \/ Issuing(id, {"consult", "enable"}) \/ Withdrawing(id)

KongWhole(id) ==
    stores.kong = id =>
    \/ Covered(id) \/ KongGoing
    \/ Issuing(id, {"key", "row", "sync", "access", "cleanRow", "cleanOwn", "cleanKong"})

ClientWhole(id) ==
    stores.client = id =>
    \/ Covered(id) \/ Issuing(id, Making) \/ (stores.kong = id /\ KongGoing)
    \/ \E v \in Workers : Step(v) = "unclient"

(* Who writes a client back as it was before it was enabled does not meet it.  *)
AccessWhole(id) ==
    Covered(id) =>
    /\ OAuth => stores.client = id
    /\ Serves(id)
    /\ \A v \in Workers : Step(v) = "put" /\ ~worker[v].seen
                          /\ stores.client = worker[v].consumer => Withdrawing(id)

(* While the gateway issues there is no other ServiceAccess, and who deletes   *)
(* what was issued deletes nothing else.                                    *)
IssuedBy(rec, s) ==
    rec.kind = "issue" =>
    /\ stores.access \in {None, rec.id}
    /\ s \in Making => /\ stores.access = None
                       /\ OAuth /\ s # "client" => stores.client = rec.id
                       /\ \A v \in Workers : Step(v) \notin Deleting

Issuers ==
    /\ \A w \in Workers : IssuedBy(worker[w], Step(w))
    /\ stores.access \in history.issued =>
          \A v \in Workers : Step(v) \in Deleting => worker[v].id = stores.access

(* Requests and what acts on them know nothing of what the gateway issued.    *)
Known ==
    /\ \A id \in history.issued : id < nextId
    /\ \A r \in Requests : request[r].access \notin history.issued
    /\ \A w \in Workers : worker[w].kind \in {"collect", "nested", "approve", "reject"} =>
          worker[w].id \notin history.issued

Issued ==
    /\ OneMaker /\ Issuers /\ Known
    /\ \A id \in history.issued : KongWhole(id) /\ ClientWhole(id) /\ AccessWhole(id)

(* What kind of worker comes to some other steps.                            *)
LEMMA StepKinds ==
    ASSUME Typed, NEW w \in Workers
    PROVE  /\ Step(w) = "details" => worker[w].kind \in {"collect", "nested", "approve", "reject"}
           /\ Step(w) = "link" => worker[w].kind = "collect"
           /\ Step(w) = "cleanClient" => worker[w].kind = "issue"
           /\ Step(w) \in {"find", "put"} => worker[w].kind = "renew" /\ OAuth
<1>1. CASE Step(w) = "rest"
  BY <1>1
<1>2. CASE Step(w) # "rest"
  <2>1. PICK t : Follows(worker[w], Step(w), t)
    BY <1>2, StepFollows
  <2>2. QED
    BY <2>1 DEF Follows, Deleting
<1>3. QED
  BY <1>1, <1>2

(* It stays of its kind, and with its attempt.                               *)
LEMMA KindStays ==
    ASSUME Typed, NEW w \in Workers, NEW rec, NEW t, Changes(w, rec, t), t # "rest"
    PROVE  /\ \/ worker'[w].kind = worker[w].kind
              \/ worker[w].kind = "collect" /\ worker'[w].kind = "nested"
           /\ Step(w) # "details" => worker'[w].id = worker[w].id
           /\ worker[w].kind = "issue" =>
                 worker'[w].kind = "issue" /\ worker'[w].id = worker[w].id
<1>1. rec \in Recs /\ Moves(w, rec, t) /\ WorkerChanges(w, rec)
  BY DEF Changes
<1>2. worker'[w].kind = rec.kind /\ worker'[w].id = rec.id
  BY <1>1, AfterMove
<1>3. QED
  BY <1>1, <1>2, StepKinds DEF WorkerChanges

(* Who was at one of the steps is, unless it is the one that has gone on.     *)
LEMMA IssuingGoes ==
    ASSUME Typed, NEW w \in Workers, NEW rec, NEW t, Changes(w, rec, t),
           NEW id, NEW steps, Issuing(id, steps)
    PROVE  \/ Issuing(id, steps)'
           \/ /\ worker[w].kind = "issue" /\ worker[w].id = id /\ Step(w) \in steps
              /\ t \notin steps \/ t = "rest"
              /\ t # "rest" => worker'[w].kind = "issue" /\ worker'[w].id = id
<1>1. PICK u \in Workers : worker[u].kind = "issue" /\ worker[u].id = id /\ Step(u) \in steps
  BY DEF Issuing
<1>2. CASE u # w
  <2>1. worker'[u] = worker[u] /\ Step(u)' = Step(u)
    BY <1>2, Mover
  <2>2. QED
    BY <1>1, <2>1 DEF Issuing
<1>3. CASE u = w
  <2>1. Step(w)' = t
    BY Mover
  <2>2. t # "rest" => worker'[w].kind = "issue" /\ worker'[w].id = id
    BY <1>1, <1>3, KindStays
  <2>3. QED
    BY <1>1, <1>3, <2>1, <2>2 DEF Issuing
<1>4. QED
  BY <1>2, <1>3

(* The consumer in Kong.                                                     *)
LEMMA KongWholeGoes ==
    ASSUME Typed, CredentialAssumption, Distinct, Owned, Held, Known,
           NEW w \in Workers, NEW rec, NEW t, Changes(w, rec, t), Effects(w),
           NEW id \in history.issued, KongWhole(id)
    PROVE  KongWhole(id)'
<1> DEFINE steps == {"key", "row", "sync", "access", "cleanRow", "cleanOwn", "cleanKong"}
<1> SUFFICES ASSUME stores'.kong = id PROVE Covered(id)' \/ KongGoing' \/ Issuing(id, steps)'
  BY DEF KongWhole
<1>1. id # None /\ Step(w)' = t
  BY TypedParts, Mover DEF Remembered, Ids, None
<1>2. KongChanges(w, rec, t) /\ PortalChanges(w, t) /\ IssueGoes(w)
  BY DEF Changes, Effects
<1>3. CASE stores.kong # id
  <2>1. Step(w) = "consumer" /\ worker[w].id = id
    BY <1>1, <1>3, OwnChanges DEF Own
  <2>2. worker[w].kind = "issue"
    BY <2>1, KindAtStep DEF Known, Making
  <2>3. t \in {"key", "row"}
    BY <1>1, <1>2, <1>3, <2>1, <2>2 DEF IssueGoes
  <2>4. QED
    BY <1>1, <2>1, <2>2, <2>3, KindStays DEF Issuing
<1>4. CASE stores.kong = id /\ Covered(id)
  BY <1>1, <1>4, CoveredStays DEF KongGoing
<1>5. CASE stores.kong = id /\ KongGoing
  BY <1>1, <1>5, GoingStays
<1>6. CASE stores.kong = id /\ Issuing(id, steps)
  <2> HIDE DEF steps
  <2>1. CASE /\ worker[w].kind = "issue" /\ worker[w].id = id /\ Step(w) \in steps
             /\ t \notin steps \/ t = "rest"
    <3>1. Step(w) # "cleanKong"
      BY <1>1, <1>2, <1>6, <2>1 DEF KongChanges, Own
    <3>2. Step(w) = "access" /\ t = "consult"
      BY <1>1, <1>2, <2>1, <3>1 DEF steps, IssueGoes
    <3>3. QED
      BY <1>2, <2>1, <3>2 DEF PortalChanges, Covered, Own
  <2>2. QED
    BY <1>6, <2>1, IssuingGoes
<1>7. QED
  BY <1>3, <1>4, <1>5, <1>6 DEF KongWhole

(* The client at the issuer.                                                 *)
LEMMA ClientWholeGoes ==
    ASSUME Typed, CredentialAssumption, Distinct, Owned, Held, Known,
           NEW w \in Workers, NEW rec, NEW t, Changes(w, rec, t), Effects(w),
           NEW id \in history.issued, ClientWhole(id)
    PROVE  ClientWhole(id)'
<1> SUFFICES ASSUME stores'.client = id
             PROVE  \/ Covered(id)' \/ Issuing(id, Making)' \/ (stores'.kong = id /\ KongGoing')
                    \/ \E v \in Workers : Step(v)' = "unclient"
  BY DEF ClientWhole
<1>1. id # None /\ Step(w)' = t
  BY TypedParts, Mover DEF Remembered, Ids, None
<1>2. PortalChanges(w, t) /\ ClientEffects(w) /\ IssueGoes(w)
  BY DEF Changes, Effects
<1>3. CASE stores.client # id
  <2>1. Step(w) = "client" /\ t = "consumer" /\ worker[w].id = id
    BY <1>1, <1>2, <1>3 DEF ClientEffects, Own
  <2>2. worker[w].kind = "issue"
    BY <2>1, KindAtStep DEF Known, Making
  <2>3. QED
    BY <1>1, <2>1, <2>2, KindStays DEF Issuing, Making
<1>4. CASE stores.client = id /\ Covered(id)
  <2>1. \/ Covered(id)'
        \/ stores'.kong = id /\ Step(w)' = "unkong" /\ worker'[w].consumer = id
    BY <1>1, <1>4, CoveredStays
  <2>2. QED
    BY <1>1, <2>1 DEF KongGoing
<1>5. CASE stores.client = id /\ stores.kong = id /\ KongGoing
  <2>1. OAuth
    BY <1>1, <1>5 DEF Held
  <2>2. QED
    BY <1>5, <2>1, GoingStays
<1>6. CASE stores.client = id /\ \E v \in Workers : Step(v) = "unclient"
  <2>1. PICK v \in Workers : Step(v) = "unclient"
    BY <1>6
  <2>2. v # w
    BY <1>1, <1>2, <2>1 DEF ClientEffects
  <2>3. QED
    BY <2>1, <2>2, Mover
<1>7. CASE stores.client = id /\ Issuing(id, Making)
  <2>1. CASE /\ worker[w].kind = "issue" /\ worker[w].id = id /\ Step(w) \in Making
             /\ t \notin Making \/ t = "rest"
    <3>1. OAuth
      BY <1>1, <1>7 DEF Held
    <3>2. Step(w) # "cleanClient"
      BY <1>1, <1>2 DEF ClientEffects
    <3>3. Step(w) # "client"
      BY <1>7, <2>1 DEF Held, Unseen
    <3>4. Step(w) = "access" /\ t = "consult"
      BY <1>1, <1>2, <2>1, <3>1, <3>2, <3>3 DEF Making, IssueGoes
    <3>5. QED
      BY <1>2, <2>1, <3>4 DEF PortalChanges, Covered, Own
  <2>2. QED
    BY <1>7, <2>1, IssuingGoes
<1>8. QED
  BY <1>3, <1>4, <1>5, <1>6, <1>7 DEF ClientWhole

(* Who is deleting the ServiceAccess goes on to its consumer.                *)
LEMMA WithdrawingGoes ==
    ASSUME Typed, CredentialAssumption, Held,
           NEW w \in Workers, NEW rec, NEW t, Changes(w, rec, t), Effects(w),
           NEW id \in history.issued, Covered(id), Covered(id)', Withdrawing(id)
    PROVE  Withdrawing(id)'
<1>1. PICK v \in Workers : worker[v].id = id /\ Step(v) \in {"svc", "unrequest", "unrow"}
  BY DEF Withdrawing
<1>2. id # None
  BY TypedParts DEF Remembered, Ids, None
<1>3. CASE v # w
  BY <1>1, <1>3, Mover DEF Withdrawing
<1>4. CASE v = w
  <2>1. Reads(w) /\ PortalChanges(w, t) /\ Step(w)' = t /\ HeldBy(worker[w], Step(w))
    BY Mover DEF Effects, Changes, Held
  <2>2. t \in {"unrequest", "unrow"}
    <3>1. Step(w) = "svc" => t = "unrequest"
      BY <1>1, <1>4, <2>1 DEF Reads, Covered, Own
    <3>2. Step(w) = "unrequest" => t = "unrow"
      BY <1>1, <1>2, <1>4, <2>1 DEF Reads, Covered, HeldBy
    <3>3. Step(w) # "unrow"
      BY <1>1, <1>2, <1>4, <2>1 DEF PortalChanges, Covered, Own
    <3>4. QED
      BY <1>1, <1>4, <3>1, <3>2, <3>3
  <2>3. worker'[w].id = id
    BY <1>1, <1>4, <2>2, KindStays
  <2>4. QED
    BY <2>1, <2>2, <2>3 DEF Withdrawing
<1>5. QED
  BY <1>3, <1>4

(* What is enabled stays so, or is written back by who is too late for it.    *)
LEMMA EnabledGoes ==
    ASSUME Typed, Owned, Owned',
           NEW w \in Workers, NEW rec, NEW t, Changes(w, rec, t), Effects(w),
           NEW id \in history.issued, Covered(id), Covered(id)', AccessWhole(id),
           OAuth => stores'.client = id, Enabled
    PROVE  Enabled' \/ Withdrawing(id)
<1>1. id # None /\ UNCHANGED env /\ GroupEffects(w) /\ ClientEffects(w)
  BY TypedParts DEF Remembered, Ids, None, Changes, Effects
<1>2. stores.kong = id /\ stores'.kong = id
  BY <1>1 DEF Covered, Owned
<1>3. Acl' => stores'.acl
  BY <1>1, <1>2 DEF Enabled, GroupEffects, Acl
<1>4. CASE OAuth' => stores'.enabled
  BY <1>3, <1>4 DEF Enabled
<1>5. CASE OAuth /\ ~stores'.enabled
  BY <1>1, <1>5 DEF Enabled, ClientEffects, AccessWhole
<1>6. QED
  BY <1>1, <1>4, <1>5 DEF OAuth

(* A ServiceAccess that was issued and is made now.                          *)
LEMMA AccessMadeWhole ==
    ASSUME Typed, CredentialAssumption, Distinct, Owned, OneMaker, Issuers, Known,
           NEW w \in Workers, NEW rec, NEW t, Changes(w, rec, t), Effects(w),
           NEW id \in history.issued, ~Covered(id), Covered(id)'
    PROVE  AccessWhole(id)'
<1>1. id # None /\ Step(w)' = t /\ UNCHANGED env
  BY TypedParts, Mover DEF Remembered, Ids, None, Changes
<1>2. PortalChanges(w, t) /\ ClientEffects(w) /\ IssueGoes(w)
  BY DEF Changes, Effects
<1>3. Step(w) = "access" /\ t \in {"link", "consult"} /\ Own(w) = id
  <2>1. CASE Step(w) = "access"
    BY <1>1, <1>2, <2>1 DEF PortalChanges, Covered
  <2>2. CASE Step(w) # "access"
    <3>1. stores.access = id /\ stores.own # id
      BY <1>1, <1>2, <2>2 DEF PortalChanges, Covered
    <3>2. Step(w) = "row" /\ Own(w) = id
      BY <1>1, <3>1, OwnChanges DEF Covered
    <3>3. QED
      BY <3>1, <3>2 DEF Distinct, Apart, Making, Own
  <2>3. QED
    BY <2>1, <2>2
<1>4. worker[w].kind = "issue" /\ worker[w].id = id
  BY <1>3, KindAtStep DEF Known, Making, Own
<1>5. t = "consult"
  BY <1>1, <1>2, <1>3, <1>4 DEF IssueGoes
<1>6. Issuing(id, {"consult", "enable"})'
  BY <1>1, <1>4, <1>5, KindStays DEF Issuing
<1>7. OAuth' => stores'.client = id
  BY <1>1, <1>2, <1>3, <1>4 DEF OAuth, Issuers, IssuedBy, Making, ClientEffects
<1>8. ASSUME NEW v \in Workers PROVE Step(v)' # "put"
  <2>1. CASE v = w
    BY <1>1, <1>5, <2>1
  <2>2. CASE v # w
    BY <1>4, <2>2, Mover, StepKinds DEF OneMaker, Makers
  <2>3. QED
    BY <2>1, <2>2
<1>9. QED
  BY <1>6, <1>7, <1>8 DEF AccessWhole, Serves

(* One that was there keeps its client,                                      *)
LEMMA ClientStays ==
    ASSUME Typed, CredentialAssumption, Owned, Issuers,
           NEW w \in Workers, ClientEffects(w),
           NEW id \in history.issued, Covered(id), stores.client = id
    PROVE  stores'.client = id
<1>1. id # None
  BY TypedParts DEF Remembered, Ids, None
<1>2. Step(w) # "unclient"
  <2>1. Step(w) = "unclient" => worker[w].id = id
    BY DEF Issuers, Covered, Deleting
  <2>2. QED
    BY <2>1 DEF Owned, OwnedBy, Covered
<1>3. Step(w) # "cleanClient"
  BY <1>1, StepKinds DEF Issuers, IssuedBy, Making, Covered
<1>4. QED
  BY <1>1, <1>2, <1>3 DEF ClientEffects

(* and is enabled and marked active, or given up.                            *)
LEMMA ServesGoes ==
    ASSUME Typed, CredentialAssumption, Owned, Owned', Held,
           NEW w \in Workers, NEW rec, NEW t, Changes(w, rec, t), Effects(w),
           NEW id \in history.issued, Covered(id), Covered(id)', AccessWhole(id),
           OAuth => stores'.client = id
    PROVE  Serves(id)'
<1>1. /\ id # None /\ Step(w)' = t /\ UNCHANGED env
      /\ ActiveEffects(w) /\ ClientEffects(w) /\ IssueGoes(w)
  BY TypedParts, Mover DEF Remembered, Ids, None, Changes, Effects
<1>2. stores.access = id /\ stores'.access = id
  BY DEF Covered
<1>3. CASE Withdrawing(id)
  BY <1>3, WithdrawingGoes DEF Serves
<1>4. CASE Issuing(id, {"consult", "enable"})
  <2>1. CASE /\ worker[w].kind = "issue" /\ worker[w].id = id /\ Step(w) \in {"consult", "enable"}
             /\ t \notin {"consult", "enable"} \/ t = "rest"
             /\ t # "rest" => worker'[w].kind = "issue" /\ worker'[w].id = id
    <3>1. t = "svc" \/ t = "activate"
      BY <1>1, <2>1 DEF IssueGoes, FirstOfSetup
    <3>2. CASE t = "svc"
      BY <1>1, <2>1, <3>2 DEF Serves, Withdrawing
    <3>3. CASE t = "activate"
      <4>1. Step(w) = "consult" => ~Acl /\ ~OAuth
        BY <1>1, <2>1, <3>3 DEF IssueGoes, FirstOfSetup, Enables
      <4>2. Step(w) = "enable" => IF OAuth THEN stores'.enabled ELSE stores'.acl
        BY <1>1, <3>3 DEF ClientEffects
      <4>3. Enabled'
        BY <1>1, <2>1, <4>1, <4>2 DEF Enabled, Acl, OAuth
      <4>4. QED
        BY <1>1, <2>1, <3>3, <4>3 DEF Serves, Issuing
    <3>4. QED
      BY <3>1, <3>2, <3>3
  <2>2. QED
    BY <1>4, <2>1, IssuingGoes DEF Serves
<1>5. CASE Enabled /\ Issuing(id, {"activate"})
  <2>1. CASE worker[w].id = id /\ Step(w) = "activate"
    <3>1. stores'.active
      BY <1>1, <1>2, <2>1 DEF ActiveEffects, Own
    <3>2. QED
      BY <1>3, <1>5, <3>1, EnabledGoes DEF Serves
  <2>2. QED
    BY <1>3, <1>5, <2>1, IssuingGoes, EnabledGoes DEF Serves
<1>6. CASE Enabled /\ stores.active
  <2>1. stores'.active
    BY <1>1, <1>2, <1>6 DEF ActiveEffects
  <2>2. QED
    BY <1>3, <1>6, <2>1, EnabledGoes DEF Serves
<1>7. QED
  BY <1>3, <1>4, <1>5, <1>6 DEF AccessWhole, Serves

(* So what has its ServiceAccess works, or is about to, or is given up.    *)
LEMMA AccessWholeGoes ==
    ASSUME Typed, CredentialAssumption, Distinct, Owned, Owned', Held, OneMaker, Issuers, Known,
           NEW w \in Workers, NEW rec, NEW t, Changes(w, rec, t), Effects(w),
           NEW id \in history.issued, AccessWhole(id)
    PROVE  AccessWhole(id)'
<1> SUFFICES ASSUME Covered(id)' PROVE AccessWhole(id)'
  BY DEF AccessWhole
<1>1. CASE ~Covered(id)
  BY <1>1, AccessMadeWhole
<1>2. CASE Covered(id)
  <2>1. UNCHANGED env /\ Reads(w) /\ ClientEffects(w) /\ Order(worker'[w], Step(w), t)
        /\ Step(w)' = t
    BY Mover DEF Changes, Effects
  <2>2. OAuth => stores.client = id /\ stores'.client = id
    BY <1>2, <2>1, ClientStays DEF AccessWhole
  <2>3. Serves(id)'
    BY <1>2, <2>2, ServesGoes
  <2>4. ASSUME NEW v \in Workers, Step(v)' = "put", ~worker'[v].seen,
               stores'.client = worker'[v].consumer
        PROVE  Withdrawing(id)'
    <3>1. CASE v = w
      <4>1. Step(w) = "find" /\ stores.enabled = worker'[w].seen
        BY <2>1, <2>4, <3>1 DEF Reads, Order
      <4>2. OAuth /\ worker[w].kind = "renew"
        BY <4>1, StepKinds
      <4>3. ~Enabled
        BY <2>4, <3>1, <4>1, <4>2 DEF Enabled
      <4>4. ~Issuing(id, {"consult", "enable"})
        BY <4>2 DEF Issuing, OneMaker, Makers
      <4>5. Withdrawing(id)
        BY <1>2, <4>3, <4>4 DEF AccessWhole, Serves
      <4>6. QED
        BY <1>2, <4>5, WithdrawingGoes
    <3>2. CASE v # w
      <4>1. worker'[v] = worker[v] /\ Step(v) = "put"
        BY <2>4, <3>2, Mover
      <4>2. OAuth
        BY <4>1, StepKinds
      <4>3. Withdrawing(id)
        BY <1>2, <2>2, <2>4, <4>1, <4>2 DEF AccessWhole
      <4>4. QED
        BY <1>2, <4>3, WithdrawingGoes
    <3>3. QED
      BY <3>1, <3>2
  <2>5. QED
    BY <2>1, <2>2, <2>3, <2>4 DEF AccessWhole, OAuth
<1>3. QED
  BY <1>1, <1>2

(* The gateway keeps being the only one that makes a ServiceAccess.          *)
LEMMA IssuedByGoes ==
    ASSUME Typed, CredentialAssumption, OneMaker, Issuers,
           NEW w \in Workers, NEW rec, NEW t, Changes(w, rec, t), Effects(w),
           NEW u \in Workers
    PROVE  IssuedBy(worker[u], Step(u))'
<1>1. /\ Step(w)' = t /\ Order(worker'[w], Step(w), t) /\ UNCHANGED env
      /\ PortalChanges(w, t) /\ ClientEffects(w) /\ Reads(w) /\ IssueGoes(w)
  BY Mover DEF Changes, Effects
<1>2. \/ stores'.access \in {stores.access, None}
      \/ Step(w) = "access" /\ t \in {"link", "consult"} /\ stores'.access = Own(w)
  BY <1>1 DEF PortalChanges
<1>3. stores'.client = stores.client \/ Step(w) \in {"client", "unclient", "cleanClient"}
  BY <1>1 DEF ClientEffects
<1>4. CASE u = w
  <2> SUFFICES ASSUME worker'[w].kind = "issue" PROVE IssuedBy(worker[w], Step(w))'
    BY <1>4 DEF IssuedBy
  <2>1. t # "rest"
    BY AfterMove DEF Changes
  <2>2. worker[w].kind = "issue" /\ worker'[w].id = worker[w].id
    BY <2>1, KindStays
  <2>3. stores.access \in {None, worker[w].id} /\ stores'.access \in {None, worker[w].id}
    BY <1>2, <2>2 DEF Issuers, IssuedBy, Own
  <2>4. ASSUME t \in Making
        PROVE  /\ stores'.access = None
               /\ OAuth => stores'.client = worker[w].id
               /\ \A v \in Workers : Step(v)' \notin Deleting
    <3>1. Step(w) \in Making
      BY <1>1, <2>4 DEF Order, Making
    <3>2. stores'.access = None
      BY <1>2, <2>2, <2>4, <3>1 DEF Issuers, IssuedBy, Making
    <3>3. CASE Step(w) = "client"
      BY <1>1, <2>2, <2>4, <3>1, <3>2, <3>3, Mover DEF IssueGoes, Making, Deleting, ClientEffects,
         Issuers, IssuedBy, Own
    <3>4. CASE Step(w) # "client"
      <4>1. Step(w) \notin {"unclient", "cleanClient"}
        BY <1>1, <2>4 DEF Order, Making
      <4>2. QED
        BY <1>1, <1>3, <2>2, <2>4, <3>1, <3>2, <3>4, <4>1, Mover DEF Making, Deleting,
           Issuers, IssuedBy
    <3>5. QED
      BY <3>3, <3>4
  <2>5. QED
    BY <1>1, <2>2, <2>3, <2>4 DEF IssuedBy, OAuth
<1>5. CASE u # w
  <2>1. worker'[u] = worker[u] /\ Step(u)' = Step(u)
    BY <1>5, Mover
  <2> SUFFICES ASSUME worker[u].kind = "issue" PROVE IssuedBy(worker[u], Step(u))'
    BY <2>1 DEF IssuedBy
  <2>2. worker[w].kind # "issue" /\ Step(w) \notin Making
    BY <1>5, KindAtStep DEF OneMaker, Makers
  <2>3. stores'.access \in {stores.access, None}
    BY <1>2, <2>2 DEF Making
  <2>4. ASSUME Step(u) \in Making
        PROVE  /\ stores.access = None
               /\ \A v \in Workers : Step(v) \notin Deleting /\ Step(v)' \notin Deleting
    <3>1. stores.access = None /\ \A v \in Workers : Step(v) \notin Deleting
      BY <2>4 DEF Issuers, IssuedBy
    <3>2. t \notin Deleting
      <4>1. t \in Deleting => t = "svc"
        BY <1>1, <3>1 DEF Order, Deleting
      <4>2. t # "svc"
        BY <1>1, <2>2, <3>1 DEF Reads
      <4>3. QED
        BY <4>1, <4>2
    <3>3. QED
      BY <1>1, <3>1, <3>2, Mover
  <2>5. Step(u) \in Making => stores'.client = stores.client
    BY <1>3, <2>2, <2>4 DEF Making, Deleting
  <2>6. QED
    BY <1>1, <2>1, <2>3, <2>4, <2>5 DEF Issuers, IssuedBy, OAuth
<1>6. QED
  BY <1>4, <1>5

(* Nor does anybody else begin to delete it.                               *)
LEMMA IssuersGoes ==
    ASSUME Typed, CredentialAssumption, OneMaker, Issuers, Known,
           NEW w \in Workers, NEW rec, NEW t, Changes(w, rec, t), Effects(w),
           history'.issued = history.issued
    PROVE  Issuers'
<1>1. /\ Step(w)' = t /\ Order(worker'[w], Step(w), t)
      /\ PortalChanges(w, t) /\ Reads(w) /\ None \notin history.issued
  BY TypedParts, Mover DEF Changes, Effects, Remembered, Ids, None
<1>2. ASSUME stores'.access \in history.issued, NEW v \in Workers, Step(v)' \in Deleting
      PROVE  worker'[v].id = stores'.access
  <2>1. CASE stores'.access # stores.access
    <3>1. Step(w) = "access" /\ t \in {"link", "consult"} /\ stores'.access = worker[w].id
      BY <1>1, <1>2, <2>1 DEF PortalChanges, Own
    <3>2. worker[w].kind = "issue" /\ Step(w) \in Making
      BY <1>2, <3>1, KindAtStep DEF Known, Making
    <3>3. Step(v) \notin Deleting
      BY <3>2 DEF Issuers, IssuedBy
    <3>4. v # w
      BY <1>1, <1>2, <3>1 DEF Deleting
    <3>5. QED
      BY <1>2, <3>3, <3>4, Mover
  <2>2. CASE stores'.access = stores.access /\ v # w
    BY <1>2, <2>2, Mover DEF Issuers
  <2>3. CASE stores'.access = stores.access /\ v = w
    <3>1. t \in Deleting /\ t # "rest"
      BY <1>1, <1>2, <2>3 DEF Deleting
    <3>2. CASE Step(w) \in Deleting
      <4>1. worker'[w].id = worker[w].id
        BY <3>1, <3>2, KindStays DEF Deleting
      <4>2. QED
        BY <1>2, <2>3, <3>2, <4>1 DEF Issuers
    <3>3. CASE Step(w) \notin Deleting
      <4>1. t = "svc"
        BY <1>1, <3>1, <3>3 DEF Order, Deleting
      <4>2. CASE worker[w].kind = "issue"
        BY <1>1, <1>2, <2>3, <3>1, <4>2, KindStays DEF Issuers, IssuedBy
      <4>3. CASE worker'[w].id = stores.access
        BY <2>3, <4>3
      <4>4. QED
        BY <1>1, <4>1, <4>2, <4>3 DEF Reads
    <3>4. QED
      BY <3>2, <3>3
  <2>4. QED
    BY <2>1, <2>2, <2>3
<1>3. QED
  BY <1>2, IssuedByGoes DEF Issuers

(* No request comes to refer to what the gateway issued.                   *)
LEMMA KnownGoes ==
    ASSUME Typed, CredentialAssumption, Known,
           NEW w \in Workers, NEW rec, NEW t, Changes(w, rec, t), Effects(w),
           history'.issued = history.issued
    PROVE  Known'
<1>1. /\ Step(w)' = t /\ Reads(w) /\ RequestsChange(w) /\ nextId' = nextId
      /\ None \notin history.issued
  BY TypedParts, Mover DEF Changes, Effects, Remembered, Ids, None
<1>2. \A r \in Requests : request'[r].access \notin history.issued
  BY <1>1, StepKinds DEF RequestsChange, Known, Own
<1>3. ASSUME NEW v \in Workers, worker'[v].kind \in {"collect", "nested", "approve", "reject"}
      PROVE  worker'[v].id \notin history.issued
  <2>1. CASE v # w
    BY <1>3, <2>1, Mover DEF Known
  <2>2. CASE v = w
    <3>1. t # "rest"
      BY <1>3, <2>2, AfterMove DEF Changes
    <3>2. worker[w].id \notin history.issued
      BY <1>3, <2>2, <3>1, KindStays DEF Known
    <3>3. \/ worker'[w].id = worker[w].id
          \/ \E r \in Requests : worker'[w].id = request[r].access
      BY <1>1, <3>1, KindStays DEF Reads
    <3>4. QED
      BY <2>2, <3>2, <3>3 DEF Known
  <2>3. QED
    BY <2>1, <2>2
<1>4. QED
  BY <1>1, <1>2, <1>3 DEF Known

(* What starts finds it so.                                                *)
LEMMA IssuersStarts ==
    ASSUME Typed, CredentialAssumption, Distinct, Owned, Held, Issuers, Known,
           NEW w \in Workers, NEW kind, NEW id, NEW key, NEW s, Starting(w, kind, id, key, s),
           kind = "issue" => Resting
    PROVE  Issuers' /\ Known'
<1>1. PICK rec \in Recs : rec.id = id /\ rec.kind = kind /\ Moves(w, rec, s)
  BY DEF Starting
<1>2. /\ s \in {"client", "consumer", "find", "locate", "svc", "write"}
      /\ s = "svc" => id = stores.access /\ id # None
      /\ kind = "issue" => id = nextId /\ s = FirstOfMaking /\ stores.row = None
      /\ kind \in {"collect", "issue"} => id = nextId /\ nextId' = nextId + 1
      /\ kind \in {"approve", "reject"} => id = None
      /\ kind \in {"collect", "issue", "renew", "revoke", "approve", "reject"}
      /\ Step(w) = "rest" /\ UNCHANGED <<env, stores, request>> /\ nextId' \in {nextId, nextId + 1}
      /\ nextId \in Nat
      /\ history'.issued = IF kind = "issue" THEN history.issued \cup {id} ELSE history.issued
  BY TypedParts DEF Starting, StartNoted, FirstOfMaking, FirstOfRenewal, CredentialAssumption
<1>3. /\ \A v \in Workers \ {w} : worker'[v] = worker[v] /\ Step(v)' = Step(v)
      /\ Step(w)' = s /\ worker'[w].id = id /\ worker'[w].kind = kind
  BY <1>1, <1>2, AfterMove
<1>4. history.issued \subseteq Ids /\ None \notin history.issued
  BY TypedParts DEF Remembered, Ids, None
<1>5. kind = "issue" => stores.access = None /\ \A v \in Workers : Step(v) = "rest"
  <2> SUFFICES ASSUME kind = "issue"
               PROVE  stores.access = None /\ \A v \in Workers : Step(v) = "rest"
    OBVIOUS
  <2>1. \A v \in Workers : Step(v) = "rest"
    BY DEF Resting, Step, First, Idle
  <2>2. stores.own = None
    BY <1>2 DEF Held
  <2>3. QED
    BY <2>1, <2>2 DEF Owned, Leaving
<1>6. ASSUME NEW u \in Workers PROVE IssuedBy(worker[u], Step(u))'
  <2>1. CASE u = w
    <3>1. kind = "issue" => (OAuth => s = "client")
      BY <1>2 DEF FirstOfMaking
    <3>2. QED
      BY <1>2, <1>3, <1>5, <2>1, <3>1 DEF IssuedBy, OAuth, Deleting
  <2>2. CASE u # w
    BY <1>2, <1>3, <2>2 DEF Issuers, IssuedBy, OAuth, Deleting
  <2>3. QED
    BY <2>1, <2>2
<1>7. ASSUME stores'.access \in history'.issued, NEW v \in Workers, Step(v)' \in Deleting
      PROVE  worker'[v].id = stores'.access
  <2>1. stores.access \in history.issued
    BY <1>2, <1>7 DEF Distinct, Numbered
  <2>2. QED
    BY <1>2, <1>3, <1>7, <2>1 DEF Issuers, Deleting
<1>8. \A i \in history'.issued : i < nextId'
  BY <1>2, <1>4 DEF Known, Ids
<1>9. \A r \in Requests : request'[r].access \notin history'.issued
  BY <1>2 DEF Known, Distinct, Numbered
<1>10. ASSUME NEW v \in Workers, worker'[v].kind \in {"collect", "nested", "approve", "reject"}
       PROVE  worker'[v].id \notin history'.issued
  <2>1. CASE v = w
    <3>1. id \in {None, nextId} /\ history'.issued = history.issued
      BY <1>2, <1>3, <1>10, <2>1
    <3>2. QED
      BY <1>2, <1>3, <1>4, <2>1, <3>1 DEF Known
  <2>2. CASE v # w
    BY <1>2, <1>3, <1>10, <2>2 DEF Known, Distinct, Numbered
  <2>3. QED
    BY <2>1, <2>2
<1>11. QED
  BY <1>6, <1>7, <1>8, <1>9, <1>10 DEF Issuers, Known

(* What starts has made nothing and looked up nothing yet.                 *)
LEMMA WholeStarts ==
    ASSUME Typed, CredentialAssumption, Distinct, Held,
           NEW w \in Workers, NEW kind, NEW id, NEW key, NEW s, Starting(w, kind, id, key, s),
           NEW i, i = nextId \/ (KongWhole(i) /\ ClientWhole(i) /\ AccessWhole(i))
    PROVE  KongWhole(i)' /\ ClientWhole(i)' /\ AccessWhole(i)'
<1>1. PICK rec \in Recs : Moves(w, rec, s)
  BY DEF Starting
<1>2. /\ s \in {"client", "consumer", "find", "locate", "svc", "write"}
      /\ Step(w) = "rest" /\ UNCHANGED <<env, stores>> /\ nextId \in Nat
  BY TypedParts DEF Starting, FirstOfMaking, FirstOfRenewal, CredentialAssumption
<1>3. /\ \A v \in Workers \ {w} : worker'[v] = worker[v] /\ Step(v)' = Step(v)
      /\ Step(w)' = s
  BY <1>1, <1>2, AfterMove
<1>4. CASE i = nextId
  BY <1>2, <1>4 DEF KongWhole, ClientWhole, AccessWhole, Covered, Distinct, Numbered, Held
<1>5. CASE KongWhole(i) /\ ClientWhole(i) /\ AccessWhole(i)
  <2>1. ASSUME NEW steps, "rest" \notin steps, Issuing(i, steps) PROVE Issuing(i, steps)'
    BY <1>2, <1>3, <2>1 DEF Issuing
  <2>2. /\ Withdrawing(i) => Withdrawing(i)'
        /\ KongGoing => KongGoing'
        /\ (\E v \in Workers : Step(v) = "unclient") => \E v \in Workers : Step(v)' = "unclient"
    BY <1>2, <1>3 DEF Withdrawing, KongGoing
  <2>3. (Covered(i)' <=> Covered(i)) /\ (Enabled' <=> Enabled) /\ (OAuth' <=> OAuth)
    BY <1>2 DEF Covered, Enabled, OAuth, Acl
  <2>4. KongWhole(i)'
    BY <1>2, <1>5, <2>1, <2>2, <2>3 DEF KongWhole
  <2>5. ClientWhole(i)'
    BY <1>2, <1>5, <2>1, <2>2, <2>3 DEF ClientWhole, Making
  <2>6. Serves(i) => Serves(i)'
    BY <1>2, <2>1, <2>2, <2>3 DEF Serves
  <2>7. ASSUME NEW v \in Workers, Step(v)' = "put" PROVE worker'[v] = worker[v] /\ Step(v) = "put"
    BY <1>2, <1>3, <2>7
  <2>8. AccessWhole(i)'
    BY <1>2, <1>5, <2>2, <2>3, <2>6, <2>7 DEF AccessWhole
  <2>9. QED
    BY <2>4, <2>5, <2>8
<1>6. QED
  BY <1>4, <1>5

(* Requests and the sync leave it alone.                                   *)
LEMMA IssuedOthers ==
    ASSUME Typed, Issued,
           \/ \E r \in Requests : CreateRequest(r) \/ Cancel(r)
           \/ FeedRead \/ FeedWrite \/ UNCHANGED vars
    PROVE  Issued'
<1>0. StoresTyped /\ Remembered
  BY TypedParts
<1>1. /\ UNCHANGED <<env, worker, nextId>>
      /\ stores'.kong = stores.kong /\ stores'.own = stores.own
      /\ stores'.access = stores.access
      /\ \A r \in Requests : request'[r].access \in {request[r].access, None}
  BY OthersChange
<1>2. history'.issued = history.issued /\ None \notin history.issued
  BY <1>0 DEF CreateRequest, Cancel, FeedRead, FeedWrite, vars, Overlapping, Remembered, Ids, None
<1>3. /\ stores'.client = stores.client /\ stores'.enabled = stores.enabled
      /\ stores'.acl = stores.acl /\ stores'.active = stores.active
  BY <1>0 DEF CreateRequest, Cancel, FeedRead, FeedWrite, vars, Synced, StoresTyped
<1>4. \A v \in Workers : Step(v)' = Step(v) /\ worker'[v] = worker[v]
  BY <1>1 DEF Step
<1>5. OneMaker' /\ Issuers' /\ Known'
  BY <1>1, <1>2, <1>3, <1>4 DEF Issued, OneMaker, Issuers, IssuedBy, Known, OAuth
<1>6. ASSUME NEW id \in history.issued PROVE KongWhole(id)' /\ ClientWhole(id)' /\ AccessWhole(id)'
  <2>1. \A steps : Issuing(id, steps)' <=> Issuing(id, steps)
    BY <1>4 DEF Issuing
  <2>2. /\ Withdrawing(id)' <=> Withdrawing(id)
        /\ KongGoing' <=> KongGoing
    BY <1>1, <1>4 DEF Withdrawing, KongGoing
  <2>3. (Covered(id)' <=> Covered(id)) /\ (Enabled' <=> Enabled) /\ (OAuth' <=> OAuth)
    BY <1>1, <1>3 DEF Covered, Enabled, OAuth, Acl
  <2>4. Serves(id)' <=> Serves(id)
    BY <1>3, <2>1, <2>2, <2>3 DEF Serves
  <2>5. KongWhole(id)' /\ ClientWhole(id)'
    BY <1>1, <1>3, <1>4, <2>1, <2>2, <2>3 DEF Issued, KongWhole, ClientWhole
  <2>6. AccessWhole(id)'
    BY <1>3, <1>4, <2>2, <2>3, <2>4 DEF Issued, AccessWhole
  <2>7. QED
    BY <2>5, <2>6
<1>7. QED
  BY <1>2, <1>5, <1>6 DEF Issued

(* Every step leaves what was issued whole, or is taking it back.            *)
LEMMA IssuedNext ==
    ASSUME Typed, CredentialAssumption, MakersAlone, Sound, Sound', Held, Issued, [Next]_vars,
           ~history'.astray
    PROVE  history'.dirty \/ Issued'
<1>0. Distinct /\ Owned /\ Owned' /\ OneMaker' /\ Known /\ Issuers /\ OneMaker
  BY DEF Sound, Tracked, Issued
<1>1. ASSUME NEW w \in Workers, Work(w) \/ Stop(w) PROVE history'.dirty \/ Issued'
  <2>1. Goes(w) /\ (history'.dirty \/ Effects(w)) /\ history'.issued = history.issued
    BY <1>1, WorkGoes, WorkEffects, WorkRemains DEF Remains
  <2>2. ASSUME NEW rec, NEW t, Changes(w, rec, t), Effects(w) PROVE Issued'
    <3>1. Issuers' /\ Known'
      BY <1>0, <2>1, <2>2, IssuersGoes, KnownGoes
    <3>2. ASSUME NEW id \in history.issued
          PROVE  KongWhole(id)' /\ ClientWhole(id)' /\ AccessWhole(id)'
      BY <1>0, <2>2, <3>2, KongWholeGoes, ClientWholeGoes, AccessWholeGoes DEF Issued
    <3>3. QED
      BY <1>0, <2>1, <3>1, <3>2 DEF Issued
  <2>3. QED
    BY <2>1, <2>2 DEF Goes
<1>2. ASSUME NEW w \in Workers,
             \/ \E r \in Requests : Collect(w, r) \/ Approve(w, r) \/ Reject(w, r)
             \/ Issue(w) \/ Renew(w) \/ Revoke(w)
      PROVE  Issued'
  <2>1. PICK kind, id, key, s : Starting(w, kind, id, key, s)
    BY <1>2, StartsSo
  <2>2. /\ kind = "issue" => Resting /\ id = nextId
        /\ history'.issued = IF kind = "issue" THEN history.issued \cup {id} ELSE history.issued
    BY <2>1 DEF MakersAlone, Starting, StartNoted
  <2>3. Issuers' /\ Known'
    BY <1>0, <2>1, <2>2, IssuersStarts
  <2>4. ASSUME NEW i \in history'.issued
        PROVE  KongWhole(i)' /\ ClientWhole(i)' /\ AccessWhole(i)'
    <3>1. i = nextId \/ i \in history.issued
      BY <2>2
    <3>2. i = nextId \/ (KongWhole(i) /\ ClientWhole(i) /\ AccessWhole(i))
      BY <3>1 DEF Issued
    <3>3. QED
      BY <1>0, <2>1, <3>2, WholeStarts
  <2>5. QED
    BY <1>0, <2>3, <2>4 DEF Issued
<1>3. QED
  BY <1>1, <1>2, IssuedOthers DEF Next

(* A gateway's issuance is all or nothing, whatever is approved, rejected,    *)
(* cancelled or revoked meanwhile: when it fails, half way or at the last      *)
(* call, nothing that it made is left in Kong, at the issuer or as a          *)
(* ServiceAccess, as long as every failure is heard of and no restart cuts   *)
(* the issuance or its cleanup off.                                         *)
THEOREM IssuancesAreWhole == MakersAlone => (Spec => []IssuanceIsWhole)
<1> SUFFICES ASSUME MakersAlone PROVE Spec => []IssuanceIsWhole
  OBVIOUS
<1> DEFINE Inv == Typed /\ (history.dirty \/ (Sound /\ (history.astray \/ (Held /\ Issued))))
<1>1. Init => Inv
  <2> SUFFICES ASSUME Init PROVE Typed /\ Sound /\ Held /\ Issued
    OBVIOUS
  <2>1. Typed
    BY TypedInit, CredentialAssumption
  <2>2. Sound /\ Held
    BY SoundInit, HeldInit
  <2>3. \A w \in Workers : worker[w] = Idle /\ Step(w) = "rest"
    BY DEF Init, Idle, Step, First
  <2>4. Issuers
    BY <2>3 DEF Init, Issuers, IssuedBy, Idle, Deleting
  <2>5. Known
    BY <2>3 DEF Init, Known, Idle
  <2>6. Issued
    BY <2>2, <2>4, <2>5 DEF Init, Issued, Sound
  <2>7. QED
    BY <2>1, <2>2, <2>6
<1>2. Inv /\ [Next]_vars => Inv'
  <2> SUFFICES ASSUME Inv, [Next]_vars PROVE Inv'
    OBVIOUS
  <2>1. Typed'
    BY TypedNext, CredentialAssumption
  <2>2. CASE history.dirty
    BY <2>1, <2>2, MarksStay
  <2>3. CASE Sound /\ ~history.dirty
    <3>1. history'.dirty \/ Sound'
      BY <2>3, SoundNext, CredentialAssumption
    <3>2. CASE history.astray
      BY <2>1, <3>1, <3>2, MarksStay
    <3>3. CASE Held /\ Issued /\ Sound' /\ ~history'.astray
      <4>1. Tracked
        BY <2>3 DEF Sound
      <4>2. (history'.dirty \/ Held') /\ (history'.dirty \/ Issued')
        BY <2>3, <3>3, <4>1, HeldNext, IssuedNext, CredentialAssumption
      <4>3. QED
        BY <2>1, <3>3, <4>2
    <3>4. QED
      BY <2>1, <2>3, <3>1, <3>2, <3>3
  <2>4. QED
    BY <2>2, <2>3
<1>3. Inv => IssuanceIsWhole
  <2> SUFFICES ASSUME Typed, Sound, Issued, Resting, NEW id \in history.issued,
                      id \in {stores.kong, stores.client, stores.access}
               PROVE  InEffect(id)
    BY DEF IssuanceIsWhole
  <2>1. \A w \in Workers : Step(w) = "rest"
    BY DEF Resting, Step, First, Idle
  <2>2. id # None
    BY TypedParts DEF Remembered, Ids, None
  <2>3. /\ ~KongGoing /\ ~Withdrawing(id) /\ ~Leaving
        /\ \A steps : "rest" \notin steps => ~Issuing(id, steps)
    BY <2>1 DEF KongGoing, Withdrawing, Leaving, Issuing
  <2>4. Covered(id)
    <3>1. stores.kong = id => Covered(id)
      BY <2>3 DEF Issued, KongWhole
    <3>2. stores.client = id => Covered(id)
      <4>1. ~Issuing(id, Making)
        BY <2>1 DEF Issuing, Making
      <4>2. QED
        BY <2>1, <2>3, <4>1 DEF Issued, ClientWhole
    <3>3. stores.access = id => Covered(id)
      BY <2>2, <2>3 DEF Sound, Tracked, Owned, Covered
    <3>4. QED
      BY <3>1, <3>2, <3>3
  <2>5. Enabled /\ stores.active /\ (OAuth => stores.client = id)
    BY <2>3, <2>4 DEF Issued, AccessWhole, Serves
  <2>6. stores.kong = id
    BY <2>2, <2>4 DEF Sound, Tracked, Owned, Covered
  <2>7. QED
    BY <2>4, <2>5, <2>6 DEF InEffect, Enabled, Covered
<1>4. QED
  BY <1>1, <1>2, <1>3, PTL DEF Spec

-----------------------------------------------------------------------------
(***************************************************************************)
(* What is marked as issued.  As long as no two activities overlap, what a   *)
(* request that is marked as issued is linked to works, or the one worker    *)
(* that is at work is enabling it and takes the mark back when that fails.   *)
(***************************************************************************)

(* Who approves a request, or ends its collection.                           *)
Deciders == {"approve", "nested"}

(* What a step does to the requests.                                         *)
RequestEffects(w) ==
    LET s == Step(w)  t == Step(w)'  r == worker[w].req IN
    /\ t # "rest" => worker'[w].req = r
    /\ s \notin {"link", "write", "complete", "unissue", "unrequest"} => request' = request
    /\ s \in {"link", "write", "complete", "unissue"} =>
          /\ \A q \in Requests \ {r} : request'[q] = request[q]
          /\ r \in Requests /\ request'[r].made = request[r].made
    /\ s \in {"write", "complete", "unissue"} => request'[r].access = request[r].access
    /\ s = "link" => /\ request'[r].issued = request[r].issued
                     /\ request'[r].complete = request[r].complete
    /\ s = "write" =>
          \/ request' = request /\ t = "rest"
          \/ /\ request[r].made /\ request'[r].complete
             /\ request'[r].issued <=> (worker[w].kind = "approve" \/ request[r].issued)
             /\ t = IF Len(worker[w].todo) > 1 THEN "details" ELSE "rest"
    /\ s = "complete" =>
          \/ request' = request /\ t = "unissue"
          \/ /\ request[r].made /\ request'[r].complete /\ request'[r].issued
             /\ t = IF Open("approve", r) THEN "details" ELSE "rest"
             /\ t # "rest" => worker'[w].kind = "nested"
    /\ s = "unissue" =>
          IF request[r].made THEN ~request'[r].issued /\ ~request'[r].complete
                             ELSE request' = request
    /\ s = "unrequest" => \A q \in Requests :
          request'[q] = IF request[q].made /\ request[q].access = Own(w) THEN Gone ELSE request[q]
    /\ s = "details" /\ t \notin {"rest", "unissue"} => worker'[w].id = request[r].access

(* How one step follows the other in a collection and in an update.           *)
UpdateGoes(w) ==
    LET s == Step(w)  t == Step(w)'  kind == worker[w].kind IN
    /\ t = "details" => s \in {"link", "write", "complete"}
    /\ kind = "collect" =>
          /\ s = "client" => t \in {"consumer", "unissue"}
          /\ s = "consumer" => t \in {"key", "row", "unissue"}
          /\ s = "unissue" => t = "rest"
    /\ kind \in Deciders =>
          /\ s = "details" => t \in {FirstOfSetup, "unissue"}
          /\ s = "enable" => t \in {"activate", "unissue"}
          /\ s = "activate" => t = "resync"
          /\ s \in {"resync", "unissue"} => t \in {"rest", "unissue"}
    /\ kind = "reject" =>
          /\ s = "details" => t \in {"svc", "unissue"}
          /\ s = "unissue" => t = "rest"

(* A worker that went past a step or threw kept its request.                  *)
LEMMA ThrownReply ==
    ASSUME Typed, NEW w \in Workers, NEW s \in Attempted, Step(w) = s, Throws(w, s)
    PROVE  RequestEffects(w) /\ UpdateGoes(w)
<1>1. /\ Step(w)' = FirstOfRecovery(worker[w].kind, s)
      /\ Step(w)' # "rest" => worker'[w].req = worker[w].req
      /\ request' = request
  BY TypedParts, MovesTo DEF Throws
<1>2. s # "unissue" /\ s # "unrequest" /\ s # "activate"
  BY DEF Attempted
<1>3. s \in {"link", "write", "complete"} =>
         /\ worker[w].req \in Requests
         /\ worker[w].kind \in IF s = "write" THEN {"approve", "reject"} ELSE {"collect"}
  <2>1. PICK r \in Recs : r = worker[w]
    BY TypedParts
  <2>2. PICK t : Follows(r, s, t)
    BY <1>1, <2>1, StepFollows DEF Attempted
  <2>3. s \in {"link", "write", "complete"} =>
           r.kind \in IF s = "write" THEN {"approve", "reject"} ELSE {"collect"}
    BY <2>2 DEF Follows
  <2>4. QED
    BY <2>1, <2>3, TypedParts DEF Programmed, Carries
<1>4. s = "details" => worker[w].kind \in {"collect", "nested", "approve", "reject"}
  BY StepKinds
<1>5. RequestEffects(w)
  <2>1. s = "write" => Step(w)' = "rest"
    BY <1>1, KindAtStep, <1>3 DEF FirstOfRecovery
  <2>2. s \in {"complete", "details"} => Step(w)' = "unissue"
    BY <1>1, <1>3, <1>4, KindAtStep DEF FirstOfRecovery
  <2>3. QED
    BY <1>1, <1>2, <1>3, <2>1, <2>2 DEF RequestEffects
<1>6. UpdateGoes(w)
  BY <1>1, <1>2, <1>4 DEF UpdateGoes, FirstOfRecovery, Deciders
<1>7. QED
  BY <1>5, <1>6

(* A step that goes on takes the way of its program.                         *)
LEMMA PassedGoes ==
    ASSUME Typed, NEW w \in Workers, Follows(worker[w], Step(w), Step(w)'),
           Step(w) = "details" => worker[w].kind # "reject"
    PROVE  UpdateGoes(w)
<1>1. PICK r, s, t : r \in Recs /\ r = worker[w] /\ s = Step(w) /\ t = Step(w)'
  BY TypedParts
<1>2. Follows(r, s, t)
  BY <1>1
<1>3. t = "details" => s \in {"link", "write", "complete"}
  BY <1>2 DEF Follows, Enables
<1>4. r.kind = "collect" =>
          /\ s = "client" => t \in {"consumer", "unissue"}
          /\ s = "consumer" => t \in {"key", "row", "unissue"}
          /\ s = "unissue" => t = "rest"
  BY <1>2 DEF Follows
<1>5. r.kind \in Deciders =>
          /\ s = "details" => t \in {FirstOfSetup, "unissue"}
          /\ s = "enable" => t \in {"activate", "unissue"}
          /\ s = "activate" => t = "resync"
          /\ s \in {"resync", "unissue"} => t \in {"rest", "unissue"}
  BY <1>2 DEF Follows, Deciders, FirstOfSetup
<1>6. r.kind = "reject" => /\ s = "details" => t \in {"svc", "unissue"}
                           /\ s = "unissue" => t = "rest"
  BY <1>1, <1>2 DEF Follows
<1>7. QED
  BY <1>1, <1>3, <1>4, <1>5, <1>6 DEF UpdateGoes

(* A step that the request and what becomes of it are not about.             *)
LEMMA PassedReply ==
    ASSUME Typed, NEW w \in Workers, NEW s, Step(w) = s,
           s \notin {"link", "write", "complete", "unissue", "unrequest", "details"},
           request' = request, NEW rec \in Recs, rec.req = worker[w].req, Went(w, rec, s)
    PROVE  RequestEffects(w) /\ UpdateGoes(w)
<1>1. PICK t : Follows(worker[w], s, t) /\ Moves(w, rec, t)
  BY DEF Went
<1>2. Step(w)' = t /\ (t # "rest" => worker'[w].req = worker[w].req)
  BY <1>1, MovesTo, TypedParts
<1>3. QED
  BY <1>1, <1>2, PassedGoes DEF RequestEffects

(* A call whose failure is thrown,                                           *)
LEMMA CalledReply ==
    ASSUME Typed, NEW w \in Workers, NEW s \in Attempted, NEW able, NEW new,
           Called(w, s, able, new), s \notin {"link", "write", "complete", "details"}
    PROVE  RequestEffects(w) /\ UpdateGoes(w)
<1>1. CASE Throws(w, s)
  BY <1>1, ThrownReply DEF Called
<1>2. CASE Went(w, worker[w], s) /\ UNCHANGED request
  BY <1>2, PassedReply, TypedParts DEF Called, Attempted
<1>3. QED
  BY <1>1, <1>2 DEF Called

(* and a call whose failure is only logged.                                  *)
LEMMA TriedReply ==
    ASSUME Typed, NEW w \in Workers, NEW s, NEW able, NEW new, Tried(w, s, able, new),
           s \notin {"link", "write", "complete", "unissue", "unrequest", "details"}
    PROVE  RequestEffects(w) /\ UpdateGoes(w)
BY PassedReply, TypedParts DEF Tried

(* The calls of both kinds.                                                  *)
LEMMA CallsReply ==
    ASSUME Typed, CredentialAssumption, NEW w \in Workers,
           \/ RegisterClient(w) \/ CreateKongConsumer(w) \/ AddConsumerRow(w)
           \/ ForceSync(w) \/ AddServiceAccess(w) \/ PutClient(w)
           \/ Activate(w) \/ DeleteKeyAuth(w) \/ CleanRow(w) \/ CleanKong(w)
           \/ CleanClient(w) \/ DeleteClient(w) \/ DeleteServiceAccess(w) \/ Relink(w)
    PROVE  RequestEffects(w) /\ UpdateGoes(w)
<1>1. CASE \/ RegisterClient(w) \/ CreateKongConsumer(w) \/ AddConsumerRow(w)
           \/ ForceSync(w) \/ AddServiceAccess(w) \/ PutClient(w)
  <2>1. PICK s \in {"client", "consumer", "row", "sync", "resync", "access", "put"} :
           \E able, new : Called(w, s, able, new)
    BY <1>1, CallsMove, Zenon
  <2>2. PICK able, new : Called(w, s, able, new)
    BY <2>1
  <2>3. s \in Attempted /\ s \notin {"link", "write", "complete", "details"}
    BY DEF Attempted
  <2>4. QED
    BY <2>2, <2>3, CalledReply, Zenon
<1>2. CASE \/ Activate(w) \/ DeleteKeyAuth(w) \/ CleanRow(w) \/ CleanKong(w)
           \/ CleanClient(w) \/ DeleteClient(w) \/ DeleteServiceAccess(w) \/ Relink(w)
  <2>1. PICK s \in {"activate", "unkey", "cleanRow", "cleanOwn", "cleanKong", "cleanClient",
                    "unclient", "unaccess", "relink"} :
           \E able, new : Tried(w, s, able, new) \/ (s = "unkey" /\ Called(w, s, able, new))
    BY <1>2, TriesMove, RelinkMoves
  <2>2. PICK able, new : Tried(w, s, able, new) \/ (s = "unkey" /\ Called(w, s, able, new))
    BY <2>1
  <2>3. CASE Tried(w, s, able, new)
    BY <2>3, TriedReply
  <2>4. CASE s = "unkey" /\ Called(w, s, able, new)
    BY <2>4, CalledReply DEF Attempted
  <2>5. QED
    BY <2>2, <2>3, <2>4
<1>3. QED
  BY <1>1, <1>2

(* A step that looks something up, adds a key or deletes the row.            *)
LEMMA LooksReply ==
    ASSUME Typed, CredentialAssumption, NEW w \in Workers,
           \/ AddKeyAuth(w) \/ Locate(w) \/ FindClient(w) \/ Consult(w) \/ Enable(w)
           \/ LookUpAccess(w) \/ DeleteRow(w) \/ DeleteKongConsumer(w)
    PROVE  history'.dirty \/ (RequestEffects(w) /\ UpdateGoes(w))
<1>0. worker[w] \in Recs
  BY TypedParts
<1>1. ASSUME NEW s \in {"key", "newkey", "locate", "find", "consult", "enable"}, Step(w) = s,
             \/ Throws(w, s)
             \/ request' = request /\ \E rec \in Recs : rec.req = worker[w].req /\ Went(w, rec, s)
      PROVE  RequestEffects(w) /\ UpdateGoes(w)
  BY <1>1, ThrownReply, PassedReply DEF Attempted
<1>2. CASE AddKeyAuth(w)
  <2>1. PICK s \in {"key", "newkey"} :
          /\ Step(w) = s
          /\ \/ Throws(w, s)
             \/ request' = request /\ \E rec \in Recs : rec.req = worker[w].req /\ Went(w, rec, s)
    BY <1>2, AddKeyMoves DEF Notes
  <2>2. QED
    BY <1>1, <2>1
<1>3. CASE Locate(w) \/ FindClient(w) \/ Consult(w) \/ Enable(w)
  <2>1. PICK s \in {"locate", "find", "consult", "enable"} :
          /\ Step(w) = s
          /\ \/ Throws(w, s)
             \/ request' = request /\ \E rec \in Recs : rec.req = worker[w].req /\ Went(w, rec, s)
    <3>1. CASE Locate(w)
      BY <3>1, LocateMoves DEF Notes
    <3>2. CASE FindClient(w)
      BY <3>2, FindMoves DEF Notes
    <3>3. CASE Consult(w)
      BY <3>3, ConsultMoves DEF Notes
    <3>4. CASE Enable(w)
      BY <1>0, <3>4, EnableMoves
    <3>5. QED
      BY <1>3, <3>1, <3>2, <3>3, <3>4
  <2>2. QED
    BY <1>1, <2>1
<1>4. ASSUME NEW s \in {"svc", "unkong"}, Step(w) = s, request' = request,
             NEW rec \in Recs, rec.req = worker[w].req, NEW t \in {"unrequest", "unaccess"},
             Moves(w, rec, t)
      PROVE  RequestEffects(w) /\ UpdateGoes(w)
  <2>1. Step(w)' = t /\ worker'[w].req = worker[w].req
    BY <1>4, MovesTo, TypedParts
  <2>2. QED
    BY <1>4, <2>1 DEF RequestEffects, UpdateGoes
<1>5. CASE LookUpAccess(w)
  <2>1. /\ Step(w) = "svc" /\ request' = request
        /\ \/ \E rec \in Recs : rec.req = worker[w].req /\ Moves(w, rec, "unrequest")
           \/ Went(w, worker[w], "svc")
    BY <1>5, AccessMoves DEF Notes
  <2>2. QED
    BY <1>0, <1>4, <2>1, PassedReply
<1>6. CASE DeleteKongConsumer(w)
  <2>1. /\ Step(w) = "unkong" /\ request' = request
        /\ Moves(w, worker[w], "unaccess") \/ Went(w, worker[w], "unkong")
    BY <1>6, DeletesMove
  <2>2. QED
    BY <1>0, <1>4, <2>1, PassedReply
<1>7. CASE DeleteRow(w)
  <2>1. /\ Step(w) = "unrow" /\ request' = request
        /\ history' = [history EXCEPT !.dirty = TRUE] \/ Went(w, worker[w], "unrow")
    BY <1>7, DeletesMove
  <2>2. QED
    BY <1>0, <2>1, PassedReply, DirtyNow
<1>8. QED
  BY <1>2, <1>3, <1>5, <1>6, <1>7

(* A lookup for an update reads what the request is linked to.               *)
LEMMA DetailsReply ==
    ASSUME Typed, NEW w \in Workers, LookUpDetails(w)
    PROVE  RequestEffects(w) /\ UpdateGoes(w)
<1>1. Step(w) = "details" /\ "details" \in Attempted
  BY DetailsMove DEF Attempted
<1>2. CASE Throws(w, "details")
  BY <1>1, <1>2, ThrownReply
<1>3. CASE ~Throws(w, "details")
  <2>1. PICK rec, t :
          /\ rec \in Recs /\ rec.req = worker[w].req /\ rec.id = request[worker[w].req].access
          /\ rec.kind = worker[w].kind /\ UNCHANGED request /\ Moves(w, rec, t)
          /\ \/ worker[w].kind = "reject" /\ t = "svc"
             \/ worker[w].kind # "reject" /\ Follows(worker[w], "details", t)
    BY <1>3, DetailsMove DEF Notes, Went
  <2>2. /\ Step(w)' = t
        /\ t # "rest" => worker'[w].req = rec.req /\ worker'[w].id = rec.id
    BY <2>1, MovesTo, TypedParts
  <2>3. RequestEffects(w)
    BY <1>1, <2>1, <2>2 DEF RequestEffects
  <2>4. UpdateGoes(w)
    <3>1. CASE worker[w].kind = "reject"
      BY <1>1, <2>1, <2>2, <3>1 DEF UpdateGoes, Deciders
    <3>2. CASE worker[w].kind # "reject"
      BY <1>1, <2>1, <2>2, <3>2, PassedGoes
    <3>3. QED
      BY <3>1, <3>2
  <2>5. QED
    BY <2>3, <2>4
<1>4. QED
  BY <1>2, <1>3

(* A worker that proceeds with nothing left rests.                           *)
LEMMA WriteLands ==
    ASSUME Typed, NEW w \in Workers, Doing(w, "write"), Proceed(w)
    PROVE  Step(w)' = IF Len(worker[w].todo) > 1 THEN "details" ELSE "rest"
<1>1. PICK r \in Recs : r = worker[w]
  BY TypedParts
<1>2. r.todo \in Seq(Steps) /\ r.todo # <<>>
  BY <1>1 DEF Doing, Recs
<1>3. Went(w, worker[w], "write")
  BY Proceeds
<1>4. Follows(r, "write", Step(w)')
  BY <1>1, <1>3, Lands
<1>5. Step(w)' \in {"details", "rest"}
  BY <1>4 DEF Follows
<1>6. worker'[w].todo = Tail(r.todo)
  <2>1. worker' = [worker EXCEPT ![w] = IF Tail(r.todo) = <<>> THEN Idle
                                        ELSE [r EXCEPT !.todo = Tail(r.todo)]]
    BY <1>1 DEF Proceed, Continue, Rest
  <2>2. worker'[w] = IF Tail(r.todo) = <<>> THEN Idle ELSE [r EXCEPT !.todo = Tail(r.todo)]
    BY <2>1, TypedParts
  <2>3. [r EXCEPT !.todo = Tail(r.todo)].todo = Tail(r.todo)
    BY DEF Recs
  <2>4. Idle.todo = <<>>
    BY DEF Idle
  <2>5. QED
    BY <2>2, <2>3, <2>4
<1>7. Tail(r.todo) = <<>> <=> ~(Len(r.todo) > 1)
  <2>1. Tail(r.todo) \in Seq(Steps) /\ Len(Tail(r.todo)) = Len(r.todo) - 1
        /\ Len(r.todo) \in Nat \ {0}
    BY <1>2, HeadTailProperties, EmptySeq
  <2>2. Tail(r.todo) = <<>> <=> Len(Tail(r.todo)) = 0
    BY <2>1, EmptySeq
  <2>3. PICK n \in Nat \ {0} : n = Len(r.todo)
    BY <2>1
  <2>4. Tail(r.todo) = <<>> <=> n - 1 = 0
    BY <2>1, <2>2, <2>3
  <2>5. n - 1 = 0 <=> ~(n > 1)
    OBVIOUS
  <2>6. QED
    BY <2>3, <2>4, <2>5
<1>8. Tail(r.todo) # <<>> => Head(Tail(r.todo)) \in Steps
  BY <1>2, HeadTailProperties
<1>9. "rest" \notin Steps
  BY DEF Steps, Deleting
<1>10. QED
  BY <1>1, <1>5, <1>6, <1>7, <1>8, <1>9 DEF Step, First

(* The update of an approval or a rejection,                                *)
LEMMA WriteReply ==
    ASSUME Typed, NEW w \in Workers, Write(w)
    PROVE  RequestEffects(w) /\ UpdateGoes(w)
<1>1. /\ Step(w) = "write" /\ "write" \in Attempted /\ worker[w] \in Recs
      /\ Doing(w, "write")
      /\ worker[w].req \in Requests /\ worker[w].kind \in {"approve", "reject"}
  <2>1. Doing(w, "write")
    BY DEF Write, Attempt
  <2>2. /\ Step(w) = "write" /\ worker[w] \in Recs
        /\ worker[w].req \in Requests /\ worker[w].kind \in {"approve", "reject"}
    BY WriteMoves, TypedParts, Zenon
  <2>3. QED
    BY <2>1, <2>2 DEF Attempted
<1>2. CASE /\ Continue(w, worker[w], Recovery(worker[w].kind, "write"))
           /\ UNCHANGED <<request, stores, history>>
  <2>1. Throws(w, "write")
    BY <1>1, <1>2, AttemptMoves
  <2>2. QED
    BY <1>1, <2>1, ThrownReply
<1>3. CASE /\ request[worker[w].req].made /\ Proceed(w)
           /\ request' = [request EXCEPT ![worker[w].req] =
                 IF worker[w].kind = "reject"
                 THEN [@ EXCEPT !.approved = FALSE, !.complete = TRUE]
                 ELSE [@ EXCEPT !.approved = TRUE, !.issued = TRUE, !.complete = TRUE]]
  <2>1. PICK r \in Requests, old \in RequestRecs : r = worker[w].req /\ old = request[r]
    BY <1>1, TypedParts DEF RequestsTyped, RequestRecs
  <2>2. /\ old.made /\ Went(w, worker[w], "write")
        /\ request' = [request EXCEPT ![r] =
               IF worker[w].kind = "reject"
               THEN [old EXCEPT !.approved = FALSE, !.complete = TRUE]
               ELSE [old EXCEPT !.approved = TRUE, !.issued = TRUE, !.complete = TRUE]]
    BY <1>1, <1>3, <2>1, Proceeds
  <2>3. Doing(w, "write") /\ Proceed(w)
    BY <1>1, <1>3
  <2>4. /\ Step(w)' = IF Len(worker[w].todo) > 1 THEN "details" ELSE "rest"
        /\ Step(w)' # "rest" => worker'[w].req = worker[w].req
    BY <1>1, <2>2, <2>3, WriteLands, MovesTo, TypedParts DEF Went
  <2>5. /\ \A q \in Requests \ {r} : request'[q] = request[q]
        /\ request'[r].made = old.made /\ request'[r].complete
        /\ request'[r].access = old.access
        /\ request'[r].issued <=> (worker[w].kind = "approve" \/ old.issued)
    BY <1>1, <2>1, <2>2, TypedParts DEF RequestsTyped, RequestRecs
  <2>6. RequestEffects(w)
    <3>1. PICK t : t = Step(w)'
      OBVIOUS
    <3>2. /\ Step(w) = "write" /\ r = worker[w].req /\ old = request[r] /\ old.made
          /\ t = IF Len(worker[w].todo) > 1 THEN "details" ELSE "rest"
          /\ t # "rest" => worker'[w].req = r
      BY <1>1, <2>1, <2>2, <2>4, <3>1
    <3>3. QED
      BY <2>5, <3>1, <3>2 DEF RequestEffects
  <2>7. UpdateGoes(w)
    BY <1>1, <2>2, PassedGoes, Lands
  <2>8. QED
    BY <2>6, <2>7
<1>4. \/ /\ Continue(w, worker[w], Recovery(worker[w].kind, "write"))
         /\ UNCHANGED <<request, stores, history>>
      \/ /\ request[worker[w].req].made /\ Proceed(w)
         /\ request' = [request EXCEPT ![worker[w].req] =
               IF worker[w].kind = "reject"
               THEN [@ EXCEPT !.approved = FALSE, !.complete = TRUE]
               ELSE [@ EXCEPT !.approved = TRUE, !.issued = TRUE, !.complete = TRUE]]
  BY Zenon DEF Write, Attempt
<1>5. QED
  BY <1>2, <1>3, <1>4, Zenon

(* the end of a collection,                                                *)
LEMMA CompleteReply ==
    ASSUME Typed, NEW w \in Workers, Complete(w)
    PROVE  RequestEffects(w) /\ UpdateGoes(w)
<1>1. /\ Step(w) = "complete" /\ "complete" \in Attempted
      /\ worker[w].req \in Requests /\ worker[w].kind = "collect"
  BY CompleteMoves DEF Attempted
<1>2. CASE Throws(w, "complete")
  BY <1>1, <1>2, ThrownReply
<1>3. CASE ~Throws(w, "complete")
  <2>1. PICK r \in Requests, old \in RequestRecs : r = worker[w].req /\ old = request[r]
    BY <1>1, TypedParts DEF RequestsTyped, RequestRecs
  <2>2. /\ old.made
        /\ request' = [request EXCEPT ![r] =
               [old EXCEPT !.approved = TRUE, !.issued = TRUE, !.complete = TRUE]]
    BY <1>3, <2>1, CompleteMoves
  <2>3. PICK t \in {"details", "rest"}, rec \in Recs :
          /\ t = (IF Open("approve", r) THEN "details" ELSE "rest")
          /\ rec.kind = "nested" /\ rec.req = r /\ Moves(w, rec, t)
    BY <1>3, <2>1, CompleteMoves
  <2>4. /\ Step(w)' = t
        /\ t # "rest" => worker'[w].req = r /\ worker'[w].kind = "nested"
    BY <2>3, MovesTo, TypedParts
  <2>5. /\ \A q \in Requests \ {r} : request'[q] = request[q]
        /\ request'[r].made = old.made /\ request'[r].complete /\ request'[r].issued
        /\ request'[r].access = old.access
    BY <2>1, <2>2, TypedParts DEF RequestsTyped, RequestRecs
  <2>6. RequestEffects(w)
    BY <1>1, <2>1, <2>2, <2>3, <2>4, <2>5 DEF RequestEffects
  <2>7. UpdateGoes(w)
    BY <1>1, <2>3, <2>4 DEF UpdateGoes, Deciders
  <2>8. QED
    BY <2>6, <2>7
<1>4. QED
  BY <1>2, <1>3

(* the link, the mark that is taken back and the deletion of the requests.    *)
LEMMA RequestsReply ==
    ASSUME Typed, CredentialAssumption, NEW w \in Workers,
           LinkServiceAccess(w) \/ Unissue(w) \/ DeleteRequest(w)
    PROVE  history'.dirty \/ (RequestEffects(w) /\ UpdateGoes(w))
<1>0. worker[w] \in Recs
  BY TypedParts
<1>1. ASSUME NEW s, Went(w, worker[w], s)
      PROVE  /\ Step(w)' # "rest" => worker'[w].req = worker[w].req
             /\ Follows(worker[w], s, Step(w)')
  BY <1>0, <1>1, Lands, MovesTo, TypedParts DEF Went
<1>2. CASE LinkServiceAccess(w)
  <2>1. /\ Step(w) = "link" /\ "link" \in Attempted /\ Own(w) \in Ids
        /\ worker[w].req \in Requests
    BY <1>2, LinkMoves DEF Attempted
  <2>2. CASE Throws(w, "link")
    BY <2>1, <2>2, ThrownReply
  <2>3. CASE ~Throws(w, "link")
    <3>1. PICK r \in Requests, old \in RequestRecs : r = worker[w].req /\ old = request[r]
      BY <2>1, TypedParts DEF RequestsTyped, RequestRecs
    <3>2. request' = [request EXCEPT ![r] = [old EXCEPT !.access = Own(w)]]
          /\ Went(w, worker[w], "link")
      BY <1>2, <2>3, <3>1, LinkMoves
    <3>3. /\ \A q \in Requests \ {r} : request'[q] = request[q]
          /\ request'[r].made = old.made /\ request'[r].complete = old.complete
          /\ request'[r].issued = old.issued
      BY <3>1, <3>2, TypedParts DEF RequestsTyped, RequestRecs
    <3>4. QED
      BY <1>1, <2>1, <3>1, <3>2, <3>3, PassedGoes DEF RequestEffects
  <2>4. QED
    BY <2>2, <2>3
<1>3. CASE Unissue(w)
  <2>1. /\ Step(w) = "unissue" /\ worker[w].req \in Requests /\ Went(w, worker[w], "unissue")
    BY <1>3, UnissueMoves
  <2>2. PICK r \in Requests, old \in RequestRecs : r = worker[w].req /\ old = request[r]
    BY <2>1, TypedParts DEF RequestsTyped, RequestRecs
  <2>3. CASE old.made /\ request' = [request EXCEPT ![r] =
                                       [old EXCEPT !.issued = FALSE, !.complete = FALSE]]
    <3>1. /\ \A q \in Requests \ {r} : request'[q] = request[q]
          /\ request'[r].made = old.made /\ ~request'[r].complete /\ ~request'[r].issued
          /\ request'[r].access = old.access
      BY <2>2, <2>3, TypedParts DEF RequestsTyped, RequestRecs
    <3>2. QED
      BY <1>1, <2>1, <2>2, <2>3, <3>1, PassedGoes DEF RequestEffects
  <2>4. CASE ~old.made /\ request' = request
    BY <1>1, <2>1, <2>2, <2>4, PassedGoes DEF RequestEffects
  <2>5. QED
    BY <1>3, <2>2, <2>3, <2>4, UnissueMoves, DirtyNow DEF Unnoticed
<1>4. CASE DeleteRequest(w)
  <2>1. /\ Step(w) = "unrequest"
        /\ \/ history' = [history EXCEPT !.dirty = TRUE]
           \/ /\ request' = [r \in Requests |->
                    IF request[r].made /\ request[r].access = Own(w) THEN Gone ELSE request[r]]
              /\ Went(w, worker[w], "unrequest")
    BY <1>4, DeletesMove
  <2>2. QED
    BY <1>1, <2>1, PassedGoes, DirtyNow DEF RequestEffects
<1>5. QED
  BY <1>2, <1>3, <1>4

(* All steps.                                                                *)
LEMMA WorkReplies ==
    ASSUME Typed, CredentialAssumption, NEW w \in Workers, Work(w) \/ Stop(w)
    PROVE  history'.dirty \/ (RequestEffects(w) /\ UpdateGoes(w))
<1>1. CASE Stop(w)
  BY <1>1, StopMoves, DirtyNow
<1>2. CASE Work(w)
  BY <1>2, CallsReply, LooksReply, DetailsReply, WriteReply, CompleteReply, RequestsReply
     DEF Work
<1>3. QED
  BY <1>1, <1>2

OneAtWork == \A v, w \in Workers : Step(v) # "rest" /\ Step(w) # "rest" => v = w

(* What InEffect says, of a ServiceAccess that has its consumer.             *)
Works(id) == id # None /\ Covered(id) /\ stores.active /\ Enabled

(* Somebody is enabling what the request is linked to, or takes the mark back, *)
Deciding(r) ==
    \E w \in Workers : /\ worker[w].kind \in Deciders /\ worker[w].req = r
                       /\ Step(w) \in {"details", "enable", "activate", "unissue"}

(* and somebody is deleting it.                                              *)
Rejecting(r) ==
    \E w \in Workers : /\ worker[w].kind = "reject" /\ worker[w].req = r
                       /\ Step(w) \in {"details", "svc", "unrequest", "unissue"}

Reported(r) ==
    /\ request[r].issued => Works(request[r].access) \/ Deciding(r)
    /\ (request[r].issued <=> request[r].complete) \/ (~request[r].issued /\ Rejecting(r))
    /\ request[r].issued \/ request[r].complete => request[r].made

NoneIssued == \A r \in Requests : ~request[r].issued

(* What a worker at the step s knows of its request,                         *)
Updates(rec, s) ==
    /\ \/ rec.kind \in {"collect", "nested", "approve"}
       \/ rec.kind = "reject" /\ s \in {"write", "details", "svc", "unrequest"}
       => request[rec.req].made
    /\ s = "write" => (Len(rec.todo) > 1 <=> Open(rec.kind, rec.req))
    /\ rec.kind \in Deciders /\ s \in {"enable", "activate"} =>
          rec.id = request[rec.req].access /\ Covered(rec.id)
    /\ rec.kind \in Deciders /\ s = "activate" => Enabled
    /\ rec.kind \in Deciders /\ s = "resync" => Works(request[rec.req].access)
    /\ rec.kind = "reject" /\ s \in {"svc", "unrequest"} =>
          request[rec.req].access = rec.id /\ stores.access = rec.id

(* and who makes or deletes something, of all of them.                        *)
Clears(rec, s) ==
    /\ s = "unrequest" => stores.access = rec.id
    /\ s = "put" => (rec.seen <=> stores.enabled)
    /\ \/ s \in {"unrow", "unkong", "unclient", "unaccess"}
       \/ rec.kind = "issue"
       \/ rec.kind = "collect" /\ s \notin {"client", "consumer", "unissue"}
       => NoneIssued

Settled ==
    /\ \A r \in Requests : Reported(r)
    /\ \A w \in Workers : Updates(worker[w], Step(w)) /\ Clears(worker[w], Step(w))

(* Which steps an update takes.                                              *)
LEMMA UpdateSteps ==
    ASSUME Typed, NEW w \in Workers
    PROVE  /\ worker[w].kind \in Deciders => Step(w) \in
                 {"rest", "write", "details", "enable", "activate", "resync", "unissue"}
           /\ worker[w].kind = "reject" => Step(w) \in
                 {"rest", "write", "details", "unissue"} \cup Deleting
           /\ Step(w) = "rest" => worker[w] = Idle
           /\ Step(w) = "write" => worker[w].kind \in {"approve", "reject"}
           /\ Step(w) = "complete" => worker[w].kind = "collect"
           /\ Step(w) = "unissue" =>
                 worker[w].kind \in {"collect", "nested", "approve", "reject"}
           /\ worker[w].kind \in {"collect", "nested", "approve", "reject"} =>
                 worker[w].req \in Requests
<1>1. PICK r \in Recs : r = worker[w]
  BY TypedParts
<1>2. /\ r.kind \in {"collect", "nested", "approve", "reject"} => r.req \in Requests
      /\ r.todo = <<>> => r = Idle
      /\ r.todo \in Seq(Steps)
  BY <1>1, TypedParts DEF Programmed, Carries, Recs
<1>3. Step(w) = "rest" => r = Idle
  <2>1. r.todo # <<>> => Head(r.todo) \in Steps
    BY <1>2, HeadTailProperties
  <2>2. QED
    BY <1>1, <1>2, <2>1 DEF Step, First, Steps, Deleting
<1>4. CASE Step(w) = "rest"
  BY <1>1, <1>2, <1>3, <1>4 DEF Idle, Deciders
<1>5. CASE Step(w) # "rest"
  <2>1. PICK s, t : s = Step(w) /\ Follows(r, s, t)
    BY <1>1, <1>5, StepFollows
  <2>2. r.kind \in Deciders => s \in {"write", "details", "enable", "activate", "resync", "unissue"}
    BY <2>1 DEF Follows, Deciders
  <2>3. r.kind = "reject" => s \in {"write", "details", "unissue"} \cup Deleting
    BY <2>1 DEF Follows, Deleting
  <2>4. /\ s = "write" => r.kind \in {"approve", "reject"}
        /\ s = "complete" => r.kind = "collect"
        /\ s = "unissue" => r.kind \in {"collect", "nested", "approve", "reject"}
    BY <2>1 DEF Follows
  <2>5. QED
    BY <1>1, <1>2, <1>5, <2>1, <2>2, <2>3, <2>4
<1>6. QED
  BY <1>4, <1>5

(* What works goes on to work, unless it is deleted.                         *)
LEMMA WorksStays ==
    ASSUME Typed, CredentialAssumption, Owned,
           NEW w \in Workers, NEW rec, NEW t, Changes(w, rec, t), Effects(w),
           NEW id, Works(id),
           Step(w) \notin {"cleanRow", "cleanOwn", "cleanKong", "cleanClient",
                           "unrow", "unkong", "unclient", "unaccess"},
           Step(w) = "put" => (worker[w].seen <=> stores.enabled)
    PROVE  Works(id)'
<1>1. StoresTyped /\ stores.kong = id /\ stores.own = id /\ stores.access = id /\ id # None
  BY TypedParts DEF Works, Covered, Owned
<1>2. env' = env
  BY DEF Changes
<1>3. Step(w) # "consumer" \/ t \notin {"key", "row"}
  BY <1>1 DEF Changes, KongChanges
<1>4. stores'.kong = stores.kong
  BY <1>1, <1>3 DEF Changes, KongChanges
<1>5. stores'.own = stores.own
  <2>1. stores.row # None
    BY <1>1 DEF StoresTyped
  <2>2. QED
    BY <2>1 DEF Changes, PortalChanges
<1>6. stores'.access = stores.access
  BY <1>1 DEF Changes, PortalChanges
<1>7. stores'.active
  BY <1>6 DEF Works, Effects, ActiveEffects
<1>8. stores.acl => stores'.acl
  BY <1>4 DEF Effects, GroupEffects
<1>9. stores.enabled => stores'.enabled
  <2>1. stores.enabled => stores.client # None
    BY <1>1 DEF StoresTyped
  <2>2. QED
    BY <2>1 DEF Effects, ClientEffects
<1>10. Enabled'
  BY <1>2, <1>8, <1>9 DEF Works, Enabled, Acl, OAuth
<1>11. QED
  BY <1>1, <1>5, <1>6, <1>7, <1>10 DEF Works, Covered

(* Only the worker that moves is at work, and what it is doing it goes on to do. *)
LEMMA AloneGoes ==
    ASSUME Typed, OneAtWork, NEW w \in Workers, Step(w) # "rest", NEW rec, NEW t,
           Changes(w, rec, t), RequestEffects(w)
    PROVE  /\ Step(w)' = t /\ env' = env
           /\ \A u \in Workers \ {w} : /\ Step(u) = "rest" /\ Step(u)' = "rest"
                                       /\ worker[u] = Idle /\ worker'[u] = Idle
           /\ t = "rest" => worker'[w] = Idle
           /\ t # "rest" =>
                 /\ worker'[w].req = worker[w].req
                 /\ \/ worker'[w].kind = worker[w].kind
                    \/ /\ Step(w) = "complete" /\ worker[w].kind = "collect"
                       /\ worker'[w].kind = "nested"
                 /\ Step(w) # "details" => worker'[w].id = worker[w].id
<1>1. rec \in Recs /\ Moves(w, rec, t) /\ WorkerChanges(w, rec) /\ env' = env
  BY DEF Changes
<1>2. /\ Step(w)' = t
      /\ \A u \in Workers \ {w} : worker'[u] = worker[u] /\ Step(u)' = Step(u)
      /\ t = "rest" => worker'[w] = Idle
      /\ t # "rest" => worker'[w].kind = rec.kind /\ worker'[w].id = rec.id
  BY <1>1, MovesTo, TypedParts
<1>3. \A u \in Workers \ {w} : Step(u) = "rest" /\ worker[u] = Idle
  BY UpdateSteps DEF OneAtWork
<1>4. t # "rest" => worker'[w].req = worker[w].req
  BY <1>2 DEF RequestEffects
<1>5. QED
  BY <1>1, <1>2, <1>3, <1>4 DEF WorkerChanges

(* Nothing is marked as issued while something is made or deleted.            *)
LEMMA NoneIssuedGoes ==
    ASSUME Typed, OneAtWork, Settled, NEW w \in Workers, Step(w) # "rest",
           RequestEffects(w), NoneIssued, Step(w) \notin {"write", "complete"}
    PROVE  NoneIssued'
<1>1. Step(w) \in {"link", "unissue"} =>
         \A q \in Requests : request'[q].issued => request[q].issued
  BY DEF RequestEffects
<1>2. Step(w) = "unrequest" =>
         \A q \in Requests : request'[q].issued => request[q].issued
  BY DEF RequestEffects, Gone, NotMade
<1>3. QED
  BY <1>1, <1>2 DEF NoneIssued, RequestEffects

(* Who deletes a ServiceAccess has deleted all that is marked as issued.      *)
LEMMA IssuedDeleted ==
    ASSUME Typed, OneAtWork, Settled, NEW w \in Workers, Step(w) = "unrequest",
           RequestEffects(w)
    PROVE  NoneIssued'
<1>1. worker[w].kind \notin Deciders
  BY UpdateSteps
<1>2. \A r \in Requests : ~Deciding(r)
  BY <1>1 DEF Deciding, OneAtWork
<1>3. stores.access = Own(w)
  BY DEF Settled, Clears, Own
<1>4. ASSUME NEW r \in Requests, request[r].issued
      PROVE  request[r].made /\ request[r].access = Own(w)
  BY <1>2, <1>3, <1>4 DEF Settled, Reported, Works, Covered
<1>5. \A r \in Requests : request'[r].issued => request[r].issued /\ request'[r] = request[r]
  BY <1>4 DEF RequestEffects, Gone, NotMade
<1>6. QED
  BY <1>4, <1>5 DEF NoneIssued, RequestEffects, Gone, NotMade

(* So who deletes or makes something goes on to find nothing marked as issued.*)
LEMMA ClearsGoes ==
    ASSUME Typed, CredentialAssumption, Owned, OneAtWork, Settled,
           NEW w \in Workers, Step(w) # "rest", NEW rec, NEW t, Changes(w, rec, t),
           Effects(w), RequestEffects(w), UpdateGoes(w), NEW u \in Workers
    PROVE  Clears(worker[u], Step(u))'
<1> DEFINE s == Step(w)
           old == worker[w]
           new == worker'[w]
<1>0. Clears(old, s) /\ Order(rec, s, t)
  BY DEF Settled, Changes
<1>1. CASE u # w \/ t = "rest"
  BY <1>1, AloneGoes DEF Clears, Idle
<1>2. CASE u = w /\ t # "rest"
  <2>1. /\ Step(w)' = t
        /\ new.kind = old.kind \/ (s = "complete" /\ new.kind = "nested")
        /\ s # "details" => new.id = old.id
    BY <1>2, AloneGoes
  <2>2. t = "unrequest" => stores'.access = new.id
    <3>1. SUFFICES ASSUME t = "unrequest" PROVE stores'.access = new.id
      OBVIOUS
    <3>2. s = "svc"
      BY <1>0, <3>1 DEF Order
    <3>3. stores.access = Own(w) /\ stores'.access = stores.access
      BY <3>1, <3>2 DEF Changes, PortalChanges
    <3>4. QED
      BY <2>1, <3>2, <3>3 DEF Own
  <2>3. t = "put" => (new.seen <=> stores'.enabled)
    <3>1. SUFFICES ASSUME t = "put" PROVE new.seen <=> stores'.enabled
      OBVIOUS
    <3>2. s = "find"
      BY <1>0, <3>1 DEF Order
    <3>3. new.seen = stores.enabled
      BY <2>1, <3>1 DEF Effects, Reads
    <3>4. stores.enabled <=> stores'.enabled
      BY <3>2 DEF Effects, ClientEffects
    <3>5. QED
      BY <3>3, <3>4
  <2>4. t \in {"unrow", "unkong", "unclient", "unaccess"} => NoneIssued'
    <3>1. SUFFICES ASSUME t \in {"unrow", "unkong", "unclient", "unaccess"} PROVE NoneIssued'
      OBVIOUS
    <3>2. s \in {"unrequest", "unrow", "unkong", "unclient"}
      BY <1>0, <3>1 DEF Order
    <3>3. CASE s = "unrequest"
      BY <3>3, IssuedDeleted
    <3>4. CASE s \in {"unrow", "unkong", "unclient"}
      BY <1>0, <3>4, NoneIssuedGoes DEF Clears
    <3>5. QED
      BY <3>2, <3>3, <3>4
  <2>5. new.kind = "issue" => NoneIssued'
    <3>1. SUFFICES ASSUME new.kind = "issue" PROVE NoneIssued'
      OBVIOUS
    <3>2. old.kind = "issue" /\ s \notin {"write", "complete"}
      BY <1>2, <2>1, <3>1, UpdateSteps
    <3>3. QED
      BY <1>0, <3>2, NoneIssuedGoes DEF Clears
  <2>6. new.kind = "collect" /\ t \notin {"client", "consumer", "unissue"} => NoneIssued'
    <3>1. SUFFICES ASSUME new.kind = "collect", t \notin {"client", "consumer", "unissue"}
                   PROVE  NoneIssued'
      OBVIOUS
    <3>2. old.kind = "collect" /\ s # "write"
      BY <2>1, <3>1, UpdateSteps
    <3>3. s # "complete"
      <4>1. s = "complete" => t = "unissue" \/ new.kind = "nested" \/ t = "rest"
        BY <2>1 DEF RequestEffects
      <4>2. QED
        BY <1>2, <3>1, <4>1
    <3>4. CASE s \notin {"client", "consumer", "unissue"}
      BY <1>0, <3>2, <3>3, <3>4, NoneIssuedGoes DEF Clears
    <3>5. CASE s \in {"client", "unissue"}
      BY <1>2, <2>1, <3>1, <3>2, <3>5 DEF UpdateGoes
    <3>6. CASE s = "consumer"
      <4>1. t \in {"key", "row"}
        BY <2>1, <3>1, <3>2, <3>6 DEF UpdateGoes
      <4>2. stores.kong = None
        BY <3>6, <4>1 DEF Changes, KongChanges
      <4>3. \A r \in Requests : ~Works(request[r].access)
        BY <4>2 DEF Works, Covered, Owned
      <4>4. \A r \in Requests : ~Deciding(r)
        BY <3>6 DEF Deciding, OneAtWork
      <4>5. NoneIssued
        BY <4>3, <4>4 DEF NoneIssued, Settled, Reported
      <4>6. QED
        BY <3>6, <4>5, NoneIssuedGoes
    <3>7. QED
      BY <3>4, <3>5, <3>6
  <2>7. Clears(worker[w], Step(w))'
    BY <2>1, <2>2, <2>3, <2>4, <2>5, <2>6 DEF Clears
  <2>8. QED
    BY <1>2, <2>7
<1>3. QED
  BY <1>1, <1>2

(* Where an approval or the end of a collection comes from.                  *)
LEMMA DeciderCame ==
    ASSUME Typed, OneAtWork, NEW w \in Workers, Step(w) # "rest", NEW rec, NEW t,
           Changes(w, rec, t), RequestEffects(w), UpdateGoes(w), t # "rest",
           worker'[w].kind \in Deciders
    PROVE  /\ t \in {"enable", "activate", "resync"} =>
                 worker[w].kind \in Deciders /\ request' = request
           /\ t = "enable" => Step(w) = "details"
           /\ t = "activate" => Step(w) \in {"details", "enable"}
           /\ t = "activate" /\ Step(w) = "details" => ~Enables
           /\ t = "resync" => Step(w) = "activate"
<1> DEFINE s == Step(w)
<1>1. Step(w)' = t
  BY AloneGoes
<1>2. s = "complete" => t \in {"details", "rest", "unissue"}
  BY <1>1 DEF RequestEffects
<1>3. CASE s = "complete"
  BY <1>2, <1>3
<1>4. CASE s # "complete"
  <2>1. worker[w].kind \in Deciders
    BY <1>4, AloneGoes DEF Deciders
  <2>2. s \in {"write", "details", "enable", "activate", "resync", "unissue"}
    BY <2>1, UpdateSteps
  <2>3. s = "write" => t \in {"details", "rest"}
    BY <1>1 DEF RequestEffects
  <2>4. /\ s = "details" => t \in {FirstOfSetup, "unissue"}
        /\ s = "enable" => t \in {"activate", "unissue"}
        /\ s = "activate" => t = "resync"
        /\ s \in {"resync", "unissue"} => t \in {"rest", "unissue"}
    BY <1>1, <2>1 DEF UpdateGoes
  <2>5. FirstOfSetup = IF Enables THEN "enable" ELSE "activate"
    BY DEF FirstOfSetup
  <2>6. s \in {"details", "enable", "activate"} => request' = request
    BY DEF RequestEffects
  <2>7. QED
    BY <2>1, <2>2, <2>3, <2>4, <2>5, <2>6
<1>5. QED
  BY <1>3, <1>4

(* Where a rejection comes from.                                             *)
LEMMA RejectionCame ==
    ASSUME Typed, OneAtWork, NEW w \in Workers, Step(w) # "rest", NEW rec, NEW t,
           Changes(w, rec, t), RequestEffects(w), UpdateGoes(w),
           t \in {"write", "details", "svc", "unrequest"}, worker'[w].kind = "reject"
    PROVE  /\ worker[w].kind = "reject"
           /\ \/ t = "details" /\ Step(w) = "write"
              \/ t = "svc" /\ Step(w) = "details"
              \/ t = "unrequest" /\ Step(w) = "svc"
<1> DEFINE s == Step(w)
<1>1. Step(w)' = t /\ Order(rec, s, t)
  BY AloneGoes DEF Changes
<1>2. worker[w].kind = "reject"
  BY AloneGoes
<1>3. s \in {"write", "details", "unissue"} \cup Deleting
  BY <1>2, UpdateSteps
<1>4. t = "details" => s = "write"
  BY <1>1, <1>3 DEF UpdateGoes, Deleting
<1>5. t = "svc" => s = "details"
  <2>1. t = "svc" => s \notin Deleting
    BY <1>1 DEF Order
  <2>2. s = "write" => t \in {"details", "rest"}
    BY <1>1 DEF RequestEffects
  <2>3. s = "unissue" => t = "rest"
    BY <1>1, <1>2 DEF UpdateGoes
  <2>4. QED
    BY <1>3, <2>1, <2>2, <2>3
<1>6. t # "write" /\ (t = "unrequest" => s = "svc")
  BY <1>1 DEF Order
<1>7. QED
  BY <1>2, <1>4, <1>5, <1>6

(* So an update goes on to know what it knows of its request.                *)
LEMMA UpdatesGoes ==
    ASSUME Typed, CredentialAssumption, OneAtWork, Settled,
           NEW w \in Workers, Step(w) # "rest", NEW rec, NEW t, Changes(w, rec, t),
           Effects(w), RequestEffects(w), UpdateGoes(w), NEW u \in Workers
    PROVE  Updates(worker[u], Step(u))'
<1> DEFINE s == Step(w)
           old == worker[w]
           new == worker'[w]
<1>0. Updates(old, s) /\ Order(rec, s, t)
  BY DEF Settled, Changes
<1>1. CASE u # w \/ t = "rest"
  BY <1>1, AloneGoes DEF Updates, Idle, Deciders
<1>2. CASE u = w /\ t # "rest"
  <2>1. /\ Step(w)' = t /\ env' = env /\ new.req = old.req
        /\ \/ new.kind = old.kind
           \/ s = "complete" /\ old.kind = "collect" /\ new.kind = "nested"
        /\ s # "details" => new.id = old.id
    BY <1>2, AloneGoes
  <2>2. s \in {"details", "enable", "activate", "svc"} =>
           stores'.own = stores.own /\ stores'.access = stores.access
    BY DEF Changes, PortalChanges
  <2>3. \/ new.kind \in {"collect", "nested", "approve"}
        \/ new.kind = "reject" /\ t \in {"write", "details", "svc", "unrequest"}
        => request'[new.req].made
    <3>1. SUFFICES ASSUME \/ new.kind \in {"collect", "nested", "approve"}
                          \/ new.kind = "reject" /\ t \in {"write", "details", "svc", "unrequest"}
                   PROVE  request'[new.req].made
      OBVIOUS
    <3>2. \/ old.kind \in {"collect", "nested", "approve"}
          \/ old.kind = "reject" /\ s \in {"write", "details", "svc"}
      BY <2>1, <3>1, RejectionCame
    <3>3. request[old.req].made
      BY <1>0, <3>2 DEF Updates
    <3>4. s # "unrequest"
      BY <3>2, KindAtStep DEF Deleting
    <3>5. request'[old.req].made = request[old.req].made
      BY <3>4 DEF RequestEffects
    <3>6. QED
      BY <2>1, <3>3, <3>5
  <2>4. t # "write"
    BY <1>0 DEF Order
  <2>5. new.kind \in Deciders /\ t \in {"enable", "activate"} =>
           /\ new.id = request'[new.req].access /\ stores'.access = new.id
           /\ stores'.own = new.id
    <3>1. SUFFICES ASSUME new.kind \in Deciders, t \in {"enable", "activate"}
                   PROVE  /\ new.id = request'[new.req].access /\ stores'.access = new.id
                          /\ stores'.own = new.id
      OBVIOUS
    <3>2. s \in {"details", "enable"} /\ old.kind \in Deciders /\ request' = request
      BY <1>2, <3>1, DeciderCame
    <3>3. CASE s = "details"
      <4>1. new.id = request[old.req].access
        BY <2>1, <3>1, <3>3 DEF RequestEffects
      <4>2. stores.access = new.id /\ stores.own = new.id
        BY <2>1, <3>1, <3>3 DEF Effects, Reads, HasConsumer
      <4>3. QED
        BY <2>1, <2>2, <3>2, <3>3, <4>1, <4>2
    <3>4. CASE s = "enable"
      <4>1. old.id = request[old.req].access /\ Covered(old.id)
        BY <1>0, <3>2, <3>4 DEF Updates
      <4>2. QED
        BY <2>1, <2>2, <3>2, <3>4, <4>1 DEF Covered
    <3>5. QED
      BY <3>2, <3>3, <3>4
  <2>6. new.kind \in Deciders /\ t = "activate" => Enabled'
    <3>1. SUFFICES ASSUME new.kind \in Deciders, t = "activate" PROVE Enabled'
      OBVIOUS
    <3>2. s \in {"details", "enable"} /\ (s = "details" => ~Enables)
      BY <1>2, <3>1, DeciderCame
    <3>3. CASE s = "details"
      BY <2>1, <3>2, <3>3 DEF Enabled, Enables, Acl, OAuth
    <3>4. CASE s = "enable"
      <4>1. IF OAuth THEN stores'.enabled ELSE stores'.acl
        BY <2>1, <3>1, <3>4 DEF Effects, ClientEffects
      <4>2. QED
        BY <2>1, <4>1 DEF Enabled, Acl, OAuth
    <3>5. QED
      BY <3>2, <3>3, <3>4
  <2>7. new.kind \in Deciders /\ t = "resync" => Works(request[worker[w].req].access)'
    <3>1. SUFFICES ASSUME new.kind \in Deciders, t = "resync"
                   PROVE  Works(request[worker[w].req].access)'
      OBVIOUS
    <3>2. s = "activate" /\ old.kind \in Deciders /\ request' = request
      BY <1>2, <3>1, DeciderCame
    <3>3. old.id = request[old.req].access /\ Covered(old.id) /\ Enabled
      BY <1>0, <3>2 DEF Updates
    <3>4. old.id # None
      BY <3>2, TypedParts DEF Programmed, Carries, Ids, None
    <3>5. stores'.active
      BY <3>2, <3>3 DEF Effects, ActiveEffects, Own, Covered
    <3>6. stores'.kong = stores.kong
      BY <3>2 DEF Changes, KongChanges
    <3>7. (stores.acl => stores'.acl) /\ (stores.enabled => stores'.enabled)
      BY <3>2, <3>6 DEF Effects, GroupEffects, ClientEffects
    <3>8. Enabled'
      BY <2>1, <3>3, <3>7 DEF Enabled, Acl, OAuth
    <3>9. QED
      BY <2>1, <2>2, <3>2, <3>3, <3>4, <3>5, <3>8 DEF Works, Covered
  <2>8. new.kind = "reject" /\ t \in {"svc", "unrequest"} =>
           request'[new.req].access = new.id /\ stores'.access = new.id
    <3>1. SUFFICES ASSUME new.kind = "reject", t \in {"svc", "unrequest"}
                   PROVE  request'[new.req].access = new.id /\ stores'.access = new.id
      OBVIOUS
    <3>2. /\ old.kind = "reject"
          /\ \/ t = "svc" /\ s = "details"
             \/ t = "unrequest" /\ s = "svc"
      BY <3>1, RejectionCame
    <3>3. request' = request
      BY <3>2 DEF RequestEffects
    <3>4. CASE t = "svc"
      <4>1. new.id = request[old.req].access
        BY <2>1, <3>2, <3>4 DEF RequestEffects
      <4>2. stores.access = new.id
        BY <2>1, <3>2, <3>4 DEF Effects, Reads
      <4>3. QED
        BY <2>1, <2>2, <3>2, <3>3, <3>4, <4>1, <4>2
    <3>5. CASE t = "unrequest"
      BY <1>0, <2>1, <2>2, <3>2, <3>3, <3>5 DEF Updates
    <3>6. QED
      BY <3>1, <3>4, <3>5
  <2>9. Updates(worker[w], Step(w))'
    BY <2>1, <2>3, <2>4, <2>5, <2>6, <2>7, <2>8 DEF Updates, Covered
  <2>10. QED
    BY <1>2, <2>9
<1>3. QED
  BY <1>1, <1>2

(* The step of a worker that does not delete leaves what is issued working.   *)
LEMMA IssuedWorks ==
    ASSUME Typed, CredentialAssumption, Owned, OneAtWork, Settled,
           NEW w \in Workers, NEW rec, NEW t, Changes(w, rec, t), Effects(w),
           NEW r \in Requests, request[r].issued, Works(request[r].access)
    PROVE  Works(request[r].access)' \/ request'[r].access # request[r].access
<1>1. Clears(worker[w], Step(w)) /\ ~NoneIssued
  BY DEF Settled, NoneIssued
<1>2. Step(w) \notin {"unrow", "unkong", "unclient", "unaccess"}
  BY <1>1 DEF Clears
<1>3. Step(w) \notin {"cleanRow", "cleanOwn", "cleanKong", "cleanClient"}
  BY <1>1, KindAtStep DEF Clears, Making
<1>4. Step(w) = "put" => (worker[w].seen <=> stores.enabled)
  BY <1>1 DEF Clears
<1>5. PICK id : id = request[r].access
  OBVIOUS
<1>6. Works(id)'
  BY <1>2, <1>3, <1>4, <1>5, WorksStays
<1>7. request'[r].access = request[r].access => Works(request[r].access)'
  BY <1>5, <1>6 DEF Works, Covered
<1>8. QED
  BY <1>7

(* The requests that a step is not about.                                    *)
LEMMA OtherReported ==
    ASSUME Typed, CredentialAssumption, Owned, OneAtWork, Settled,
           NEW w \in Workers, Step(w) # "rest", NEW rec, NEW t, Changes(w, rec, t),
           Effects(w), RequestEffects(w), UpdateGoes(w),
           NEW r \in Requests, request'[r] = request[r],
           Step(w) \notin {"unissue", "unrequest"} \/ worker[w].req # r
    PROVE  Reported(r)'
<1> DEFINE s == Step(w)
           old == worker[w]
           new == worker'[w]
<1>1. Reported(r) /\ Updates(old, s)
  BY DEF Settled
<1>2. request'[r].issued => Works(request[r].access)' \/ Deciding(r)'
  <2>1. SUFFICES ASSUME request[r].issued PROVE Works(request[r].access)' \/ Deciding(r)'
    OBVIOUS
  <2>2. CASE Works(request[r].access)
    BY <2>1, <2>2, IssuedWorks
  <2>3. CASE Deciding(r)
    <3>1. old.kind \in Deciders /\ old.req = r /\ s \in {"details", "enable", "activate"}
      BY <2>3 DEF Deciding, OneAtWork
    <3>2. /\ s = "details" => t \in {"enable", "activate", "unissue"}
          /\ s = "enable" => t \in {"activate", "unissue"}
          /\ s = "activate" => t = "resync"
      BY <3>1, AloneGoes DEF UpdateGoes, FirstOfSetup
    <3>3. Step(w)' = t /\ new.kind = old.kind /\ new.req = r
      BY <3>1, <3>2, AloneGoes
    <3>4. CASE t = "resync"
      <4>1. Updates(worker[w], Step(w))'
        BY UpdatesGoes
      <4>2. QED
        BY <3>1, <3>3, <3>4, <4>1 DEF Updates
    <3>5. CASE t \in {"enable", "activate", "unissue"}
      BY <3>1, <3>3, <3>5 DEF Deciding
    <3>6. QED
      BY <3>1, <3>2, <3>4, <3>5
  <2>4. QED
    BY <1>1, <2>1, <2>2, <2>3 DEF Reported
<1>3. \/ request'[r].issued <=> request'[r].complete
      \/ ~request'[r].issued /\ Rejecting(r)'
  <2>1. SUFFICES ASSUME ~(request[r].issued <=> request[r].complete)
                 PROVE  ~request[r].issued /\ Rejecting(r)'
    OBVIOUS
  <2>2. ~request[r].issued /\ Rejecting(r)
    BY <1>1, <2>1 DEF Reported
  <2>3. old.kind = "reject" /\ old.req = r /\ s \in {"details", "svc"}
    BY <2>2 DEF Rejecting, OneAtWork
  <2>4. s = "details" => t \in {"svc", "unissue"}
    BY <2>3, AloneGoes DEF UpdateGoes
  <2>5. s = "svc" => t = "unrequest"
    <3>1. s = "svc" => stores.access = Own(w)
      BY <1>1, <2>3 DEF Updates, Own
    <3>2. QED
      BY <3>1, AloneGoes DEF Effects, Reads
  <2>6. Step(w)' = t /\ new.kind = old.kind /\ new.req = r
    BY <2>3, <2>4, <2>5, AloneGoes
  <2>7. QED
    BY <2>2, <2>3, <2>4, <2>5, <2>6 DEF Rejecting
<1>4. request'[r].issued \/ request'[r].complete => request'[r].made
  BY <1>1 DEF Reported
<1>5. QED
  BY <1>2, <1>3, <1>4 DEF Reported

(* The link to what was made: nothing was marked as issued.                  *)
LEMMA LinkReported ==
    ASSUME Typed, OneAtWork, Settled, NEW w \in Workers, Step(w) = "link",
           RequestEffects(w), NEW r \in Requests, r = worker[w].req
    PROVE  Reported(r)'
<1>1. worker[w].kind = "collect"
  <2>1. PICK rec, t : rec \in Recs /\ rec = worker[w] /\ Follows(rec, "link", t)
    BY StepFollows, TypedParts
  <2>2. rec.kind = "collect"
    BY <2>1 DEF Follows
  <2>3. QED
    BY <2>1, <2>2
<1>2. ~request[r].issued
  BY <1>1 DEF Settled, Clears, NoneIssued
<1>3. ~Rejecting(r)
  BY <1>1 DEF Rejecting, OneAtWork
<1>4. ~request[r].complete
  BY <1>2, <1>3 DEF Settled, Reported
<1>5. ~request'[r].issued /\ ~request'[r].complete
  BY <1>2, <1>4 DEF RequestEffects
<1>6. QED
  BY <1>5 DEF Reported

(* An approval and a rejection,                                              *)
LEMMA WriteReported ==
    ASSUME Typed, CredentialAssumption, Owned, OneAtWork, Settled,
           NEW w \in Workers, Step(w) = "write", NEW rec, NEW t, Changes(w, rec, t),
           Effects(w), RequestEffects(w), UpdateGoes(w),
           NEW r \in Requests, r = worker[w].req, request' # request
    PROVE  Reported(r)'
<1> DEFINE old == worker[w]
           new == worker'[w]
<1>1. /\ old.kind \in {"approve", "reject"} /\ Reported(r) /\ Updates(old, "write")
      /\ Step(w)' = t
  BY UpdateSteps, AloneGoes DEF Settled
<1>2. /\ request[r].made /\ request'[r].made /\ request'[r].complete
      /\ request'[r].access = request[r].access
      /\ request'[r].issued <=> (old.kind = "approve" \/ request[r].issued)
      /\ t = IF Len(old.todo) > 1 THEN "details" ELSE "rest"
  BY <1>1 DEF RequestEffects
<1>3. request[r].issued <=> request[r].complete
  BY <1>1 DEF Reported, Rejecting, OneAtWork
<1>4. CASE Open(old.kind, r)
  <2>1. t = "details"
    BY <1>1, <1>2, <1>4 DEF Updates
  <2>2. Step(w)' = "details" /\ new.kind = old.kind /\ new.req = r
    BY <2>1, AloneGoes
  <2>3. CASE old.kind = "approve"
    <3>1. Deciding(r)'
      BY <2>2, <2>3 DEF Deciding, Deciders
    <3>2. QED
      BY <1>2, <2>3, <3>1 DEF Reported
  <2>4. CASE old.kind = "reject"
    <3>1. Rejecting(r)'
      BY <2>2, <2>4 DEF Rejecting
    <3>2. ~request'[r].issued
      BY <1>2, <1>3, <1>4, <2>4 DEF Open
    <3>3. QED
      BY <1>2, <3>1, <3>2 DEF Reported
  <2>5. QED
    BY <1>1, <2>3, <2>4
<1>5. CASE ~Open(old.kind, r)
  <2>1. request[r].issued
    BY <1>1, <1>3, <1>5 DEF Open
  <2>2. ~Deciding(r)
    BY DEF Deciding, OneAtWork
  <2>3. Works(request[r].access)
    BY <1>1, <2>1, <2>2 DEF Reported
  <2>4. Works(request[r].access)'
    BY <1>2, <2>1, <2>3, IssuedWorks
  <2>5. QED
    BY <1>2, <2>1, <2>4 DEF Reported
<1>6. QED
  BY <1>4, <1>5

(* and the end of a collection, of what was not marked before.                *)
LEMMA CompleteReported ==
    ASSUME Typed, OneAtWork, Settled, NEW w \in Workers, Step(w) = "complete",
           NEW rec, NEW t, Changes(w, rec, t), RequestEffects(w),
           NEW r \in Requests, r = worker[w].req, request' # request
    PROVE  Reported(r)'
<1>1. worker[w].kind = "collect" /\ Step(w)' = t
  BY UpdateSteps, AloneGoes
<1>2. ~request[r].issued
  BY <1>1 DEF Settled, Clears, NoneIssued
<1>3. ~Rejecting(r)
  BY <1>1 DEF Rejecting, OneAtWork
<1>4. Open("approve", r)
  BY <1>2, <1>3 DEF Settled, Reported, Open
<1>5. /\ request[r].made /\ request'[r].made /\ request'[r].complete /\ request'[r].issued
      /\ t = "details"
      /\ t # "rest" => worker'[w].kind = "nested"
  BY <1>1, <1>4 DEF RequestEffects
<1>6. Step(w)' = "details" /\ worker'[w].kind = "nested" /\ worker'[w].req = r
  BY <1>1, <1>5, AloneGoes
<1>7. Deciding(r)'
  BY <1>6 DEF Deciding, Deciders
<1>8. QED
  BY <1>5, <1>7 DEF Reported

(* The mark that is taken back,                                              *)
LEMMA UnissueReported ==
    ASSUME Settled, NEW w \in Workers, Step(w) = "unissue", RequestEffects(w),
           NEW r \in Requests, r = worker[w].req
    PROVE  Reported(r)'
<1>1. ~request'[r].issued /\ ~request'[r].complete
  <2>1. CASE request[r].made
    BY <2>1 DEF RequestEffects
  <2>2. CASE ~request[r].made
    BY <2>2 DEF RequestEffects, Settled, Reported
  <2>3. QED
    BY <2>1, <2>2
<1>2. QED
  BY <1>1 DEF Reported

(* and the deletion of the requests.                                         *)
LEMMA DeletedReported ==
    ASSUME Typed, OneAtWork, Settled, NEW w \in Workers, Step(w) = "unrequest",
           RequestEffects(w), NEW r \in Requests
    PROVE  Reported(r)'
<1>1. ~request'[r].issued
  BY IssuedDeleted DEF NoneIssued
<1>2. request'[r] = IF request[r].made /\ request[r].access = Own(w) THEN Gone ELSE request[r]
  BY DEF RequestEffects
<1>3. CASE request[r].made /\ request[r].access = Own(w)
  <2>1. request'[r] = Gone /\ ~Gone.complete
    BY <1>2, <1>3 DEF Gone, NotMade
  <2>2. QED
    BY <1>1, <2>1 DEF Reported
<1>4. CASE ~(request[r].made /\ request[r].access = Own(w))
  <2>1. ~Rejecting(r)
    <3>1. SUFFICES ASSUME Rejecting(r) PROVE FALSE
      OBVIOUS
    <3>2. worker[w].kind = "reject" /\ worker[w].req = r
      BY <3>1 DEF Rejecting, OneAtWork
    <3>3. request[r].made /\ request[r].access = worker[w].id
      BY <3>2 DEF Settled, Updates
    <3>4. QED
      BY <1>4, <3>3 DEF Own
  <2>2. ~request'[r].complete
    BY <1>1, <1>2, <1>4, <2>1 DEF Settled, Reported
  <2>3. QED
    BY <1>1, <2>2 DEF Reported
<1>5. QED
  BY <1>3, <1>4

(* So what is marked as issued goes on to work, or to be decided.            *)
LEMMA ReportedGoes ==
    ASSUME Typed, CredentialAssumption, Owned, OneAtWork, Settled,
           NEW w \in Workers, Step(w) # "rest", NEW rec, NEW t, Changes(w, rec, t),
           Effects(w), RequestEffects(w), UpdateGoes(w), NEW r \in Requests
    PROVE  Reported(r)'
<1>1. CASE Step(w) \notin {"link", "write", "complete", "unissue", "unrequest"}
  <2>1. request'[r] = request[r]
    BY <1>1 DEF RequestEffects
  <2>2. QED
    BY <1>1, <2>1, OtherReported
<1>2. CASE Step(w) = "unrequest"
  BY <1>2, DeletedReported
<1>3. CASE Step(w) \in {"link", "write", "complete", "unissue"} /\ r # worker[w].req
  <2>1. request'[r] = request[r]
    BY <1>3 DEF RequestEffects
  <2>2. QED
    BY <1>3, <2>1, OtherReported
<1>4. CASE Step(w) \in {"link", "unissue"} /\ r = worker[w].req
  BY <1>4, LinkReported, UnissueReported
<1>5. CASE Step(w) \in {"write", "complete"} /\ r = worker[w].req
  <2>1. CASE request' = request
    BY <1>5, <2>1, OtherReported
  <2>2. CASE request' # request
    BY <1>5, <2>2, WriteReported, CompleteReported
  <2>3. QED
    BY <2>1, <2>2
<1>6. QED
  BY <1>1, <1>2, <1>3, <1>4, <1>5

(* All of it, while only one worker is at work.                              *)
LEMMA SettledGoes ==
    ASSUME Typed, CredentialAssumption, Owned, OneAtWork, Settled,
           NEW w \in Workers, Step(w) # "rest", NEW rec, NEW t, Changes(w, rec, t),
           Effects(w), RequestEffects(w), UpdateGoes(w)
    PROVE  OneAtWork' /\ Settled'
<1>1. \A r \in Requests : Reported(r)'
  BY ReportedGoes
<1>2. \A u \in Workers : Updates(worker[u], Step(u))' /\ Clears(worker[u], Step(u))'
  BY UpdatesGoes, ClearsGoes
<1>3. Settled'
  BY <1>1, <1>2 DEF Settled
<1>4. OneAtWork'
  BY AloneGoes DEF OneAtWork
<1>5. QED
  BY <1>3, <1>4

(* What starts while all rest, of the request req and at the step s.          *)
Begins(w, kind, req, s) ==
    /\ \A u \in Workers \ {w} : worker'[u] = Idle /\ Step(u)' = "rest"
    /\ Step(w)' = s /\ worker'[w].kind = kind /\ worker'[w].req = req
    /\ UNCHANGED <<env, request, stores>>
    /\ \/ kind = "collect" /\ s = FirstOfMaking /\ request[req].made
       \/ kind = "issue" /\ s = FirstOfMaking /\ stores.row = None
       \/ kind = "renew" /\ s = FirstOfRenewal
       \/ kind = "revoke" /\ s = "svc"
       \/ /\ kind \in {"approve", "reject"} /\ s = "write" /\ request[req].made
          /\ Len(worker'[w].todo) > 1 <=> Open(kind, req)

(* The others go on to rest.                                                 *)
LEMMA EntersAlone ==
    ASSUME Typed, Resting, NEW w \in Workers, NEW kind, NEW req, NEW id, NEW key,
           NEW s, s # "rest", Enters(w, kind, req, id, key, s)
    PROVE  /\ \A u \in Workers \ {w} : worker'[u] = Idle /\ Step(u)' = "rest"
           /\ Step(w)' = s /\ worker'[w].kind = kind /\ worker'[w].req = req
<1>1. PICK rec \in Recs : Fresh(rec, kind, req, id, key) /\ Moves(w, rec, s)
  BY DEF Enters
<1>2. \A u \in Workers \ {w} : worker'[u] = worker[u] /\ Step(u)' = Step(u)
  BY <1>1, MovesTo, TypedParts
<1>3. \A u \in Workers : worker[u] = Idle /\ Step(u) = "rest"
  <2>1. \A u \in Workers : worker[u] = Idle
    BY DEF Resting
  <2>2. \A u \in Workers : Step(u) = "rest"
    BY <2>1 DEF Step, First, Idle
  <2>3. QED
    BY <2>1, <2>2
<1>4. Step(w)' = s /\ worker'[w].kind = rec.kind /\ worker'[w].req = rec.req
  BY <1>1, MovesTo, TypedParts
<1>5. QED
  BY <1>1, <1>2, <1>3, <1>4 DEF Fresh

(* An update goes on after its write just when there is something to decide.   *)
LEMMA UpdateLength ==
    ASSUME Typed, NEW w \in Workers, NEW r \in Requests, NEW kind \in {"approve", "reject"},
           IF kind = "approve" THEN Approve(w, r) ELSE Reject(w, r)
    PROVE  Len(worker'[w].todo) > 1 <=> Open(kind, r)
<1>1. PICK after \in Seq(Steps) :
        after = IF kind = "approve" THEN <<"details">> \o Setup ELSE <<"details">>
  <2>1. /\ <<"details">> \in Seq(Steps) /\ <<"enable">> \in Seq(Steps)
        /\ <<>> \in Seq(Steps) /\ <<"activate", "resync">> \in Seq(Steps)
    BY DEF Steps
  <2>2. Setup \in Seq(Steps)
    <3>1. CASE Acl \/ OAuth
      BY <2>1, <3>1, ConcatProperties DEF Setup
    <3>2. CASE ~(Acl \/ OAuth)
      BY <2>1, <3>2, ConcatProperties DEF Setup
    <3>3. QED
      BY <3>1, <3>2
  <2>3. <<"details">> \o Setup \in Seq(Steps)
    BY <2>1, <2>2, ConcatProperties
  <2>4. QED
    BY <2>1, <2>3
<1>2. Len(after) > 0
  BY <1>1 DEF Setup, Steps
<1>3. worker'[w].todo = <<"write">> \o (IF Open(kind, r) THEN after ELSE <<>>)
  <2>1. PICK todo, rec :
          /\ todo = <<"write">> \o (IF Open(kind, r) THEN after ELSE <<>>)
          /\ rec = [Idle EXCEPT !.kind = kind, !.req = r, !.todo = todo]
          /\ worker' = [worker EXCEPT ![w] = rec]
    <3>1. CASE kind = "approve"
      BY <1>1, <3>1 DEF Approve, Start
    <3>2. CASE kind = "reject"
      BY <1>1, <3>2 DEF Reject, Start
    <3>3. QED
      BY <3>1, <3>2
  <2>2. worker'[w] = rec /\ rec.todo = todo
    BY <2>1, TypedParts DEF Idle
  <2>3. QED
    BY <2>1, <2>2
<1>4. <<"write">> \in Seq(Steps) /\ Len(<<"write">>) = 1
  BY DEF Steps
<1>5. CASE Open(kind, r)
  <2>1. Len(<<"write">> \o after) = 1 + Len(after)
    BY <1>1, <1>4, ConcatProperties
  <2>2. QED
    BY <1>1, <1>2, <1>3, <1>5, <2>1, LenProperties
<1>6. CASE ~Open(kind, r)
  <2>1. <<"write">> \o <<>> = <<"write">>
    BY <1>4, ConcatEmptySeq
  <2>2. QED
    BY <1>3, <1>4, <1>6, <2>1
<1>7. QED
  BY <1>5, <1>6

(* Everything that is started while all rest begins like that.               *)
LEMMA Beginnings ==
    ASSUME Typed, Resting, NEW w \in Workers,
           \/ \E r \in Requests : Collect(w, r) \/ Approve(w, r) \/ Reject(w, r)
           \/ Issue(w) \/ Renew(w) \/ Revoke(w)
    PROVE  \E kind, req, s : Begins(w, kind, req, s)
<1>0. FirstOfMaking # "rest" /\ FirstOfRenewal # "rest"
  BY DEF FirstOfMaking, FirstOfRenewal
<1>1. ASSUME NEW r \in Requests, Collect(w, r)
      PROVE  Begins(w, "collect", r, FirstOfMaking)
  <2>1. UNCHANGED <<env, request, stores>> /\ request[r].made
    BY <1>1 DEF Collect
  <2>2. QED
    BY <1>0, <1>1, <2>1, CollectStarts, EntersAlone DEF Begins
<1>2. ASSUME NEW r \in Requests, NEW kind \in {"approve", "reject"},
             IF kind = "approve" THEN Approve(w, r) ELSE Reject(w, r)
      PROVE  Begins(w, kind, r, "write")
  <2>1. UNCHANGED <<env, request, stores>> /\ request[r].made
    BY <1>2 DEF Approve, Reject
  <2>2. Enters(w, kind, r, None, None, "write")
    BY <1>2, UpdateStarts
  <2>3. Len(worker'[w].todo) > 1 <=> Open(kind, r)
    BY <1>2, UpdateLength
  <2>4. /\ \A u \in Workers \ {w} : worker'[u] = Idle /\ Step(u)' = "rest"
        /\ Step(w)' = "write" /\ worker'[w].kind = kind /\ worker'[w].req = r
    BY <2>2, EntersAlone
  <2>5. QED
    BY <2>1, <2>3, <2>4 DEF Begins
<1>3. ASSUME Issue(w) PROVE Begins(w, "issue", None, FirstOfMaking)
  <2>1. UNCHANGED <<env, request, stores>> /\ stores.row = None
    BY <1>3 DEF Issue
  <2>2. QED
    BY <1>0, <1>3, <2>1, IssueStarts, EntersAlone DEF Begins
<1>4. ASSUME Renew(w) PROVE Begins(w, "renew", None, FirstOfRenewal)
  <2>1. UNCHANGED <<env, request, stores>>
    BY <1>4 DEF Renew
  <2>2. QED
    BY <1>0, <1>4, <2>1, RenewStarts, EntersAlone DEF Begins
<1>5. ASSUME Revoke(w) PROVE Begins(w, "revoke", None, "svc")
  <2>1. UNCHANGED <<env, request, stores>>
    BY <1>5 DEF Revoke
  <2>2. QED
    BY <1>5, <2>1, RevokeStarts, EntersAlone DEF Begins
<1>6. ASSUME NEW r \in Requests, Approve(w, r) \/ Reject(w, r)
      PROVE  \E kind \in {"approve", "reject"} : Begins(w, kind, r, "write")
  BY <1>2, <1>6
<1>7. QED
  BY <1>1, <1>3, <1>4, <1>5, <1>6

(* What starts finds nothing marked that does not work.                      *)
LEMMA SettledStarts ==
    ASSUME Typed, Settled, Resting, NEW w \in Workers,
           \/ \E r \in Requests : Collect(w, r) \/ Approve(w, r) \/ Reject(w, r)
           \/ Issue(w) \/ Renew(w) \/ Revoke(w)
    PROVE  OneAtWork' /\ Settled'
<1>1. PICK kind, req, s : Begins(w, kind, req, s)
  BY Beginnings
<1>2. /\ \A u \in Workers \ {w} : worker'[u] = Idle /\ Step(u)' = "rest"
      /\ Step(w)' = s /\ worker'[w].kind = kind /\ worker'[w].req = req
      /\ UNCHANGED <<env, request, stores>>
  BY <1>1 DEF Begins
<1>3. ASSUME NEW r \in Requests PROVE ~Deciding(r) /\ ~Rejecting(r)
  BY DEF Resting, Deciding, Rejecting, Idle, Deciders
<1>4. ASSUME NEW r \in Requests PROVE Reported(r)'
  <2>1. request[r].issued => Works(request[r].access)'
    BY <1>2, <1>3 DEF Settled, Reported, Works, Covered, Enabled, Acl, OAuth
  <2>2. QED
    BY <1>2, <1>3, <2>1 DEF Settled, Reported
<1>5. ASSUME NEW u \in Workers \ {w}
      PROVE  Updates(worker[u], Step(u))' /\ Clears(worker[u], Step(u))'
  BY <1>2 DEF Updates, Clears, Idle, Deciders
<1>6. kind = "issue" => NoneIssued
  <2>1. SUFFICES ASSUME kind = "issue" PROVE NoneIssued
    OBVIOUS
  <2>2. stores.row = None
    BY <1>1, <2>1 DEF Begins
  <2>3. stores.own = None
    BY <2>2, TypedParts DEF StoresTyped
  <2>4. QED
    BY <1>3, <2>3 DEF NoneIssued, Settled, Reported, Works, Covered
<1>7. s \in {"client", "consumer", "find", "locate", "svc", "write"}
  BY <1>1 DEF Begins, FirstOfMaking, FirstOfRenewal
<1>8. Updates(worker[w], Step(w))'
  <2>1. /\ kind \in {"collect", "approve", "reject"} => request[req].made
        /\ s = "write" => (Len(worker'[w].todo) > 1 <=> Open(kind, req))
        /\ kind # "nested"
        /\ kind \in {"approve", "reject"} => s = "write"
    BY <1>1, <1>7 DEF Begins, FirstOfMaking, FirstOfRenewal
  <2>2. Open(kind, req)' <=> Open(kind, req)
    BY <1>2 DEF Open
  <2>3. QED
    BY <1>2, <2>1, <2>2 DEF Updates, Deciders, Open
<1>9. Clears(worker[w], Step(w))'
  <2>1. kind = "collect" => s \in {"client", "consumer"}
    BY <1>1 DEF Begins, FirstOfMaking
  <2>2. QED
    BY <1>2, <1>6, <1>7, <2>1 DEF Clears, NoneIssued
<1>10. Settled'
  BY <1>4, <1>5, <1>8, <1>9 DEF Settled
<1>11. OneAtWork'
  BY <1>2 DEF OneAtWork
<1>12. QED
  BY <1>10, <1>11

(* Requests and the sync leave it alone.                                   *)
LEMMA SettledOthers ==
    ASSUME Typed, OneAtWork, Settled, ~history'.overlapped,
           \/ \E r \in Requests : CreateRequest(r) \/ Cancel(r)
           \/ FeedRead \/ FeedWrite \/ UNCHANGED vars
    PROVE  OneAtWork' /\ Settled'
<1>0. StoresTyped /\ RequestsTyped /\ Remembered
  BY TypedParts
<1>1. UNCHANGED <<env, worker>>
  BY OthersChange
<1>2. /\ stores'.kong = stores.kong /\ stores'.own = stores.own
      /\ stores'.access = stores.access /\ stores'.enabled = stores.enabled
      /\ stores'.acl = stores.acl /\ stores'.active = stores.active
  BY <1>0 DEF CreateRequest, Cancel, FeedRead, FeedWrite, vars, Synced, StoresTyped
<1>3. /\ \A v \in Workers : Step(v)' = Step(v)
      /\ \A id : (Works(id)' <=> Works(id)) /\ (Covered(id)' <=> Covered(id))
      /\ Enabled' <=> Enabled
  BY <1>1, <1>2 DEF Step, Works, Covered, Enabled, Acl, OAuth
<1>4. CASE \E q \in Requests : Cancel(q)
  <2>1. PICK q \in Requests : Cancel(q)
    BY <1>4
  <2>2. history'.overlapped = (history.overlapped \/ ~Resting)
    BY <1>0, <2>1 DEF Cancel, Overlapping, Remembered
  <2>3. \A v \in Workers : worker'[v] = Idle /\ Step(v)' = "rest" /\ Step(v) = "rest"
    <3>1. \A v \in Workers : worker[v] = Idle /\ worker'[v] = Idle
      BY <1>1, <2>2 DEF Resting
    <3>2. \A v \in Workers : Step(v)' = "rest" /\ Step(v) = "rest"
      BY <3>1 DEF Step, First, Idle
    <3>3. QED
      BY <3>1, <3>2
  <2>4. ASSUME NEW r \in Requests PROVE Reported(r)'
    <3>1. request'[r] = request[r] \/ (~request'[r].issued /\ ~request'[r].complete)
      BY <1>0, <2>1 DEF Cancel, Gone, NotMade, RequestsTyped
    <3>2. ~Deciding(r) /\ ~Rejecting(r)
      BY <2>3 DEF Deciding, Rejecting
    <3>3. CASE request'[r] = request[r]
      <4>1. request[r].issued => Works(request[r].access)'
        BY <1>3, <3>2, <3>3 DEF Settled, Reported, Works, Covered
      <4>2. QED
        BY <3>2, <3>3, <4>1 DEF Settled, Reported
    <3>4. CASE ~request'[r].issued /\ ~request'[r].complete
      BY <3>4 DEF Reported
    <3>5. QED
      BY <3>1, <3>3, <3>4
  <2>5. \A v \in Workers : Updates(worker[v], Step(v))' /\ Clears(worker[v], Step(v))'
    BY <2>3 DEF Updates, Clears, Idle, Deciders
  <2>6. QED
    BY <2>3, <2>4, <2>5 DEF Settled, OneAtWork
<1>5. CASE (\E q \in Requests : CreateRequest(q)) \/ FeedRead \/ FeedWrite \/ UNCHANGED vars
  <2>1. \A r \in Requests : /\ request'[r].issued = request[r].issued
                            /\ request'[r].complete = request[r].complete
                            /\ request'[r].access = request[r].access
                            /\ request[r].made => request'[r].made
    BY <1>0, <1>5 DEF CreateRequest, FeedRead, FeedWrite, vars, NotMade, RequestsTyped
  <2>2. ASSUME NEW r \in Requests PROVE Reported(r)'
    <3>1. (Deciding(r)' <=> Deciding(r)) /\ (Rejecting(r)' <=> Rejecting(r))
      BY <1>1, <1>3 DEF Deciding, Rejecting
    <3>2. Works(request[r].access) => Works(request[r].access)'
      BY <1>3, <2>1 DEF Works, Covered
    <3>3. QED
      BY <2>1, <3>1, <3>2 DEF Settled, Reported
  <2>3. ASSUME NEW v \in Workers
        PROVE  Updates(worker[v], Step(v))' /\ Clears(worker[v], Step(v))'
    <3>1. worker'[v] = worker[v] /\ Step(v)' = Step(v)
          /\ Updates(worker[v], Step(v)) /\ Clears(worker[v], Step(v))
      BY <1>1, <1>3 DEF Settled
    <3>2. /\ worker[v].kind \in {"collect", "nested", "approve", "reject"} =>
                worker[v].req \in Requests
          /\ Step(v) = "write" => worker[v].kind \in {"approve", "reject"}
      BY UpdateSteps
    <3>3. Updates(worker[v], Step(v))'
      <4>1. worker[v].req \in Requests =>
               /\ Open(worker[v].kind, worker[v].req)' <=> Open(worker[v].kind, worker[v].req)
               /\ Works(request[worker[v].req].access)' <=> Works(request[worker[v].req].access)
        BY <1>1, <1>2, <2>1 DEF Open, Works, Covered, Enabled, Acl, OAuth
      <4>2. QED
        BY <1>1, <1>2, <1>3, <2>1, <3>1, <3>2, <4>1 DEF Updates, Deciders, Covered
    <3>4. NoneIssued => NoneIssued'
      BY <2>1 DEF NoneIssued
    <3>5. Clears(worker[v], Step(v))'
      BY <1>2, <3>1, <3>4 DEF Clears
    <3>6. QED
      BY <3>3, <3>5
  <2>4. OneAtWork'
    BY <1>3 DEF OneAtWork
  <2>5. QED
    BY <2>2, <2>3, <2>4 DEF Settled
<1>6. QED
  BY <1>4, <1>5

(* A worker that does something does not rest.                               *)
LEMMA AtWork ==
    ASSUME Typed, NEW w \in Workers, Work(w) \/ Stop(w)
    PROVE  Step(w) # "rest"
<1>0. CASE Stop(w)
  BY <1>0, KindAtStep DEF Stop
<1> SUFFICES ASSUME Work(w) PROVE Step(w) # "rest"
  BY <1>0
<1>1. \A s : Doing(w, s) => worker[w].todo # <<>>
  BY DEF Doing
<1>2. ASSUME \/ RegisterClient(w) \/ CreateKongConsumer(w) \/ AddConsumerRow(w)
             \/ ForceSync(w) \/ AddServiceAccess(w) \/ PutClient(w) \/ AddKeyAuth(w)
      PROVE  worker[w].todo # <<>>
  BY <1>1, <1>2 DEF RegisterClient, CreateKongConsumer, AddConsumerRow, ForceSync,
     AddServiceAccess, PutClient, AddKeyAuth, AddKeyTo, Call, Attempt
<1>3. ASSUME \/ LinkServiceAccess(w) \/ Write(w) \/ Complete(w) \/ LookUpDetails(w)
             \/ Consult(w) \/ Enable(w) \/ Locate(w) \/ FindClient(w)
      PROVE  worker[w].todo # <<>>
  BY <1>1, <1>3 DEF LinkServiceAccess, Write, Complete, LookUpDetails, Consult, Enable,
     Locate, FindClient, Attempt
<1>4. ASSUME \/ Activate(w) \/ DeleteKeyAuth(w) \/ CleanRow(w) \/ CleanKong(w)
             \/ CleanClient(w) \/ DeleteRow(w) \/ DeleteKongConsumer(w)
             \/ DeleteClient(w) \/ DeleteServiceAccess(w)
      PROVE  worker[w].todo # <<>>
  BY <1>1, <1>4 DEF Activate, DeleteKeyAuth, CleanRow, CleanKong, CleanClient, DeleteRow,
     DeleteKongConsumer, DeleteClient, DeleteServiceAccess, Try, Attempt
<1>5. ASSUME Relink(w) \/ Unissue(w) \/ LookUpAccess(w) \/ DeleteRequest(w)
      PROVE  worker[w].todo # <<>>
  BY <1>1, <1>5 DEF Relink, Unissue, LookUpAccess, DeleteRequest
<1>6. worker[w].todo # <<>> /\ worker[w].todo \in Seq(Steps)
  BY <1>2, <1>3, <1>4, <1>5, TypedParts DEF Work, Recs
<1>7. Head(worker[w].todo) \in Steps /\ "rest" \notin Steps
  BY <1>6, HeadTailProperties DEF Steps, Deleting
<1>8. QED
  BY <1>6, <1>7 DEF Step, First

(* At the start nothing is marked.                                           *)
LEMMA SettledInit == Init => OneAtWork /\ Settled
<1> SUFFICES ASSUME Init PROVE OneAtWork /\ Settled
  OBVIOUS
<1>1. \A w \in Workers : worker[w] = Idle
  BY DEF Init
<1>2. \A w \in Workers : Step(w) = "rest"
  BY <1>1 DEF Step, First, Idle
<1>3. \A r \in Requests : request[r] = NotMade
  BY DEF Init
<1>4. \A r \in Requests : Reported(r)
  BY <1>3 DEF Reported, NotMade
<1>5. \A w \in Workers : Updates(worker[w], Step(w)) /\ Clears(worker[w], Step(w))
  BY <1>1, <1>2 DEF Updates, Clears, Idle, Deciders
<1>6. QED
  BY <1>2, <1>4, <1>5 DEF OneAtWork, Settled

(* As long as nothing overlaps, one worker is at work at a time.             *)
LEMMA SettledNext ==
    ASSUME Typed, CredentialAssumption, Tracked, OneAtWork, Settled, [Next]_vars,
           ~history'.overlapped
    PROVE  history'.dirty \/ (OneAtWork' /\ Settled')
<1>1. ASSUME NEW w \in Workers, Work(w) \/ Stop(w)
      PROVE  history'.dirty \/ (OneAtWork' /\ Settled')
  <2>1. /\ Goes(w) /\ (history'.dirty \/ Effects(w))
        /\ history'.dirty \/ (RequestEffects(w) /\ UpdateGoes(w))
    BY <1>1, WorkGoes, WorkEffects, WorkReplies DEF Tracked
  <2>2. Step(w) # "rest"
    BY <1>1, AtWork
  <2>3. ASSUME NEW rec, NEW t, Changes(w, rec, t), Effects(w), RequestEffects(w), UpdateGoes(w)
        PROVE  OneAtWork' /\ Settled'
    BY <2>2, <2>3, SettledGoes DEF Tracked
  <2>4. QED
    BY <2>1, <2>3 DEF Goes
<1>2. ASSUME NEW w \in Workers,
             \/ \E r \in Requests : Collect(w, r) \/ Approve(w, r) \/ Reject(w, r)
             \/ Issue(w) \/ Renew(w) \/ Revoke(w)
      PROVE  OneAtWork' /\ Settled'
  <2>1. \E kind, id, key, s : Starting(w, kind, id, key, s)
    BY <1>2, StartsSo
  <2>2. PICK kind, id : StartNoted(kind, id)
    BY <2>1 DEF Starting
  <2>3. Resting
    BY <2>2 DEF StartNoted
  <2>4. QED
    BY <1>2, <2>3, SettledStarts
<1>3. QED
  BY <1>1, <1>2, SettledOthers DEF Next

(* What overlapped is remembered.                                            *)
LEMMA OverlapStays ==
    ASSUME Typed, [Next]_vars
    PROVE  history.overlapped => history'.overlapped
<1>1. ASSUME NEW w \in Workers,
             \/ \E r \in Requests : Collect(w, r) \/ Approve(w, r) \/ Reject(w, r)
             \/ Issue(w) \/ Renew(w) \/ Revoke(w)
      PROVE  history.overlapped => history'.overlapped
  <2>1. \E kind, id, key, s : Starting(w, kind, id, key, s)
    BY <1>1, StartsSo
  <2>2. PICK kind, id : StartNoted(kind, id)
    BY <2>1 DEF Starting
  <2>3. QED
    BY <2>2 DEF StartNoted
<1>2. ASSUME \/ \E r \in Requests : CreateRequest(r) \/ Cancel(r)
             \/ FeedRead \/ FeedWrite \/ UNCHANGED vars
      PROVE  history.overlapped => history'.overlapped
  BY <1>2, TypedParts DEF CreateRequest, Cancel, FeedRead, FeedWrite, vars, Overlapping,
     Remembered
<1>3. ASSUME NEW w \in Workers, Work(w) \/ Stop(w)
      PROVE  history.overlapped => history'.overlapped
  BY <1>3, WorkRemains DEF Remains
<1>4. QED
  BY <1>1, <1>2, <1>3 DEF Next

(* What is marked as issued is in effect, whatever call failed before, and for *)
(* every flow: an approval, a collection or a rejection that fails half way    *)
(* takes the mark back, as long as no two activities overlap, no failure that *)
(* is only logged (of marking the ServiceAccess active, of a deletion, of the *)
(* taking back itself) went unnoticed and no restart cut one off.            *)
THEOREM IssuedWorking == Spec => []IssuedIsInEffect
<1> DEFINE Inv ==
      /\ Typed
      /\ \/ history.dirty
         \/ Tracked /\ (history.overlapped \/ (OneAtWork /\ Settled))
<1>1. Init => Inv
  BY TypedInit, TrackedInit, SettledInit, CredentialAssumption
<1>2. Inv /\ [Next]_vars => Inv'
  <2> SUFFICES ASSUME Inv, [Next]_vars PROVE Inv'
    OBVIOUS
  <2>1. Typed'
    BY TypedNext, CredentialAssumption
  <2>2. CASE history.dirty
    BY <2>1, <2>2, MarksStay
  <2>3. CASE Tracked /\ ~history.dirty
    <3>1. history'.dirty \/ Tracked'
      BY <2>3, TrackedNext, CredentialAssumption
    <3>2. CASE history.overlapped
      BY <2>1, <3>1, <3>2, OverlapStays
    <3>3. CASE OneAtWork /\ Settled /\ ~history'.overlapped
      <4>1. history'.dirty \/ (OneAtWork' /\ Settled')
        BY <2>3, <3>3, SettledNext, CredentialAssumption
      <4>2. QED
        BY <2>1, <3>1, <4>1
    <3>4. QED
      BY <2>1, <2>3, <3>1, <3>2, <3>3
  <2>4. QED
    BY <2>2, <2>3
<1>3. Inv => IssuedIsInEffect
  <2> SUFFICES ASSUME Typed, Tracked, Settled, Resting, NEW r \in Requests, request[r].issued
               PROVE  InEffect(request[r].access)
    BY DEF IssuedIsInEffect
  <2>1. ~Deciding(r)
    BY DEF Resting, Deciding, Deciders, Idle
  <2>2. Works(request[r].access)
    BY <2>1 DEF Settled, Reported
  <2>3. stores.kong = request[r].access
    BY <2>2 DEF Works, Covered, Tracked, Owned
  <2>4. QED
    BY <2>2, <2>3 DEF InEffect, Works, Covered, Enabled
<1>4. QED
  BY <1>1, <1>2, <1>3, PTL DEF Spec
=============================================================================
