------------------------------ MODULE SdxKeys ------------------------------
(***************************************************************************)
(* The key set of one SDX profile (a runtime group's edge keys, or the     *)
(* keys of an organization or subsystem) and the provisioner's handlers of *)
(* the pattern sdx-keys.r1.                                                *)
(*                                                                         *)
(* A handler reads the published keys through the gateway API, computes    *)
(* the complete desired key set from what it read, and publishes it; the   *)
(* gateway replaces everything that carries the qualifier's tag.  Nothing  *)
(* is locked between the read and the publish, so handlers interleave      *)
(* there, and that is the only place where they can.                       *)
(***************************************************************************)
EXTENDS Naturals, Sequences

CONSTANTS
    Kids,        \* key ids in the profile's name space
    Materials,   \* public keys, identified by their RFC 7638 thumbprint
    IndexKid,    \* IndexKid[i] is the kid {urn}:(i-1) of the untargeted publish
    SuppliedKids,\* kids that callers may ask for by name (parameter "kid")
    Handlers,    \* requests the provisioner may be handling at one time
    NoKid        \* the caller supplied no kid

ASSUME KeysAssumption ==
    /\ SuppliedKids \subseteq Kids
    /\ NoKid \notin Kids
    /\ IndexKid \in Seq(Kids)
    /\ Len(IndexKid) >= 1
    /\ \A i, j \in DOMAIN IndexKid : IndexKid[i] = IndexKid[j] => i = j

VARIABLES
    qualifier, \* whose keys these are, and the kids its callers name; it stays
    keySet,    \* the keys published in the gateway under the qualifier
    handler    \* handler[h]: what h is about to publish

vars == <<qualifier, keySet, handler>>

(* Organizations and subsystems are clients; they and runtime groups have   *)
(* callers that name kids, or leave the choice to the provisioner.          *)
Qualifiers == [profile : {"runtime-group", "client"}, supplied : {{}, SuppliedKids}]

Keys == [kid : Kids, mat : Materials]

Operations == {"add", "rotate", "replace", "delete", "publish", "wipe"}

(* A handler without a request in hand. *)
Idle == [op |-> "none", desired |-> {}]

(* A handler between its read and its publish. *)
Publishing(op, desired) == [op |-> op, desired |-> desired]

-----------------------------------------------------------------------------
(* Helpers on key sets                                                     *)

KidsOf(keys) == {key.kid : key \in keys}

MatsOf(keys) == {key.mat : key \in keys}

Without(keys, kid) == {key \in keys : key.kid # kid}

(* Faults: a fresh kid that is not compared with the occupied ones; the     *)
(* supplied kid used even when there is none.                               *)
NewKidsUnchecked(supplied, occupied) ==
    IF supplied # NoKid THEN {supplied} ELSE Kids

NewKidsUnresolved(supplied, occupied) == {supplied}

(* The kid of a new key: the supplied one as it is, or a fresh suffix that  *)
(* is not occupied.  No element when the random attempts find none.         *)
NewKids(supplied, occupied) ==
    IF supplied # NoKid THEN {supplied} ELSE Kids \ KidsOf(occupied)

AddingNew(keys, mat, supplied) ==
    {keys \cup {[kid |-> kid, mat |-> mat]} : kid \in NewKids(supplied, keys)}

-----------------------------------------------------------------------------
(* applyOperation: the desired key sets an operation can answer with, given *)
(* the keys it read.  The empty set is a refusal (HTTP 422).                *)

(* Fault: add without the look for duplicate material. *)
AddDuplicating(existing, mat, supplied) == AddingNew(existing, mat, supplied)

AddKey(existing, mat, supplied) ==
    IF mat \in MatsOf(existing) THEN {existing}
    ELSE AddingNew(existing, mat, supplied)

RotateKey(existing, mat, supplied) ==
    IF mat \in MatsOf(existing) THEN {}
    ELSE AddingNew(existing, mat, supplied)

(* When the incoming key is already published under another kid, replacing  *)
(* the target only drops it.                                                *)
ReplaceKey(existing, target, mat, supplied) ==
    IF target \notin KidsOf(existing) THEN {}
    ELSE LET rest == Without(existing, target)
             duplicates == {key \in existing : key.mat = mat}
         IN  IF duplicates = {} THEN AddingNew(rest, mat, supplied)
             ELSE {IF duplicate.kid = target THEN existing ELSE rest :
                       duplicate \in duplicates}

(* Fault: the last key may be deleted. *)
DeleteKeyAny(existing, target) ==
    IF target \in KidsOf(existing) THEN {Without(existing, target)} ELSE {}

DeleteKey(existing, target) ==
    LET rest == Without(existing, target)
    IN  IF target \in KidsOf(existing) /\ rest # {} THEN {rest} ELSE {}

(* legacyKeyDocuments: an organization or subsystem that names no operation *)
(* publishes one key {urn}:0, or one key per certificate when the request   *)
(* carries a CA chain; the current key set is not read.                     *)
LegacyKeys(certs, chained) ==
    IF chained
    THEN {[kid |-> IndexKid[i], mat |-> certs[i]] : i \in DOMAIN certs}
    ELSE {[kid |-> IndexKid[1], mat |-> certs[Len(certs)]]}

CertLists == UNION {[1..n -> Materials] : n \in 1..Len(IndexKid)}

-----------------------------------------------------------------------------
(* Before the first targeted operation the qualifier is empty or holds the  *)
(* {urn}:0 key of an earlier release.                                       *)
Init ==
    /\ qualifier \in Qualifiers
    /\ keySet \in {{}} \cup {LegacyKeys(<<mat>>, FALSE) : mat \in Materials}
    /\ handler = [h \in Handlers |-> Idle]

Supplied == qualifier.supplied \cup {NoKid}

(* inject: read the current keys, compute the complete desired state.       *)
Prepare(h, op, desiredSets) ==
    /\ handler[h] = Idle
    /\ \E desired \in desiredSets :
          handler' = [handler EXCEPT ![h] = Publishing(op, desired)]
    /\ UNCHANGED <<qualifier, keySet>>

Add(h) ==
    \E mat \in Materials, supplied \in Supplied :
        Prepare(h, "add", AddKey(keySet, mat, supplied))

Rotate(h) ==
    \E mat \in Materials, supplied \in Supplied :
        Prepare(h, "rotate", RotateKey(keySet, mat, supplied))

Replace(h) ==
    \E mat \in Materials, supplied \in Supplied, target \in Kids :
        Prepare(h, "replace", ReplaceKey(keySet, target, mat, supplied))

Delete(h) ==
    \E target \in Kids : Prepare(h, "delete", DeleteKey(keySet, target))

(* resolveOperation: on a runtime group an omitted operation is "add".      *)
PublishLegacy(h) ==
    /\ qualifier.profile = "client"
    /\ \E certs \in CertLists, chained \in BOOLEAN :
          Prepare(h, "publish", {LegacyKeys(certs, chained)})

(* Query action=delete without an operation removes the whole qualifier.    *)
Wipe(h) == Prepare(h, "wipe", {{}})

(* The gateway replaces all that carries the qualifier's tag.               *)
Publish(h) ==
    /\ handler[h] # Idle
    /\ keySet' = handler[h].desired
    /\ handler' = [handler EXCEPT ![h] = Idle]
    /\ UNCHANGED qualifier

(* The publish fails before it reaches the gateway, or the gateway refuses  *)
(* it.  (A publish that is applied and whose answer is lost is Publish: the *)
(* caller's view is not part of the state.)                                 *)
PublishFails(h) ==
    /\ handler[h] # Idle
    /\ handler' = [handler EXCEPT ![h] = Idle]
    /\ UNCHANGED <<qualifier, keySet>>

Next ==
    \E h \in Handlers :
        \/ Add(h)
        \/ Rotate(h)
        \/ Replace(h)
        \/ Delete(h)
        \/ PublishLegacy(h)
        \/ Wipe(h)
        \/ Publish(h)
        \/ PublishFails(h)

Spec == Init /\ [][Next]_vars

-----------------------------------------------------------------------------
(* Properties                                                              *)

TypeOK ==
    /\ qualifier \in Qualifiers
    /\ keySet \subseteq Keys
    /\ handler \in [Handlers -> [op : Operations \cup {"none"},
                                 desired : SUBSET Keys]]

OneEntryPerMaterial(keys) ==
    \A k1, k2 \in keys : k1.mat = k2.mat => k1 = k2

OneEntryPerKid(keys) ==
    \A k1, k2 \in keys : k1.kid = k2.kid => k1 = k2

(* A data plane finds its kid by matching its private key against the key   *)
(* set and fails closed when more than one entry matches, so a runtime      *)
(* group's public key is never published under two kids: not by a retried   *)
(* add, not by a replace, not by two handlers that overlap.                 *)
SignerIsUnambiguous ==
    qualifier.profile = "runtime-group" =>
        /\ OneEntryPerMaterial(keySet)
        /\ \A h \in Handlers : OneEntryPerMaterial(handler[h].desired)

(* The kids in a key set, and in every key set the provisioner is about to  *)
(* publish, are unique, overlapping handlers included.  It holds while      *)
(* callers leave the choice of a kid to the provisioner.                    *)
KidsAreUnique ==
    qualifier.supplied = {} =>
        /\ OneEntryPerKid(keySet)
        /\ \A h \in Handlers : OneEntryPerKid(handler[h].desired)

(* Only a wipe of the whole qualifier leaves a profile without any key: the *)
(* refusal to delete the last key also holds when several deletes, replaces *)
(* and publishes overlap.                                                   *)
OnlyWipeEmpties ==
    [][keySet # {} /\ keySet' = {} =>
           \E h \in Handlers : handler[h].op = "wipe" /\ handler'[h] = Idle]_vars

(* The documented contract of rotate: the keys published at that moment are *)
(* all retained.                                                            *)
RotateRetains ==
    [][\A h \in Handlers :
           handler[h].op = "rotate" /\ handler'[h] = Idle => keySet \subseteq keySet']_vars
=============================================================================
