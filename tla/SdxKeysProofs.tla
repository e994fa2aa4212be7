--------------------------- MODULE SdxKeysProofs ---------------------------
(***************************************************************************)
(* Proofs about SdxKeys, for every set of kids, of public keys and of      *)
(* overlapping handlers.                                                   *)
(***************************************************************************)
EXTENDS SdxKeys, TLAPS

(***************************************************************************)
(* What the operations can answer with, stated once: each desired key set  *)
(* is made of keys, is not empty, and has the uniqueness of what was read. *)
(***************************************************************************)

(* A targeted operation answers with a set of well-formed keys.            *)
LEMMA AnswersTyped ==
    ASSUME NEW existing \in SUBSET Keys, NEW mat \in Materials,
           NEW supplied \in Kids \cup {NoKid}, NEW target \in Kids
    PROVE  /\ AddKey(existing, mat, supplied) \subseteq SUBSET Keys
           /\ RotateKey(existing, mat, supplied) \subseteq SUBSET Keys
           /\ ReplaceKey(existing, target, mat, supplied) \subseteq SUBSET Keys
           /\ DeleteKey(existing, target) \subseteq SUBSET Keys
<1>1. \A keys \in SUBSET Keys : AddingNew(keys, mat, supplied) \subseteq SUBSET Keys
  <2>1. SUFFICES ASSUME NEW keys \in SUBSET Keys,
                        NEW kid \in NewKids(supplied, keys)
                 PROVE  keys \cup {[kid |-> kid, mat |-> mat]} \in SUBSET Keys
    BY DEF AddingNew
  <2>2. kid \in Kids
    BY KeysAssumption DEF NewKids
  <2>3. QED
    BY <2>2 DEF Keys
<1>2. Without(existing, target) \in SUBSET Keys
  BY DEF Without
<1>3. AddKey(existing, mat, supplied) \subseteq SUBSET Keys
  BY <1>1 DEF AddKey
<1>4. RotateKey(existing, mat, supplied) \subseteq SUBSET Keys
  BY <1>1 DEF RotateKey
<1>5. ReplaceKey(existing, target, mat, supplied) \subseteq SUBSET Keys
  BY <1>1, <1>2 DEF ReplaceKey
<1>6. DeleteKey(existing, target) \subseteq SUBSET Keys
  BY <1>2 DEF DeleteKey
<1>7. QED
  BY <1>3, <1>4, <1>5, <1>6

(* No targeted operation answers with the empty key set.                   *)
LEMMA AnswersNotEmpty ==
    ASSUME NEW existing \in SUBSET Keys, NEW mat \in Materials,
           NEW supplied \in Kids \cup {NoKid}, NEW target \in Kids
    PROVE  /\ {} \notin AddKey(existing, mat, supplied)
           /\ {} \notin RotateKey(existing, mat, supplied)
           /\ {} \notin ReplaceKey(existing, target, mat, supplied)
           /\ {} \notin DeleteKey(existing, target)
<1>1. \A keys : {} \notin AddingNew(keys, mat, supplied)
  BY DEF AddingNew
<1>2. {} \notin AddKey(existing, mat, supplied)
  BY <1>1 DEF AddKey, MatsOf
<1>3. {} \notin RotateKey(existing, mat, supplied)
  BY <1>1 DEF RotateKey
<1>4. {} \notin ReplaceKey(existing, target, mat, supplied)
  <2>1. \A duplicate \in existing :
           /\ existing # {}
           /\ duplicate.kid # target => duplicate \in Without(existing, target)
    BY DEF Without
  <2>2. QED
    BY <1>1, <2>1 DEF ReplaceKey
<1>5. {} \notin DeleteKey(existing, target)
  BY DEF DeleteKey
<1>6. QED
  BY <1>2, <1>3, <1>4, <1>5

(* A targeted operation on a key set that publishes each public key once   *)
(* answers with key sets that do too.                                      *)
LEMMA AnswersKeepMaterialsOnce ==
    ASSUME NEW existing \in SUBSET Keys, NEW mat \in Materials,
           NEW supplied \in Kids \cup {NoKid}, NEW target \in Kids,
           OneEntryPerMaterial(existing)
    PROVE  /\ \A keys \in AddKey(existing, mat, supplied) : OneEntryPerMaterial(keys)
           /\ \A keys \in RotateKey(existing, mat, supplied) : OneEntryPerMaterial(keys)
           /\ \A keys \in ReplaceKey(existing, target, mat, supplied) :
                  OneEntryPerMaterial(keys)
           /\ \A keys \in DeleteKey(existing, target) : OneEntryPerMaterial(keys)
<1>1. \A keys \in SUBSET existing : OneEntryPerMaterial(keys)
  BY DEF OneEntryPerMaterial
<1>2. Without(existing, target) \in SUBSET existing
  BY DEF Without
<1>3. ASSUME NEW keys \in SUBSET existing, mat \notin MatsOf(keys)
      PROVE  \A new \in AddingNew(keys, mat, supplied) : OneEntryPerMaterial(new)
  <2>1. SUFFICES ASSUME NEW kid,
                        NEW a \in keys \cup {[kid |-> kid, mat |-> mat]},
                        NEW b \in keys \cup {[kid |-> kid, mat |-> mat]},
                        a.mat = b.mat
                 PROVE  a = b
    BY DEF AddingNew, OneEntryPerMaterial
  <2>2. \A key \in keys : key.mat # mat
    BY <1>3 DEF MatsOf
  <2>3. QED
    BY <1>1, <2>1, <2>2 DEF OneEntryPerMaterial
<1>4. \A keys \in AddKey(existing, mat, supplied) : OneEntryPerMaterial(keys)
  BY <1>3 DEF AddKey
<1>5. \A keys \in RotateKey(existing, mat, supplied) : OneEntryPerMaterial(keys)
  BY <1>3 DEF RotateKey
<1>6. \A keys \in ReplaceKey(existing, target, mat, supplied) : OneEntryPerMaterial(keys)
  <2>1. CASE {key \in existing : key.mat = mat} = {}
    <3>1. mat \notin MatsOf(Without(existing, target))
      BY <2>1, <1>2 DEF MatsOf
    <3>2. ReplaceKey(existing, target, mat, supplied)
             \subseteq AddingNew(Without(existing, target), mat, supplied)
      BY <2>1 DEF ReplaceKey
    <3>3. QED
      BY <3>1, <3>2, <1>2, <1>3
  <2>2. CASE {key \in existing : key.mat = mat} # {}
    <3>1. ReplaceKey(existing, target, mat, supplied) \subseteq SUBSET existing
      BY <2>2, <1>2 DEF ReplaceKey
    <3>2. QED
      BY <3>1, <1>1
  <2>3. QED
    BY <2>1, <2>2
<1>7. \A keys \in DeleteKey(existing, target) : OneEntryPerMaterial(keys)
  BY <1>1, <1>2 DEF DeleteKey
<1>8. QED
  BY <1>4, <1>5, <1>6, <1>7

-----------------------------------------------------------------------------
(***************************************************************************)
(* The steps.  A step either lets one handler pick a desired key set, or   *)
(* publishes what a handler picked, or drops it.                           *)
(***************************************************************************)

Picks(h, op, desired) ==
    /\ handler' = [handler EXCEPT ![h] = Publishing(op, desired)]
    /\ UNCHANGED <<qualifier, keySet>>

(* What a handler may pick: an answer to what is published now, or nothing *)
(* at all for a wipe.                                                      *)
Justified(op, desired) ==
    \/ \E mat \in Materials, supplied \in Supplied :
          \/ op = "add" /\ desired \in AddKey(keySet, mat, supplied)
          \/ op = "rotate" /\ desired \in RotateKey(keySet, mat, supplied)
          \/ /\ op = "replace"
             /\ \E target \in Kids :
                   desired \in ReplaceKey(keySet, target, mat, supplied)
    \/ \E target \in Kids : op = "delete" /\ desired \in DeleteKey(keySet, target)
    \/ /\ op = "publish" /\ qualifier.profile = "client"
       /\ \E certs \in CertLists, chained \in BOOLEAN :
             desired = LegacyKeys(certs, chained)
    \/ op = "wipe" /\ desired = {}

Outcome(h) == Publish(h) \/ PublishFails(h)

(* Every step of the provisioner is one of these.                          *)
LEMMA StepShape ==
    ASSUME Next
    PROVE  \E h \in Handlers :
               \/ \E op \in Operations : \E desired :
                      Picks(h, op, desired) /\ Justified(op, desired)
               \/ Outcome(h)
<1>1. PICK h \in Handlers :
          \/ Add(h) \/ Rotate(h) \/ Replace(h) \/ Delete(h)
          \/ PublishLegacy(h) \/ Wipe(h) \/ Publish(h) \/ PublishFails(h)
  BY DEF Next
<1>3. CASE Add(h)
  BY <1>3 DEF Add, Prepare, Picks, Justified, Operations
<1>4. CASE Rotate(h)
  BY <1>4 DEF Rotate, Prepare, Picks, Justified, Operations
<1>5. CASE Replace(h)
  BY <1>5 DEF Replace, Prepare, Picks, Justified, Operations
<1>6. CASE Delete(h)
  BY <1>6 DEF Delete, Prepare, Picks, Justified, Operations
<1>7. CASE PublishLegacy(h)
  BY <1>7 DEF PublishLegacy, Prepare, Picks, Justified, Operations
<1>8. CASE Wipe(h)
  BY <1>8 DEF Wipe, Prepare, Picks, Justified, Operations
<1>9. CASE Publish(h) \/ PublishFails(h)
  BY <1>9 DEF Outcome
<1>10. QED
  BY <1>1, <1>3, <1>4, <1>5, <1>6, <1>7, <1>8, <1>9

(* Whose keys they are, and which kids callers name, does not change.      *)
LEMMA QualifierStays ==
    ASSUME [Next]_vars
    PROVE  qualifier' = qualifier
<1>1. ASSUME NEW h \in Handlers, NEW op, NEW desired, Picks(h, op, desired)
      PROVE  qualifier' = qualifier
  BY <1>1 DEF Picks
<1>2. ASSUME NEW h \in Handlers, Outcome(h) PROVE qualifier' = qualifier
  BY <1>2 DEF Outcome, Publish, PublishFails
<1>3. QED
  BY <1>1, <1>2, StepShape DEF vars

(* Callers name kids of the profile's name space.                          *)
LEMMA SuppliedAreKids ==
    ASSUME qualifier \in Qualifiers
    PROVE  Supplied \subseteq Kids \cup {NoKid}
BY KeysAssumption DEF Supplied, Qualifiers

(* The untargeted publish is made of keys, is not empty, and its indexed   *)
(* kids differ.                                                            *)
LEMMA LegacyAnswers ==
    ASSUME NEW certs \in CertLists, NEW chained \in BOOLEAN
    PROVE  /\ LegacyKeys(certs, chained) \in SUBSET Keys
           /\ LegacyKeys(certs, chained) # {}
           /\ OneEntryPerKid(LegacyKeys(certs, chained))
<1>1. PICK n \in 1..Len(IndexKid) : certs \in [1..n -> Materials]
  BY DEF CertLists
<1>2. /\ n \in Nat /\ n >= 1
      /\ DOMAIN certs = 1..n
      /\ \A i \in 1..n : certs[i] \in Materials
  BY <1>1, KeysAssumption
<1>3. DOMAIN IndexKid = 1..Len(IndexKid) /\ \A i \in 1..Len(IndexKid) : IndexKid[i] \in Kids
  BY KeysAssumption
<1>4. 1 \in 1..n /\ 1..n \subseteq 1..Len(IndexKid)
  BY <1>1, <1>2, KeysAssumption
<1>5. CASE chained
  <2>1. LegacyKeys(certs, chained) = {[kid |-> IndexKid[i], mat |-> certs[i]] : i \in 1..n}
    BY <1>5, <1>2 DEF LegacyKeys
  <2>2. \A i \in 1..n : [kid |-> IndexKid[i], mat |-> certs[i]] \in Keys
    BY <1>2, <1>3, <1>4 DEF Keys
  <2>3. \A i, j \in 1..n : IndexKid[i] = IndexKid[j] => i = j
    BY <1>3, <1>4, KeysAssumption
  <2>4. OneEntryPerKid(LegacyKeys(certs, chained))
    BY <2>1, <2>3 DEF OneEntryPerKid
  <2>5. QED
    BY <2>1, <2>2, <2>4, <1>4
<1>6. CASE ~chained
  <2>1. PICK mat : LegacyKeys(certs, chained) = {[kid |-> IndexKid[1], mat |-> mat]}
                   /\ mat = certs[Len(certs)]
    BY <1>6 DEF LegacyKeys
  <2>2. Len(certs) = n
    <3>1. certs \in Seq(Materials)
      BY <1>1, <1>2
    <3>2. QED
      BY <3>1, <1>2
  <2>3. mat \in Materials /\ IndexKid[1] \in Kids
    BY <2>1, <2>2, <1>2, <1>3, <1>4
  <2>4. QED
    BY <2>1, <2>3 DEF Keys, OneEntryPerKid
<1>7. QED
  BY <1>5, <1>6

-----------------------------------------------------------------------------
(* Every step keeps what is published and what is about to be published    *)
(* well formed.                                                            *)
LEMMA TypeStep ==
    ASSUME TypeOK, [Next]_vars
    PROVE  TypeOK'
<1>0. qualifier' \in Qualifiers /\ Supplied \subseteq Kids \cup {NoKid}
  BY QualifierStays, SuppliedAreKids DEF TypeOK
<1>1. CASE UNCHANGED vars
  BY <1>1 DEF TypeOK, vars
<1>2. CASE Next
  <2>1. PICK h \in Handlers :
            \/ \E op \in Operations : \E desired :
                   Picks(h, op, desired) /\ Justified(op, desired)
            \/ Outcome(h)
    BY <1>2, StepShape
  <2>2. CASE \E op \in Operations : \E desired :
                 Picks(h, op, desired) /\ Justified(op, desired)
    <3>0. PICK op \in Operations :
                 \E desired : Picks(h, op, desired) /\ Justified(op, desired)
      BY <2>2
    <3>1. PICK desired : Picks(h, op, desired) /\ Justified(op, desired)
      BY <3>0
    <3>2. desired \in SUBSET Keys
      <4>1. keySet \in SUBSET Keys
        BY DEF TypeOK
      <4>2. ASSUME NEW mat \in Materials, NEW supplied \in Supplied,
                   \/ desired \in AddKey(keySet, mat, supplied)
                   \/ desired \in RotateKey(keySet, mat, supplied)
            PROVE  desired \in SUBSET Keys
        <5>1. PICK target : target \in Kids
          BY KeysAssumption
        <5>2. QED
          BY <1>0, <4>1, <4>2, <5>1, AnswersTyped
      <4>3. ASSUME NEW mat \in Materials, NEW supplied \in Supplied,
                   NEW target \in Kids,
                   desired \in ReplaceKey(keySet, target, mat, supplied)
            PROVE  desired \in SUBSET Keys
        BY <1>0, <4>1, <4>3, AnswersTyped
      <4>4. ASSUME NEW target \in Kids, desired \in DeleteKey(keySet, target)
            PROVE  desired \in SUBSET Keys
        BY <4>1, <4>4 DEF DeleteKey, Without
      <4>5. QED
        BY <3>1, <4>2, <4>3, <4>4, LegacyAnswers DEF Justified
    <3>3. QED
      BY <1>0, <3>1, <3>2 DEF TypeOK, Picks, Publishing
  <2>3. CASE Outcome(h)
    BY <1>0, <2>3 DEF TypeOK, Outcome, Publish, PublishFails, Idle
  <2>4. QED
    BY <2>1, <2>2, <2>3
<1>3. QED
  BY <1>1, <1>2

(* Initially at most one key is published.                                 *)
LEMMA InitialKeys ==
    ASSUME Init
    PROVE  /\ keySet \in SUBSET Keys
           /\ \A k1, k2 \in keySet : k1 = k2
           /\ \A h \in Handlers : handler[h] = Idle
<1>1. CASE keySet = {}
  BY <1>1 DEF Init
<1>2. CASE keySet # {}
  <2>1. PICK mat \in Materials : keySet = LegacyKeys(<<mat>>, FALSE)
    BY <1>2 DEF Init
  <2>2. keySet = {[kid |-> IndexKid[1], mat |-> mat]}
    BY <2>1 DEF LegacyKeys
  <2>3. IndexKid[1] \in Kids
    BY KeysAssumption
  <2>4. keySet \in SUBSET Keys
    BY <2>2, <2>3 DEF Keys
  <2>5. QED
    BY <2>2, <2>4 DEF Init
<1>3. QED
  BY <1>1, <1>2

(* Type correctness: what is published, and what any handler is about to   *)
(* publish, is always a set of keys of the profile.                        *)
THEOREM TypeCorrect == Spec => []TypeOK
<1>1. Init => TypeOK
  <2>1. SUFFICES ASSUME Init PROVE TypeOK
    OBVIOUS
  <2>2. handler = [h \in Handlers |-> Idle]
    BY <2>1 DEF Init
  <2>3. handler \in [Handlers -> [op : Operations \cup {"none"}, desired : SUBSET Keys]]
    BY <2>2 DEF Idle
  <2>4. QED
    BY <2>1, <2>3, InitialKeys DEF TypeOK, Init
<1>2. TypeOK /\ [Next]_vars => TypeOK'
  BY TypeStep
<1>3. QED
  BY <1>1, <1>2, PTL DEF Spec

-----------------------------------------------------------------------------
(* Uniqueness of the public keys: a new desired key set starts from what is *)
(* published and looks for the incoming public key in all of it, so it does *)
(* not matter what is published between the read and the publish.           *)
LEMMA SignerStep ==
    ASSUME TypeOK, SignerIsUnambiguous, [Next]_vars
    PROVE  SignerIsUnambiguous'
<1>0. qualifier' = qualifier
  BY QualifierStays
<1>1. SUFFICES ASSUME qualifier.profile = "runtime-group"
               PROVE  /\ OneEntryPerMaterial(keySet')
                      /\ \A g \in Handlers : OneEntryPerMaterial(handler'[g].desired)
  BY <1>0 DEF SignerIsUnambiguous
<1>2. /\ OneEntryPerMaterial(keySet)
      /\ \A g \in Handlers : OneEntryPerMaterial(handler[g].desired)
  BY <1>1 DEF SignerIsUnambiguous
<1>3. keySet \in SUBSET Keys
  BY DEF TypeOK
<1>4. OneEntryPerMaterial({})
  BY DEF OneEntryPerMaterial
<1>8. Supplied \subseteq Kids \cup {NoKid}
  BY SuppliedAreKids DEF TypeOK
<1>5. CASE UNCHANGED vars
  BY <1>2, <1>5 DEF vars
<1>6. CASE Next
  <2>1. PICK h \in Handlers :
            \/ \E op \in Operations : \E desired :
                   Picks(h, op, desired) /\ Justified(op, desired)
            \/ Outcome(h)
    BY <1>6, StepShape
  <2>2. CASE \E op \in Operations : \E desired :
                 Picks(h, op, desired) /\ Justified(op, desired)
    <3>0. PICK op \in Operations :
                 \E desired : Picks(h, op, desired) /\ Justified(op, desired)
      BY <2>2
    <3>1. PICK desired : Picks(h, op, desired) /\ Justified(op, desired)
      BY <3>0
    <3>2. OneEntryPerMaterial(desired)
      <4>1. ASSUME NEW mat \in Materials, NEW supplied \in Supplied,
                   \/ desired \in AddKey(keySet, mat, supplied)
                   \/ desired \in RotateKey(keySet, mat, supplied)
            PROVE  OneEntryPerMaterial(desired)
        <5>1. PICK target : target \in Kids
          BY KeysAssumption
        <5>2. QED
          BY <1>2, <1>3, <1>8, <4>1, <5>1, AnswersKeepMaterialsOnce
      <4>2. ASSUME NEW mat \in Materials, NEW supplied \in Supplied,
                   NEW target \in Kids,
                   desired \in ReplaceKey(keySet, target, mat, supplied)
            PROVE  OneEntryPerMaterial(desired)
        BY <1>2, <1>3, <1>8, <4>2, AnswersKeepMaterialsOnce
      <4>3. ASSUME NEW target \in Kids, desired \in DeleteKey(keySet, target)
            PROVE  OneEntryPerMaterial(desired)
        BY <1>2, <4>3 DEF DeleteKey, Without, OneEntryPerMaterial
      <4>5. QED
        BY <1>1, <1>4, <3>1, <4>1, <4>2, <4>3 DEF Justified
    <3>3. QED
      BY <1>2, <3>1, <3>2 DEF TypeOK, Picks, Publishing
  <2>3. CASE Outcome(h)
    <3>1. \A g \in Handlers : handler'[g] \in {handler[g], Idle}
      BY <2>3 DEF TypeOK, Outcome, Publish, PublishFails
    <3>2. keySet' \in {keySet, handler[h].desired}
      BY <2>3 DEF Outcome, Publish, PublishFails
    <3>3. OneEntryPerMaterial(Idle.desired)
      BY <1>4 DEF Idle
    <3>4. QED
      BY <1>2, <3>1, <3>2, <3>3
  <2>4. QED
    BY <2>1, <2>2, <2>3
<1>7. QED
  BY <1>5, <1>6

(* No runtime group's public key is ever published under two kids, however *)
(* many handlers overlap.                                                  *)
THEOREM SignerUnambiguous == Spec => []SignerIsUnambiguous
<1>1. Init => SignerIsUnambiguous
  BY InitialKeys DEF SignerIsUnambiguous, OneEntryPerMaterial, Idle
<1>2. TypeOK /\ SignerIsUnambiguous /\ [Next]_vars => SignerIsUnambiguous'
  BY SignerStep
<1>3. QED
  BY <1>1, <1>2, TypeCorrect, PTL DEF Spec

-----------------------------------------------------------------------------
(* Uniqueness of the kids: a kid that the provisioner chooses is looked for *)
(* in the key set it is added to.                                          *)
LEMMA AnswersKeepKidsOnce ==
    ASSUME NEW existing \in SUBSET Keys, NEW mat \in Materials, NEW target \in Kids,
           OneEntryPerKid(existing)
    PROVE  /\ \A keys \in AddKey(existing, mat, NoKid) : OneEntryPerKid(keys)
           /\ \A keys \in RotateKey(existing, mat, NoKid) : OneEntryPerKid(keys)
           /\ \A keys \in ReplaceKey(existing, target, mat, NoKid) :
                  OneEntryPerKid(keys)
           /\ \A keys \in DeleteKey(existing, target) : OneEntryPerKid(keys)
<1>1. \A keys \in SUBSET existing : OneEntryPerKid(keys)
  BY DEF OneEntryPerKid
<1>2. Without(existing, target) \in SUBSET existing
  BY DEF Without
<1>3. ASSUME NEW keys \in SUBSET existing
      PROVE  \A new \in AddingNew(keys, mat, NoKid) : OneEntryPerKid(new)
  <2>1. SUFFICES ASSUME NEW kid \in NewKids(NoKid, keys),
                        NEW a \in keys \cup {[kid |-> kid, mat |-> mat]},
                        NEW b \in keys \cup {[kid |-> kid, mat |-> mat]},
                        a.kid = b.kid
                 PROVE  a = b
    BY DEF AddingNew, OneEntryPerKid
  <2>2. \A key \in keys : key.kid # kid
    BY <2>1 DEF NewKids, KidsOf
  <2>3. QED
    BY <1>1, <2>1, <2>2 DEF OneEntryPerKid
<1>4. \A keys \in AddKey(existing, mat, NoKid) : OneEntryPerKid(keys)
  BY <1>1, <1>3 DEF AddKey
<1>5. \A keys \in RotateKey(existing, mat, NoKid) : OneEntryPerKid(keys)
  BY <1>3 DEF RotateKey
<1>6. \A keys \in ReplaceKey(existing, target, mat, NoKid) : OneEntryPerKid(keys)
  <2>1. CASE {key \in existing : key.mat = mat} = {}
    <3>1. ReplaceKey(existing, target, mat, NoKid)
             \subseteq AddingNew(Without(existing, target), mat, NoKid)
      BY <2>1 DEF ReplaceKey
    <3>2. QED
      BY <3>1, <1>2, <1>3
  <2>2. CASE {key \in existing : key.mat = mat} # {}
    <3>1. ReplaceKey(existing, target, mat, NoKid) \subseteq SUBSET existing
      BY <2>2, <1>2 DEF ReplaceKey
    <3>2. QED
      BY <3>1, <1>1
  <2>3. QED
    BY <2>1, <2>2
<1>7. \A keys \in DeleteKey(existing, target) : OneEntryPerKid(keys)
  BY <1>1, <1>2 DEF DeleteKey
<1>8. QED
  BY <1>4, <1>5, <1>6, <1>7

(* A step publishes a set that was pending, or prepares an answer to the   *)
(* current one.                                                            *)
LEMMA KidsStep ==
    ASSUME TypeOK, KidsAreUnique, [Next]_vars
    PROVE  KidsAreUnique'
<1>1. qualifier' = qualifier
  BY QualifierStays
<1>2. SUFFICES ASSUME qualifier.supplied = {}
               PROVE  /\ OneEntryPerKid(keySet')
                      /\ \A g \in Handlers : OneEntryPerKid(handler'[g].desired)
  BY <1>1 DEF KidsAreUnique
<1>3. /\ OneEntryPerKid(keySet)
      /\ \A g \in Handlers : OneEntryPerKid(handler[g].desired)
  BY <1>2 DEF KidsAreUnique
<1>4. keySet \in SUBSET Keys
  BY DEF TypeOK
<1>5. OneEntryPerKid({})
  BY DEF OneEntryPerKid
<1>6. Supplied = {NoKid}
  BY <1>2 DEF Supplied
<1>7. CASE UNCHANGED vars
  BY <1>3, <1>7 DEF vars
<1>8. CASE Next
  <2>1. PICK h \in Handlers :
            \/ \E op \in Operations : \E desired :
                   Picks(h, op, desired) /\ Justified(op, desired)
            \/ Outcome(h)
    BY <1>8, StepShape
  <2>2. CASE \E op \in Operations : \E desired :
                 Picks(h, op, desired) /\ Justified(op, desired)
    <3>0. PICK op \in Operations :
                 \E desired : Picks(h, op, desired) /\ Justified(op, desired)
      BY <2>2
    <3>1. PICK desired : Picks(h, op, desired) /\ Justified(op, desired)
      BY <3>0
    <3>2. OneEntryPerKid(desired)
      <4>1. ASSUME NEW mat \in Materials,
                   \/ desired \in AddKey(keySet, mat, NoKid)
                   \/ desired \in RotateKey(keySet, mat, NoKid)
            PROVE  OneEntryPerKid(desired)
        <5>1. PICK target : target \in Kids
          BY KeysAssumption
        <5>2. QED
          BY <1>3, <1>4, <4>1, <5>1, AnswersKeepKidsOnce
      <4>2. ASSUME NEW mat \in Materials, NEW target \in Kids,
                   desired \in ReplaceKey(keySet, target, mat, NoKid)
            PROVE  OneEntryPerKid(desired)
        BY <1>3, <1>4, <4>2, AnswersKeepKidsOnce
      <4>3. ASSUME NEW target \in Kids, desired \in DeleteKey(keySet, target)
            PROVE  OneEntryPerKid(desired)
        BY <1>3, <4>3 DEF DeleteKey, Without, OneEntryPerKid
      <4>4. QED
        BY <1>5, <1>6, <3>1, <4>1, <4>2, <4>3, LegacyAnswers DEF Justified
    <3>3. QED
      BY <1>3, <3>1, <3>2 DEF TypeOK, Picks, Publishing
  <2>3. CASE Outcome(h)
    <3>1. \A g \in Handlers : handler'[g] \in {handler[g], Idle}
      BY <2>3 DEF TypeOK, Outcome, Publish, PublishFails
    <3>2. keySet' \in {keySet, handler[h].desired}
      BY <2>3 DEF Outcome, Publish, PublishFails
    <3>3. OneEntryPerKid(Idle.desired)
      BY <1>5 DEF Idle
    <3>4. QED
      BY <1>3, <3>1, <3>2, <3>3
  <2>4. QED
    BY <2>1, <2>2, <2>3
<1>9. QED
  BY <1>7, <1>8

(* While callers leave the choice of a kid to the provisioner, no key set   *)
(* that is published or about to be published names two keys alike.        *)
THEOREM KidsUnique == Spec => []KidsAreUnique
<1>1. Init => KidsAreUnique
  BY InitialKeys DEF KidsAreUnique, OneEntryPerKid, Idle
<1>2. TypeOK /\ KidsAreUnique /\ [Next]_vars => KidsAreUnique'
  BY KidsStep
<1>3. QED
  BY <1>1, <1>2, TypeCorrect, PTL DEF Spec

-----------------------------------------------------------------------------
(* Only a wipe has an empty answer: the strengthening of OnlyWipeEmpties.  *)
EmptyAnswerIsWipe ==
    \A h \in Handlers :
        handler[h].desired = {} => handler[h].op \in {"wipe", "none"}

(* Only a wipe answers a non-empty set with an empty one.                  *)
LEMMA EmptyAnswerStep ==
    ASSUME TypeOK, EmptyAnswerIsWipe, [Next]_vars
    PROVE  EmptyAnswerIsWipe'
<1>1. keySet \in SUBSET Keys /\ Supplied \subseteq Kids \cup {NoKid}
  BY SuppliedAreKids DEF TypeOK
<1>2. CASE UNCHANGED vars
  BY <1>2 DEF vars, EmptyAnswerIsWipe
<1>3. CASE Next
  <2>1. PICK h \in Handlers :
            \/ \E op \in Operations : \E desired :
                   Picks(h, op, desired) /\ Justified(op, desired)
            \/ Outcome(h)
    BY <1>3, StepShape
  <2>2. CASE \E op \in Operations : \E desired :
                 Picks(h, op, desired) /\ Justified(op, desired)
    <3>0. PICK op \in Operations :
                 \E desired : Picks(h, op, desired) /\ Justified(op, desired)
      BY <2>2
    <3>1. PICK desired : Picks(h, op, desired) /\ Justified(op, desired)
      BY <3>0
    <3>2. desired = {} => op = "wipe"
      <4>1. SUFFICES ASSUME desired = {} PROVE op = "wipe"
        OBVIOUS
      <4>2. ASSUME NEW mat \in Materials, NEW supplied \in Supplied
            PROVE  {} \notin AddKey(keySet, mat, supplied)
                   /\ {} \notin RotateKey(keySet, mat, supplied)
        <5>1. PICK target : target \in Kids
          BY KeysAssumption
        <5>2. QED
          BY <1>1, <5>1, AnswersNotEmpty
      <4>3. ASSUME NEW mat \in Materials, NEW supplied \in Supplied,
                   NEW target \in Kids
            PROVE  {} \notin ReplaceKey(keySet, target, mat, supplied)
        BY <1>1, AnswersNotEmpty
      <4>4. \A target \in Kids : {} \notin DeleteKey(keySet, target)
        BY DEF DeleteKey
      <4>5. QED
        BY <3>1, <4>1, <4>2, <4>3, <4>4, LegacyAnswers DEF Justified
    <3>3. QED
      BY <3>1, <3>2 DEF TypeOK, EmptyAnswerIsWipe, Picks, Publishing
  <2>3. CASE Outcome(h)
    BY <2>3 DEF TypeOK, EmptyAnswerIsWipe, Outcome, Publish, PublishFails, Idle
  <2>4. QED
    BY <2>1, <2>2, <2>3
<1>4. QED
  BY <1>2, <1>3

(* A key set that is not empty becomes empty only by a wipe of the whole   *)
(* qualifier, whatever deletes, replaces and publishes overlap.            *)
THEOREM NeverEmptiedByTargetedOperations == Spec => OnlyWipeEmpties
<1>1. Init => EmptyAnswerIsWipe
  BY InitialKeys DEF EmptyAnswerIsWipe, Idle
<1>2. TypeOK /\ EmptyAnswerIsWipe /\ [Next]_vars => EmptyAnswerIsWipe'
  BY EmptyAnswerStep
<1>3. TypeOK /\ EmptyAnswerIsWipe /\ [Next]_vars =>
          [keySet # {} /\ keySet' = {} =>
               \E h \in Handlers : handler[h].op = "wipe" /\ handler'[h] = Idle]_vars
  <2>1. SUFFICES ASSUME TypeOK, EmptyAnswerIsWipe, Next, keySet # {}, keySet' = {}
                 PROVE  \E h \in Handlers : handler[h].op = "wipe" /\ handler'[h] = Idle
    OBVIOUS
  <2>2. PICK h \in Handlers : Publish(h)
    <3>1. ASSUME NEW h \in Handlers, NEW op, NEW desired, Picks(h, op, desired)
          PROVE  FALSE
      BY <2>1, <3>1 DEF Picks
    <3>2. ASSUME NEW h \in Handlers, PublishFails(h) PROVE FALSE
      BY <2>1, <3>2 DEF PublishFails
    <3>3. QED
      BY <2>1, <3>1, <3>2, StepShape DEF Outcome
  <2>3. handler[h].desired = {} /\ handler'[h] = Idle
    BY <2>1, <2>2 DEF Publish, TypeOK
  <2>4. handler[h].op # "none" \/ handler[h] = Idle
    BY <2>1, <2>3 DEF TypeOK, Idle
  <2>5. QED
    BY <2>1, <2>2, <2>3, <2>4 DEF EmptyAnswerIsWipe, Publish
<1>4. QED
  BY <1>1, <1>2, <1>3, TypeCorrect, PTL DEF Spec, OnlyWipeEmpties
=============================================================================
