---------------------- MODULE IntegrationAccessProofs ----------------------
(***************************************************************************)
(* Proofs about IntegrationAccess, for any services, scopes, versions and  *)
(* events.  What is needed about who may act at one time is said in each   *)
(* theorem.                                                                *)
(***************************************************************************)
EXTENDS IntegrationAccess, FiniteSetTheorems, TLAPS

Records == [exists : BOOLEAN, approved : BOOLEAN, active : BOOLEAN,
            scopes : SUBSET Scopes, version : 0..MaxVersion]

(* What one request asks, by service.                                      *)
Requests == UNION {[some -> Asked] : some \in SUBSET Services}

Accepted == {a \in [pc : {"validated"}, asked : Requests] :
                Cardinality(DOMAIN a.asked) <= MaxAsked}

(* The changes of a request are for services it asked for, at most one each. *)
Writing == {w \in [pc : {"writing"}, asked : Requests, todo : Seq(Changes)] :
               /\ Len(w.todo) <= MaxAsked
               /\ \A i \in 1..Len(w.todo) : w.todo[i].service \in DOMAIN w.asked
               /\ \A i, j \in 1..Len(w.todo) :
                     w.todo[i].service = w.todo[j].service => i = j}

(* A connection that does not exist has no approval.                       *)
NothingLeft == \A s \in Services : record[s].exists \/ record[s] = NoRecord

Typed ==
    /\ catalog \in [Services -> [version : Versions, scopes : SUBSET Scopes]]
    /\ record \in [Services -> Records]
    /\ submission \in [Submitters -> {IdleSubmission} \cup Accepted \cup Writing]
    /\ handler \in [Handlers -> {IdleHandler} \cup Handlings]
    /\ view \in [Targets -> SUBSET Entries]
    /\ reviewed \subseteq Entries
    /\ NothingLeft

-----------------------------------------------------------------------------
(***************************************************************************)
(* The operators, one lemma for each.                                      *)
(***************************************************************************)

(* The elements of a finite set, each of them once.                        *)
LEMMA SetToSeqBijection ==
    ASSUME NEW S, IsFiniteSet(S)
    PROVE  /\ Cardinality(S) \in Nat
           /\ SetToSeq(S) \in [1..Cardinality(S) -> S]
           /\ \A i, j \in 1..Cardinality(S) : SetToSeq(S)[i] = SetToSeq(S)[j] => i = j
           /\ \A y \in S : \E i \in 1..Cardinality(S) : SetToSeq(S)[i] = y
<1> DEFINE n == Cardinality(S)
           f == SetToSeq(S)
<1>1. n \in Nat /\ ExistsBijection(1..n, S)
  BY FS_CardinalityType
<1>2. \E g \in [1..n -> S] : IsInjective(g)
  BY <1>1 DEF ExistsBijection, Bijection, Injection, IsInjective
<1>3. f \in [1..n -> S] /\ IsInjective(f)
  BY <1>2 DEF SetToSeq
<1>4. f \in Injection(1..n, S)
  BY <1>3 DEF Injection
<1>5. Cardinality(1..n) = n
  BY <1>1, FS_Interval
<1>6. f \in Surjection(1..n, S)
  BY <1>1, <1>4, <1>5, FS_Injection
<1>7. QED
  BY <1>1, <1>3, <1>6 DEF Surjection, IsInjective

(* What a request asks, service by service.                                *)
LEMMA RequestTyped ==
    ASSUME NEW asked
    PROVE  asked \in Requests <=>
               /\ DOMAIN asked \subseteq Services
               /\ asked \in [DOMAIN asked -> Asked]
<1>1. ASSUME asked \in Requests
      PROVE  DOMAIN asked \subseteq Services /\ asked \in [DOMAIN asked -> Asked]
  <2>1. PICK some \in SUBSET Services : asked \in [some -> Asked]
    BY <1>1 DEF Requests
  <2>2. DOMAIN asked = some
    BY <2>1
  <2>3. QED
    BY <2>1, <2>2
<1>2. ASSUME DOMAIN asked \subseteq Services, asked \in [DOMAIN asked -> Asked]
      PROVE  asked \in Requests
  <2>1. DOMAIN asked \in SUBSET Services
    BY <1>2
  <2>2. QED
    BY <1>2, <2>1 DEF Requests
<1>3. QED
  BY <1>1, <1>2

(* A field of a change leaves a Boolean value, the old one or a new one.    *)
LEMMA SetTyped ==
    ASSUME NEW old \in BOOLEAN, NEW new \in Field
    PROVE  /\ Set(old, new) \in BOOLEAN
           /\ new = Keep => Set(old, new) = old
           /\ new = {TRUE} => Set(old, new) = TRUE
           /\ new = {FALSE} => Set(old, new) = FALSE
<1>1. {TRUE} # Keep /\ {FALSE} # Keep /\ {TRUE} # {FALSE}
  <2>1. TRUE \in {TRUE} /\ FALSE \in {FALSE} /\ TRUE \notin {FALSE}
    OBVIOUS
  <2>2. QED
    BY <2>1 DEF Keep
<1>2. CASE new = Keep
  BY <1>1, <1>2 DEF Set
<1>3. CASE new = {TRUE}
  <2>1. Set(old, new) = TRUE
    <3>1. TRUE \in new
      BY <1>3
    <3>2. QED
      BY <1>1, <1>3, <3>1 DEF Set
  <2>2. QED
    BY <1>1, <1>3, <2>1
<1>4. CASE new = {FALSE}
  <2>1. Set(old, new) = FALSE
    <3>1. ~(TRUE \in new)
      BY <1>4
    <3>2. QED
      BY <1>1, <1>4, <3>1 DEF Set
  <2>2. QED
    BY <1>1, <1>4, <2>1
<1>5. QED
  BY <1>2, <1>3, <1>4 DEF Field

(* The four kinds of a change.                                             *)
LEMMA ChangeShape ==
    ASSUME NEW s \in Services, NEW r \in Records, NEW asked, ~Stands(r, asked)
    PROVE  /\ Change(s, r, asked) \in Changes
           /\ Change(s, r, asked).service = s
           /\ \/ ~r.exists /\ Change(s, r, asked).approved = Keep
              \/ r.exists /\ Change(s, r, asked).approved = {FALSE}
              \/ /\ ~Differs(r, asked) /\ r.exists /\ r.approved
                 /\ Change(s, r, asked).approved = {TRUE}
<1> DEFINE c == Change(s, r, asked)
<1>0. r.exists \in BOOLEAN /\ r.approved \in BOOLEAN /\ r.active \in BOOLEAN
  BY DEF Records
<1>b. \A b \in BOOLEAN : b = TRUE \/ b = FALSE
  OBVIOUS
<1>f. \A a, b \in Field, k \in BOOLEAN :
         [service |-> s, creates |-> k, approved |-> a, active |-> b] \in Changes
  BY DEF Changes
<1>g. Keep \in Field /\ {TRUE} \in Field /\ {FALSE} \in Field
      /\ {r.approved} \in Field /\ {r.active} \in Field
  BY <1>0 DEF Field
<1>1. CASE ~r.exists
  <2>1. c = [service |-> s, creates |-> TRUE, approved |-> Keep, active |-> Keep]
    BY <1>1 DEF Change, Differs, Reactivates
  <2>2. c.service = s /\ c.approved = Keep
    BY <2>1
  <2>3. c \in Changes
    BY <2>1, <1>f, <1>g
  <2>4. QED
    BY <1>1, <2>2, <2>3
<1>2. CASE r.exists /\ Differs(r, asked)
  <2>1. c = [service |-> s, creates |-> FALSE, approved |-> {FALSE}, active |-> {FALSE}]
    BY <1>2 DEF Change, Reactivates
  <2>2. c.service = s /\ c.approved = {FALSE}
    BY <2>1
  <2>3. c \in Changes
    BY <2>1, <1>f, <1>g
  <2>4. QED
    BY <1>2, <2>2, <2>3
<1>3. CASE r.exists /\ ~Differs(r, asked) /\ Reactivates(r, asked)
  <2>1. c = [service |-> s, creates |-> FALSE, approved |-> {TRUE}, active |-> {TRUE}]
    BY <1>3 DEF Change
  <2>2. c.service = s /\ c.approved = {TRUE}
    BY <2>1
  <2>3. c \in Changes
    BY <2>1, <1>f, <1>g
  <2>4. r.approved
    BY <1>3 DEF Reactivates
  <2>5. QED
    BY <1>3, <2>2, <2>3, <2>4
<1>4. CASE r.exists /\ ~Differs(r, asked) /\ ~Reactivates(r, asked)
  <2>1. c = [service |-> s, creates |-> FALSE,
             approved |-> {r.approved}, active |-> {r.active}]
    BY <1>4 DEF Change
  <2>2. c.service = s /\ c.approved = {r.approved}
    BY <2>1
  <2>3. c \in Changes
    BY <2>1, <1>f, <1>g
  <2>4. CASE r.approved = TRUE
    BY <1>4, <2>2, <2>3, <2>4
  <2>5. CASE r.approved = FALSE
    BY <1>4, <2>2, <2>3, <2>5
  <2>6. QED
    BY <1>0, <1>b, <2>4, <2>5
<1>5. QED
  BY <1>1, <1>2, <1>3, <1>4

(* The changes planned on one listing: one for each connection that does    *)
(* not stand as it was asked.                                              *)
LEMMA PlannedShape ==
    ASSUME record \in [Services -> Records], NEW asked \in Requests
    PROVE  /\ Planned(asked) \in Seq(Changes)
           /\ \A i \in 1..Len(Planned(asked)) :
                 LET s == Planned(asked)[i].service IN
                 /\ s \in DOMAIN asked /\ ~Stands(record[s], asked[s])
                 /\ Planned(asked)[i] = Change(s, record[s], asked[s])
           /\ \A i, j \in 1..Len(Planned(asked)) :
                 Planned(asked)[i].service = Planned(asked)[j].service => i = j
           /\ \A s \in DOMAIN asked : ~Stands(record[s], asked[s]) =>
                 \E i \in 1..Len(Planned(asked)) : Planned(asked)[i].service = s
           /\ Len(Planned(asked)) <= Cardinality(DOMAIN asked)
<1> DEFINE D == {s \in DOMAIN asked : ~Stands(record[s], asked[s])}
           n == Cardinality(D)
           o == SetToSeq(D)
           p == Planned(asked)
<1>1. DOMAIN asked \subseteq Services
  BY RequestTyped
<1>2. IsFiniteSet(DOMAIN asked) /\ IsFiniteSet(D) /\ n <= Cardinality(DOMAIN asked)
  BY <1>1, AccessAssumption, FS_Subset
<1>3. /\ n \in Nat
      /\ o \in [1..n -> D]
      /\ \A i, j \in 1..n : o[i] = o[j] => i = j
      /\ \A s \in D : \E i \in 1..n : o[i] = s
  BY <1>2, SetToSeqBijection
<1>4. p = [i \in 1..n |-> Change(o[i], record[o[i]], asked[o[i]])]
  BY <1>3 DEF Planned
<1>5. \A i \in 1..n : /\ o[i] \in D /\ o[i] \in Services
                      /\ p[i] = Change(o[i], record[o[i]], asked[o[i]])
                      /\ p[i] \in Changes /\ p[i].service = o[i]
  <2> TAKE i \in 1..n
  <2>1. o[i] \in D /\ o[i] \in Services /\ record[o[i]] \in Records
    BY <1>1, <1>3
  <2>2. ~Stands(record[o[i]], asked[o[i]])
    BY <2>1
  <2>3. p[i] = Change(o[i], record[o[i]], asked[o[i]])
    BY <1>4
  <2>4. /\ Change(o[i], record[o[i]], asked[o[i]]) \in Changes
        /\ Change(o[i], record[o[i]], asked[o[i]]).service = o[i]
    <3> HIDE DEF o, p, n, D
    <3>1. QED
      BY <2>1, <2>2, ChangeShape
  <2>5. QED
    BY <2>1, <2>3, <2>4
<1> HIDE DEF o, p, n, D
<1>6. p \in [1..n -> Changes]
  BY <1>4, <1>5
<1>7. p \in Seq(Changes) /\ Len(p) = n
  BY <1>3, <1>6
<1>8. \A i \in 1..n : LET s == p[i].service IN
          /\ s \in DOMAIN asked /\ ~Stands(record[s], asked[s])
          /\ p[i] = Change(s, record[s], asked[s])
  BY <1>5 DEF D
<1>9. \A i, j \in 1..n : p[i].service = p[j].service => i = j
  BY <1>3, <1>5
<1>10. \A s \in DOMAIN asked : ~Stands(record[s], asked[s]) =>
           \E i \in 1..n : p[i].service = s
  BY <1>3, <1>5 DEF D
<1>11. QED
  BY <1>2, <1>7, <1>8, <1>9, <1>10 DEF p

(* A request asks for scopes and a version that the catalog has.            *)
LEMMA ValidatedTyped ==
    ASSUME catalog \in [Services -> [version : Versions, scopes : SUBSET Scopes]],
           NEW s \in Services
    PROVE  Validated(s) \subseteq Asked
BY DEF Validated, Asked

(* A written connection has the details that were asked.                    *)
LEMMA UpsertedTyped ==
    ASSUME NEW r \in Records, NEW change \in Changes, NEW asked \in Asked
    PROVE  /\ Upserted(r, change, asked) \in Records
           /\ Upserted(r, change, asked).exists = TRUE
           /\ Upserted(r, change, asked).approved = Set(r.approved, change.approved)
           /\ Upserted(r, change, asked).scopes = asked.scopes
           /\ Upserted(r, change, asked).version = asked.version
<1>1. Set(r.approved, change.approved) \in BOOLEAN
  BY SetTyped DEF Records, Changes
<1>2. Set(r.active, change.active) \in BOOLEAN
  BY SetTyped DEF Records, Changes
<1>3. asked.scopes \in SUBSET Scopes /\ asked.version \in 0..MaxVersion
  BY AccessAssumption DEF Asked, Versions
<1>4. QED
  BY <1>1, <1>2, <1>3 DEF Upserted, Records

(* A posted event is a new one, with nothing granted yet.                   *)
LEMMA PostTyped ==
    ASSUME handler \in [Handlers -> {IdleHandler} \cup Handlings],
           NEW s \in Services, NEW new \in Records, Post(s, new)
    PROVE  /\ handler' \in [Handlers -> {IdleHandler} \cup Handlings]
           /\ \A e \in Handlers :
                 \/ handler'[e] = handler[e]
                 \/ /\ handler[e] = IdleHandler /\ handler'[e] \in Handlings
                    /\ handler'[e].pc = "posted" /\ handler'[e].grant = {}
<1> DEFINE event == [pc |-> "posted", service |-> s, approved |-> new.approved,
                     gone |-> FALSE, grant |-> {},
                     action |-> IF new.active THEN "apply" ELSE "delete"]
<1>1. PICK e \in Handlers : /\ handler[e] = IdleHandler
                            /\ handler' = [handler EXCEPT ![e] = event]
  BY DEF Post
<1>2. event \in Handlings /\ event.pc = "posted" /\ event.grant = {}
  BY DEF Handlings, Records
<1> HIDE DEF event
<1>3. QED
  BY <1>1, <1>2

(* What a connection asks for, with or without a version.                   *)
LEMMA EntryTyped ==
    ASSUME NEW s \in Services, NEW r \in Records
    PROVE  /\ Entry(s, r) \in Entries
           /\ Entry(s, r).service = s /\ Entry(s, r).scopes = r.scopes
           /\ Entry(s, r).version = r.version
BY DEF Entry, Entries, Records

(* A version is added where there is none.                                  *)
LEMMA PinnedTyped ==
    ASSUME catalog \in [Services -> [version : Versions, scopes : SUBSET Scopes]],
           NEW x \in Entries
    PROVE  /\ Pinned(x) \in Entries
           /\ Pinned(x).service = x.service /\ Pinned(x).scopes = x.scopes
           /\ x.version # Unversioned => Pinned(x) = x
<1>1. x.service \in Services /\ x.scopes \in SUBSET Scopes /\ x.version \in 0..MaxVersion
  BY DEF Entries
<1>2. catalog[x.service].version \in 0..MaxVersion
  BY <1>1, AccessAssumption DEF Versions
<1>3. x = [service |-> x.service, scopes |-> x.scopes, version |-> x.version]
  BY DEF Entries
<1>4. Pinned(x) = [service |-> x.service, scopes |-> x.scopes,
                   version |-> IF x.version = Unversioned
                               THEN catalog[x.service].version ELSE x.version]
  BY <1>3 DEF Pinned
<1>5. QED
  BY <1>1, <1>2, <1>3, <1>4 DEF Entries

(* What the approved connections ask for.                                   *)
LEMMA GrantedTyped ==
    ASSUME record \in [Services -> Records]
    PROVE  Granted \subseteq Entries
BY EntryTyped DEF Granted

-----------------------------------------------------------------------------
(***************************************************************************)
(* Types: one lemma for each group of actions, for a request, the          *)
(* organizations and the handling of an event.                             *)
(***************************************************************************)

(* A request is "validated" or "writing" when it is not idle.               *)
LEMMA SubmissionShape ==
    ASSUME Typed, NEW h \in Submitters
    PROVE  /\ submission[h].pc = "validated" => submission[h] \in Accepted
           /\ submission[h].pc = "writing" => submission[h] \in Writing
           /\ submission[h].pc \in {"validated", "writing"} => submission[h] # IdleSubmission
<1>1. submission[h] \in {IdleSubmission} \cup Accepted \cup Writing
  BY DEF Typed
<1>2. IdleSubmission.pc = "idle"
  BY DEF IdleSubmission
<1>3. QED
  BY <1>1, <1>2 DEF Accepted, Writing

(* The next change of a request is for a service that it asked for, and the  *)
(* later ones are for others.                                              *)
LEMMA HeadTyped ==
    ASSUME NEW w \in Writing, w.todo # <<>>
    PROVE  /\ Head(w.todo) \in Changes /\ Head(w.todo) = w.todo[1] /\ 1 \in 1..Len(w.todo)
           /\ Tail(w.todo) \in Seq(Changes) /\ Len(Tail(w.todo)) = Len(w.todo) - 1
           /\ Len(w.todo) \in Nat /\ Len(Tail(w.todo)) \in Nat
           /\ \A i \in 1..Len(Tail(w.todo)) :
                 Tail(w.todo)[i] = w.todo[i + 1] /\ i + 1 \in 2..Len(w.todo)
           /\ Head(w.todo).service \in DOMAIN w.asked
           /\ w.asked \in Requests /\ DOMAIN w.asked \subseteq Services
           /\ w.asked[Head(w.todo).service] \in Asked
           /\ \A i \in 1..Len(Tail(w.todo)) : Tail(w.todo)[i].service # Head(w.todo).service
           /\ [w EXCEPT !.todo = Tail(@)] \in Writing
<1> DEFINE p == w.todo
           new == [w EXCEPT !.todo = Tail(@)]
<1>1. w.pc = "writing" /\ w.asked \in Requests /\ p \in Seq(Changes) /\ p # <<>>
  BY DEF Writing
<1>2. /\ Len(p) <= MaxAsked
      /\ \A i \in 1..Len(p) : p[i].service \in DOMAIN w.asked
      /\ \A i, j \in 1..Len(p) : p[i].service = p[j].service => i = j
  BY DEF Writing
<1>3. DOMAIN w.asked \subseteq Services /\ w.asked \in [DOMAIN w.asked -> Asked]
  BY <1>1, RequestTyped
<1>4. /\ Head(p) \in Changes /\ Head(p) = p[1] /\ 1 \in 1..Len(p)
      /\ Tail(p) \in Seq(Changes) /\ Len(Tail(p)) = Len(p) - 1
      /\ Len(p) \in Nat /\ Len(Tail(p)) \in Nat
      /\ \A i \in 1..Len(Tail(p)) : Tail(p)[i] = p[i + 1] /\ i + 1 \in 2..Len(p)
  <2> HIDE DEF p
  <2>1. QED
    BY <1>1
<1>5. new = [pc |-> "writing", asked |-> w.asked, todo |-> Tail(p)]
  BY <1>1 DEF Writing
<1> HIDE DEF p, new
<1>6. Head(p).service \in DOMAIN w.asked /\ w.asked[Head(p).service] \in Asked
  BY <1>2, <1>3, <1>4
<1>7. \A i \in 1..Len(Tail(p)) : Tail(p)[i].service # Head(p).service
  <2> TAKE i \in 1..Len(Tail(p))
  <2>1. Tail(p)[i] = p[i + 1] /\ i + 1 \in 1..Len(p) /\ i + 1 # 1
    BY <1>4
  <2>2. QED
    BY <1>2, <1>4, <2>1
<1>8. \A i, j \in 1..Len(Tail(p)) : Tail(p)[i].service = Tail(p)[j].service => i = j
  <2> TAKE i, j \in 1..Len(Tail(p))
  <2>1. /\ Tail(p)[i] = p[i + 1] /\ i + 1 \in 1..Len(p)
        /\ Tail(p)[j] = p[j + 1] /\ j + 1 \in 1..Len(p)
    BY <1>4
  <2>2. p[i + 1].service = p[j + 1].service => i + 1 = j + 1
    BY <1>2, <2>1
  <2>3. QED
    BY <2>1, <2>2
<1>9. \A i \in 1..Len(Tail(p)) : Tail(p)[i].service \in DOMAIN w.asked
  BY <1>2, <1>4
<1>10. Len(Tail(p)) <= MaxAsked
  BY <1>2, <1>4, AccessAssumption
<1>11. new \in Writing
  BY <1>1, <1>4, <1>5, <1>8, <1>9, <1>10 DEF Writing
<1>12. QED
  BY <1>1, <1>3, <1>4, <1>6, <1>7, <1>11 DEF p, new

(* An event that is handled has one of the five stages.                     *)
LEMMA HandlerShape ==
    ASSUME Typed, NEW e \in Handlers
    PROVE  /\ handler[e].pc # "idle" => handler[e] \in Handlings
           /\ handler[e] \in Handlings => handler[e] # IdleHandler
<1>1. handler[e] \in {IdleHandler} \cup Handlings
  BY DEF Typed
<1>2. IdleHandler.pc = "idle"
  BY DEF IdleHandler
<1>3. QED
  BY <1>1, <1>2 DEF Handlings

(* The steps of an access request keep types.                              *)
LEMMA RequestKeepsTyped ==
    ASSUME Typed, NEW h \in Submitters, AccessRequest(h)
    PROVE  Typed'
<1> USE DEF Typed
<1>1. CASE Validate(h)
  <2>1. PICK some \in SUBSET Services :
            /\ Cardinality(some) \in 1..MaxAsked
            /\ \E asked \in [some -> UNION {Validated(s) : s \in some}] :
                  /\ \A s \in some : asked[s] \in Validated(s)
                  /\ submission' = [submission EXCEPT ![h] =
                                        [pc |-> "validated", asked |-> asked]]
    BY <1>1 DEF Validate
  <2>2. PICK asked \in [some -> UNION {Validated(s) : s \in some}] :
            /\ \A s \in some : asked[s] \in Validated(s)
            /\ submission' = [submission EXCEPT ![h] = [pc |-> "validated", asked |-> asked]]
    BY <2>1
  <2>3. \A s \in some : asked[s] \in Asked
    BY <2>2, ValidatedTyped
  <2>4. DOMAIN asked = some /\ asked \in [DOMAIN asked -> Asked]
    BY <2>2, <2>3
  <2>5. asked \in Requests
    BY <2>4, RequestTyped
  <2>6. Cardinality(DOMAIN asked) <= MaxAsked
    BY <2>1, <2>4, AccessAssumption
  <2>7. [pc |-> "validated", asked |-> asked] \in Accepted
    BY <2>5, <2>6 DEF Accepted
  <2>8. submission' \in [Submitters -> {IdleSubmission} \cup Accepted \cup Writing]
    BY <2>2, <2>7
  <2>9. QED
    BY <1>1, <2>8 DEF Validate, NothingLeft
<1>2. CASE Plan(h)
  <2> DEFINE asked == submission[h].asked
             p == Planned(asked)
             w == [pc |-> "writing", asked |-> asked, todo |-> p]
  <2>1. asked \in Requests /\ Cardinality(DOMAIN asked) <= MaxAsked
    BY <1>2, SubmissionShape DEF Plan, Accepted
  <2>2. /\ p \in Seq(Changes)
        /\ \A i \in 1..Len(p) : p[i].service \in DOMAIN asked
        /\ \A i, j \in 1..Len(p) : p[i].service = p[j].service => i = j
        /\ Len(p) <= Cardinality(DOMAIN asked)
    BY <2>1, PlannedShape
  <2>3. Cardinality(DOMAIN asked) \in Nat
    <3>1. IsFiniteSet(DOMAIN asked)
      BY <2>1, RequestTyped, AccessAssumption, FS_Subset
    <3>2. QED
      BY <3>1, FS_CardinalityType
  <2>4. submission' = [submission EXCEPT ![h] = w]
    BY <1>2 DEF Plan
  <2> HIDE DEF p, asked
  <2>5. Len(p) <= MaxAsked
    BY <2>1, <2>2, <2>3, AccessAssumption
  <2>6. w \in Writing
    BY <2>1, <2>2, <2>5 DEF Writing
  <2> HIDE DEF w
  <2>7. submission' \in [Submitters -> {IdleSubmission} \cup Accepted \cup Writing]
    BY <2>4, <2>6
  <2>8. QED
    BY <1>2, <2>7 DEF Plan, NothingLeft
<1>3. CASE Write(h)
  <2> DEFINE change == Head(submission[h].todo)
             s == change.service
             asked == submission[h].asked[s]
             new == Upserted(record[s], change, asked)
             w == [submission[h] EXCEPT !.todo = Tail(@)]
  <2>1. submission[h] \in Writing /\ submission[h].todo # <<>>
    BY <1>3, SubmissionShape DEF Write
  <2>2. change \in Changes /\ s \in Services /\ asked \in Asked /\ w \in Writing
    BY <2>1, HeadTyped
  <2>3. /\ record' = [record EXCEPT ![s] = new] /\ Post(s, new)
        /\ submission' = [submission EXCEPT ![h] = w]
        /\ UNCHANGED <<catalog, view, reviewed>>
    BY <1>3 DEF Write
  <2> HIDE DEF change, s, asked, w
  <2>4. new \in Records /\ new.exists
    BY <2>2, UpsertedTyped
  <2> HIDE DEF new
  <2>5. handler' \in [Handlers -> {IdleHandler} \cup Handlings]
    BY <2>2, <2>3, <2>4, PostTyped
  <2>6. submission' \in [Submitters -> {IdleSubmission} \cup Accepted \cup Writing]
    BY <2>2, <2>3
  <2>7. record' \in [Services -> Records] /\ NothingLeft'
    BY <2>2, <2>3, <2>4 DEF NothingLeft
  <2>8. QED
    BY <2>3, <2>5, <2>6, <2>7
<1>4. CASE WriteFails(h) \/ Answer(h)
  <2>1. submission' \in [Submitters -> {IdleSubmission} \cup Accepted \cup Writing]
    BY <1>4 DEF WriteFails, Answer
  <2>2. QED
    BY <1>4, <2>1 DEF WriteFails, Answer, NothingLeft
<1>5. QED
  BY <1>1, <1>2, <1>3, <1>4 DEF AccessRequest

(* The organizations' own changes keep types.                              *)
LEMMA OrganizationsKeepTyped ==
    ASSUME Typed, NEW s \in Services, Organizations(s)
    PROVE  Typed'
<1> USE DEF Typed
<1>1. CASE Decide(s)
  <2>1. PICK approve \in BOOLEAN, active \in Field :
            LET new == [record[s] EXCEPT !.approved = approve, !.active = Set(@, active)] IN
            /\ record' = [record EXCEPT ![s] = new]
            /\ Post(s, new)
            /\ reviewed' = IF approve /\ ~record[s].approved
                           THEN reviewed \cup {Entry(s, new)} ELSE reviewed
    BY <1>1 DEF Decide
  <2> DEFINE new == [record[s] EXCEPT !.approved = approve, !.active = Set(@, active)]
  <2>2. new \in Records /\ new.exists
    <3>1. record[s] \in Records /\ record[s].active \in BOOLEAN /\ record[s].exists
      BY <1>1 DEF Decide, Records
    <3>2. Set(record[s].active, active) \in BOOLEAN
      BY <3>1, SetTyped
    <3>3. QED
      BY <3>1, <3>2 DEF Records
  <2> HIDE DEF new
  <2>3. handler' \in [Handlers -> {IdleHandler} \cup Handlings]
    BY <2>1, <2>2, PostTyped DEF new
  <2>4. record' \in [Services -> Records] /\ NothingLeft'
    BY <2>1, <2>2 DEF NothingLeft, new
  <2>5. reviewed' \subseteq Entries
    <3>1. Entry(s, new) \in Entries
      BY <2>2, EntryTyped
    <3>2. QED
      BY <2>1, <3>1 DEF new
  <2>6. QED
    BY <1>1, <2>3, <2>4, <2>5 DEF Decide
<1>2. CASE SetActive(s)
  <2> DEFINE new == [record[s] EXCEPT !.active = ~@]
  <2>1. new \in Records /\ new.exists
    <3>1. record[s] \in Records /\ record[s].exists
      BY <1>2 DEF SetActive
    <3>2. QED
      BY <3>1 DEF Records
  <2>2. record' = [record EXCEPT ![s] = new] /\ Post(s, new)
    BY <1>2 DEF SetActive
  <2> HIDE DEF new
  <2>3. handler' \in [Handlers -> {IdleHandler} \cup Handlings]
    BY <2>1, <2>2, PostTyped
  <2>4. record' \in [Services -> Records] /\ NothingLeft'
    BY <2>1, <2>2 DEF NothingLeft
  <2>5. QED
    BY <1>2, <2>3, <2>4 DEF SetActive
<1>3. CASE DeleteConnection(s)
  <2>1. NoRecord \in Records
    BY AccessAssumption DEF NoRecord, Records, Unversioned
  <2>2. record' \in [Services -> Records] /\ NothingLeft'
    BY <1>3, <2>1 DEF DeleteConnection, NothingLeft
  <2>3. \A e \in Handlers : handler'[e] \in {IdleHandler} \cup Handlings
    <3> TAKE e \in Handlers
    <3>1. CASE handler[e] \in Handlings
      <4>1. [handler[e] EXCEPT !.gone = TRUE] \in Handlings
        BY <3>1 DEF Handlings
      <4>2. QED
        BY <1>3, <3>1, <4>1 DEF DeleteConnection
    <3>2. CASE handler[e] = IdleHandler
      BY <1>3, <3>2 DEF DeleteConnection
    <3>3. QED
      BY <3>1, <3>2
  <2>4. handler' \in [Handlers -> {IdleHandler} \cup Handlings]
    BY <1>3, <2>3 DEF DeleteConnection
  <2>5. QED
    BY <1>3, <2>2, <2>4 DEF DeleteConnection
<1>4. CASE PublishSpecification(s)
  <2>1. PICK declared \in SUBSET Scopes :
            catalog' = [catalog EXCEPT ![s] = [version |-> @.version + 1, scopes |-> declared]]
    BY <1>4 DEF PublishSpecification
  <2>2. catalog[s].version + 1 \in Versions
    BY <1>4, AccessAssumption DEF PublishSpecification, Versions
  <2>3. catalog' \in [Services -> [version : Versions, scopes : SUBSET Scopes]]
    BY <2>1, <2>2
  <2>4. QED
    BY <1>4, <2>3 DEF PublishSpecification, NothingLeft
<1>5. QED
  BY <1>1, <1>2, <1>3, <1>4 DEF Organizations

(* What a target holds after a batch is what it held or the event's grant.  *)
LEMMA BatchTyped ==
    ASSUME Typed, NEW e \in Handlers, PublishToGateway(e) \/ CallBack(e)
    PROVE  /\ handler[e] \in Handlings
           /\ view' \in [Targets -> SUBSET Entries]
           /\ \A t \in Targets : view'[t] \in {view[t], handler[e].grant}
<1>1. PICK to : view' = [t \in Targets |-> IF t \in to THEN handler[e].grant ELSE view[t]]
  BY DEF PublishToGateway, CallBack
<1>2. handler[e] \in Handlings /\ handler[e].grant \in SUBSET Entries
  BY HandlerShape DEF PublishToGateway, CallBack, Handlings
<1>3. QED
  BY <1>1, <1>2 DEF Typed

(* The steps of the handler of an event keep types.                        *)
LEMMA HandlingKeepsTyped ==
    ASSUME Typed, NEW e \in Handlers, Handling(e)
    PROVE  Typed'
<1> USE DEF Typed
<1>1. handler[e] \in Handlings
  BY HandlerShape DEF Handling, Start, List, LookUp, HandlingFails,
                      PublishToGateway, CallBack
<1>2. SUFFICES ASSUME \/ handler' = [handler EXCEPT ![e] = IdleHandler]
                      \/ \E h \in Handlings : handler' = [handler EXCEPT ![e] = h],
                      view' \in [Targets -> SUBSET Entries],
                      UNCHANGED <<catalog, record, submission, reviewed>>
               PROVE  Typed'
  <2>1. CASE Start(e)
    <3>1. [handler[e] EXCEPT !.pc = "list"] \in Handlings
      BY <1>1 DEF Handlings
    <3>2. QED
      BY <2>1, <3>1, <1>2 DEF Start, End
  <2>2. CASE List(e)
    <3>1. [handler[e] EXCEPT !.pc = "lookup", !.grant = Granted] \in Handlings
      BY <1>1, GrantedTyped DEF Handlings
    <3>2. QED
      BY <2>2, <3>1, <1>2 DEF List, End
  <2>3. CASE LookUp(e)
    <3> DEFINE pinned == {Pinned(x) : x \in {y \in handler[e].grant : ~Malformed(y)}}
    <3>1. pinned \subseteq Entries
      <4>1. \A x \in handler[e].grant : x \in Entries
        BY <1>1 DEF Handlings
      <4>2. \A x \in handler[e].grant : Pinned(x) \in Entries
        BY <4>1, PinnedTyped
      <4>3. QED
        BY <4>2
    <3>2. [handler[e] EXCEPT !.pc = "gateway", !.grant = pinned] \in Handlings
      BY <1>1, <3>1 DEF Handlings
    <3>3. QED
      BY <2>3, <3>2, <1>2 DEF LookUp, End
  <2>4. CASE HandlingFails(e)
    BY <2>4, <1>2 DEF HandlingFails, End
  <2>5. CASE PublishToGateway(e)
    <3>1. [handler[e] EXCEPT !.pc = "partner"] \in Handlings
      BY <1>1 DEF Handlings
    <3>2. QED
      BY <2>5, <3>1, <1>2, BatchTyped DEF PublishToGateway
  <2>6. CASE CallBack(e)
    BY <2>6, <1>2, BatchTyped DEF CallBack, End
  <2>7. QED
    BY <2>1, <2>2, <2>3, <2>4, <2>5, <2>6 DEF Handling
<1>3. handler' \in [Handlers -> {IdleHandler} \cup Handlings]
  BY <1>2
<1>4. QED
  BY <1>2, <1>3 DEF NothingLeft

(* The initial states have their types.                                    *)
LEMMA InitTyped == Init => Typed
<1> SUFFICES ASSUME Init PROVE Typed
  OBVIOUS
<1>1. 1 \in Versions /\ Unversioned \in 0..MaxVersion
  BY AccessAssumption DEF Versions, Unversioned
<1>2. catalog \in [Services -> [version : Versions, scopes : SUBSET Scopes]]
  BY <1>1 DEF Init
<1>3. NoRecord \in Records
  BY <1>1 DEF NoRecord, Records
<1>4. [NoRecord EXCEPT !.exists = TRUE, !.approved = TRUE, !.scopes = Scopes]
          \in {r \in Records : r.exists}
  BY <1>1 DEF NoRecord, Records
<1>5. record \in [Services -> Records] /\ NothingLeft
  BY <1>3, <1>4 DEF Init, NothingLeft
<1>6. reviewed \subseteq Entries
  <2>1. \A s \in Legacy : s \in Services /\ record[s] \in Records
    BY <1>5, AccessAssumption
  <2>2. \A s \in Legacy : Entry(s, record[s]) \in Entries
    BY <2>1, EntryTyped
  <2>3. QED
    BY <2>2 DEF Init
<1>7. view \in [Targets -> SUBSET Entries]
  BY <1>2, <1>6, PinnedTyped DEF Init
<1>8. QED
  BY <1>2, <1>5, <1>6, <1>7 DEF Init, Typed

(* A step that changes nothing keeps types.                                *)
LEMMA StutterKeepsTyped == Typed /\ UNCHANGED vars => Typed'
BY DEF Typed, vars, NothingLeft

(* Every step keeps types.                                                 *)
LEMMA NextKeepsTyped == Typed /\ [Next]_vars => Typed'
BY StutterKeepsTyped, RequestKeepsTyped, OrganizationsKeepTyped, HandlingKeepsTyped DEF Next

(* The types hold in every state.                                          *)
LEMMA TypedInvariant == Spec => []Typed
BY InitTyped, NextKeepsTyped, PTL DEF Spec

(* They imply those that the runs check.                                   *)
LEMMA TypedImpliesTypeOK == Typed => TypeOK
<1> SUFFICES ASSUME Typed PROVE TypeOK
  OBVIOUS
<1>1. ASSUME NEW h \in Submitters
      PROVE  \/ submission[h] = IdleSubmission
             \/ /\ submission[h].pc \in {"validated", "writing"}
                /\ DOMAIN submission[h].asked \subseteq Services
                /\ \A s \in DOMAIN submission[h].asked : submission[h].asked[s] \in Asked
                /\ submission[h].pc = "writing" =>
                      \A i \in DOMAIN submission[h].todo : submission[h].todo[i] \in Changes
  <2>1. CASE submission[h] \in Accepted
    <3>1. submission[h].asked \in Requests /\ submission[h].pc = "validated"
      BY <2>1 DEF Accepted
    <3>2. QED
      BY <3>1, RequestTyped
  <2>2. CASE submission[h] \in Writing
    <3>1. /\ submission[h].asked \in Requests /\ submission[h].pc = "writing"
          /\ submission[h].todo \in Seq(Changes)
      BY <2>2 DEF Writing
    <3>2. QED
      BY <3>1, RequestTyped
  <2>3. QED
    BY <1>1, <2>1, <2>2 DEF Typed
<1>2. QED
  BY <1>1 DEF Typed, TypeOK, Records

(* Every connection, request, event and grant has its form, however the     *)
(* requests, the decisions and the handlers overlap.                       *)
THEOREM TypeCorrect == Spec => []TypeOK
BY TypedInvariant, TypedImpliesTypeOK, PTL

-----------------------------------------------------------------------------
(***************************************************************************)
(* What is approved, granted and answered, when requests do not overlap.    *)
(* Decisions of the organizations, failures and events do, unless callers   *)
(* wait.  A request carries what it read to its last write: what is still   *)
(* to be written must therefore keep the promise it was planned with.       *)
(***************************************************************************)

Serial == Patient \/ \A g, h \in Submitters : g = h

Alone == \A g, h \in Submitters :
    submission[g] # IdleSubmission /\ submission[h] # IdleSubmission => g = h

Reviewed(past, x) == \E old \in past : Covers(old, x)

(* What is still to be written creates a connection, or repeats an approval  *)
(* only of what was reviewed.                                              *)
Promised(w) == \A i \in 1..Len(w.todo) :
    LET s == w.todo[i].service IN
    /\ w.todo[i].approved = Keep => ~record[s].exists
    /\ w.todo[i].approved = {TRUE} => Reviewed(reviewed, Entry(s, w.asked[s]))

(* What is not still to be written is as it was asked.                      *)
Stored(w) == \A s \in DOMAIN w.asked :
    \/ ~record[s].exists
    \/ \E i \in 1..Len(w.todo) : w.todo[i].service = s
    \/ record[s].scopes = w.asked[s].scopes /\ record[s].version = w.asked[s].version

RequestsHold == \A h \in Submitters :
    submission[h].pc = "writing" => Promised(submission[h]) /\ Stored(submission[h])

EventsReviewed == \A e \in Handlers : handler[e] \in Handlings =>
    \A x \in handler[e].grant : Reviewed(reviewed, x)

Accounted ==
    /\ Typed
    /\ Alone
    /\ RequestsHold
    /\ ApprovalIsReviewed
    /\ EventsReviewed
    /\ GrantIsReviewed

(* A version that was reviewed, or any when none was, covers what is asked   *)
(* without a difference.                                                   *)
LEMMA CoversUnchanged ==
    ASSUME NEW past, NEW s, NEW r, NEW asked,
           Reviewed(past, Entry(s, r)), r.exists, ~Differs(r, asked)
    PROVE  Reviewed(past, Entry(s, asked))
<1>1. PICK old \in past : Covers(old, Entry(s, r))
  BY DEF Reviewed
<1>2. Covers(old, Entry(s, asked))
  BY <1>1 DEF Covers, Entry, Differs
<1>3. QED
  BY <1>2 DEF Reviewed

(* Pinning a version does not leave what was reviewed.                      *)
LEMMA CoversPinned ==
    ASSUME catalog \in [Services -> [version : Versions, scopes : SUBSET Scopes]],
           NEW past, NEW x \in Entries, Reviewed(past, x)
    PROVE  Reviewed(past, Pinned(x))
<1>1. PICK old \in past : Covers(old, x)
  BY DEF Reviewed
<1>2. Covers(old, Pinned(x))
  BY <1>1, PinnedTyped DEF Covers
<1>3. QED
  BY <1>2 DEF Reviewed

(* What was decided on once stays decided on.                              *)
LEMMA ReviewedGrows ==
    ASSUME NEW past, NEW later, past \subseteq later, NEW x, Reviewed(past, x)
    PROVE  Reviewed(later, x)
BY DEF Reviewed

(* An action that asks for nothing else keeps what the requests promise.     *)
LEMMA RecordsKeepRequests ==
    ASSUME Typed, Alone, RequestsHold, UNCHANGED submission, reviewed \subseteq reviewed',
           \A s \in Services : record'[s].exists =>
               /\ record[s].exists /\ record'[s].scopes = record[s].scopes
               /\ record'[s].version = record[s].version
    PROVE  Alone' /\ RequestsHold'
<1>1. Alone'
  BY DEF Alone
<1>2. ASSUME NEW h \in Submitters, submission'[h].pc = "writing"
      PROVE  Promised(submission[h])' /\ Stored(submission[h])'
  <2> DEFINE w == submission[h]
  <2>1. submission'[h] = w
    OBVIOUS
  <2>2. w.pc = "writing" /\ w \in Writing
    BY <1>2, SubmissionShape
  <2>3. Promised(w) /\ Stored(w)
    BY <2>2 DEF RequestsHold
  <2>4. /\ \A i \in 1..Len(w.todo) : w.todo[i].service \in DOMAIN w.asked
        /\ DOMAIN w.asked \subseteq Services
    BY <2>2, RequestTyped DEF Writing
  <2> HIDE DEF w
  <2>5. ASSUME NEW i \in 1..Len(w.todo), w.todo[i].approved = Keep
        PROVE  ~record'[w.todo[i].service].exists
    BY <2>3, <2>4, <2>5 DEF Promised
  <2>6. ASSUME NEW i \in 1..Len(w.todo), w.todo[i].approved = {TRUE}
        PROVE  Reviewed(reviewed', Entry(w.todo[i].service, w.asked[w.todo[i].service]))
    <3>1. Reviewed(reviewed, Entry(w.todo[i].service, w.asked[w.todo[i].service]))
      BY <2>3, <2>6 DEF Promised
    <3>2. QED
      BY <3>1, ReviewedGrows
  <2>7. ASSUME NEW s \in DOMAIN w.asked
        PROVE  \/ ~record'[s].exists
               \/ \E i \in 1..Len(w.todo) : w.todo[i].service = s
               \/ /\ record'[s].scopes = w.asked[s].scopes
                  /\ record'[s].version = w.asked[s].version
    BY <2>3, <2>4 DEF Stored
  <2>8. QED
    BY <2>1, <2>5, <2>6, <2>7 DEF Promised, Stored
<1>3. QED
  BY <1>1, <1>2 DEF RequestsHold

(* So does an action that does not concern them.                            *)
LEMMA SameRecordsKeepReviewed ==
    ASSUME ApprovalIsReviewed, reviewed \subseteq reviewed',
           \A s \in Services : record'[s].approved =>
               \/ record[s].approved /\ Entry(s, record'[s]) = Entry(s, record[s])
               \/ Reviewed(reviewed', Entry(s, record'[s]))
    PROVE  ApprovalIsReviewed'
<1> SUFFICES ASSUME NEW s \in Services, record'[s].approved
             PROVE  Reviewed(reviewed', Entry(s, record'[s]))
  BY DEF ApprovalIsReviewed, Reviewed
<1>1. CASE record[s].approved /\ Entry(s, record'[s]) = Entry(s, record[s])
  <2>1. Reviewed(reviewed, Entry(s, record[s]))
    BY <1>1 DEF ApprovalIsReviewed, Reviewed
  <2>2. QED
    BY <1>1, <2>1, ReviewedGrows
<1>2. QED
  BY <1>1

(* A posted event and one whose connection is deleted grant nothing new.     *)
LEMMA EventsKeepReviewed ==
    ASSUME EventsReviewed, GrantIsReviewed, reviewed \subseteq reviewed', UNCHANGED view,
           \A e \in Handlers : handler'[e] \in Handlings =>
               \/ handler'[e].grant = {}
               \/ handler[e] \in Handlings /\ handler'[e].grant = handler[e].grant
    PROVE  EventsReviewed' /\ GrantIsReviewed'
<1>1. ASSUME NEW e \in Handlers, handler'[e] \in Handlings, NEW x \in handler'[e].grant
      PROVE  Reviewed(reviewed', x)
  <2>1. handler[e] \in Handlings /\ x \in handler[e].grant
    BY <1>1
  <2>2. Reviewed(reviewed, x)
    BY <2>1 DEF EventsReviewed
  <2>3. QED
    BY <2>2, ReviewedGrows
<1>2. GrantIsReviewed'
  BY DEF GrantIsReviewed
<1>3. EventsReviewed'
  <2>1. Handlings' = Handlings
    BY DEF Handlings, Entries
  <2>2. QED
    BY <1>1, <2>1 DEF EventsReviewed
<1>4. QED
  BY <1>2, <1>3

(* The steps of a request that do not write a record.                      *)
LEMMA AcceptedKeepsAccounted ==
    ASSUME Serial, Accounted, NEW h \in Submitters,
           Validate(h) \/ WriteFails(h) \/ Answer(h)
    PROVE  Alone' /\ RequestsHold'
<1>1. submission' \in [Submitters -> {IdleSubmission} \cup Accepted \cup Writing]
  BY RequestKeepsTyped DEF Accounted, AccessRequest, Typed
<1>2. /\ \A g \in Submitters : g # h => submission'[g] = submission[g]
      /\ submission'[h] = IdleSubmission \/ submission'[h].pc = "validated"
  BY DEF Validate, WriteFails, Answer, Accounted, Typed
<1>3. IdleSubmission.pc # "writing"
  BY DEF IdleSubmission
<1>4. UNCHANGED <<record, reviewed>>
  BY DEF Validate, WriteFails, Answer
<1>5. Alone'
  <2>1. CASE \A g, k \in Submitters : g = k
    BY <2>1 DEF Alone
  <2>2. CASE Validate(h) /\ Patient
    <3>1. \A g \in Submitters : submission[g] = IdleSubmission
      BY <2>2 DEF Validate, MayCall, Quiet
    <3>2. QED
      BY <1>2, <3>1 DEF Alone
  <2>3. CASE WriteFails(h) \/ Answer(h)
    <3>1. submission'[h] = IdleSubmission
      BY <2>3 DEF WriteFails, Answer, Accounted, Typed
    <3>2. QED
      BY <1>2, <3>1 DEF Alone, Accounted
  <2>4. QED
    BY <2>1, <2>2, <2>3 DEF Serial
<1>6. ASSUME NEW g \in Submitters, submission'[g].pc = "writing"
      PROVE  Promised(submission[g])' /\ Stored(submission[g])'
  <2>1. g # h
    BY <1>2, <1>3, <1>6
  <2>2. submission'[g] = submission[g]
    BY <1>2, <2>1
  <2>3. Promised(submission[g]) /\ Stored(submission[g])
    BY <1>6, <2>2 DEF Accounted, RequestsHold
  <2>4. QED
    BY <1>4, <2>2, <2>3 DEF Promised, Stored
<1>7. QED
  BY <1>5, <1>6 DEF RequestsHold

(* What is planned is what the records at this moment call for, so every   *)
(* service of the request either stands or is in the plan.                 *)
LEMMA PlanKeepsAccounted ==
    ASSUME Accounted, NEW h \in Submitters, Plan(h)
    PROVE  Alone' /\ RequestsHold'
<1>a. PICK asked : asked = submission[h].asked
  OBVIOUS
<1>p. PICK p : p = Planned(asked)
  OBVIOUS
<1> DEFINE w == [pc |-> "writing", asked |-> asked, todo |-> p]
<1>1. /\ submission[h].pc = "validated" /\ submission[h] # IdleSubmission
      /\ submission[h] \in Accepted
  BY SubmissionShape DEF Plan, Accounted
<1>2. asked \in Requests /\ DOMAIN asked \subseteq Services
  BY <1>1, <1>a, RequestTyped DEF Accepted
<1>3. /\ submission' = [submission EXCEPT ![h] = w]
      /\ UNCHANGED <<record, reviewed>>
  BY <1>a, <1>p DEF Plan
<1>4. \A g \in Submitters : submission'[g] = IF g = h THEN w ELSE submission[g]
  BY <1>3 DEF Accounted, Typed
<1>5. Alone'
  BY <1>1, <1>4 DEF Alone, Accounted
<1>6. /\ \A i \in 1..Len(p) :
            LET s == p[i].service IN
            /\ s \in DOMAIN asked /\ ~Stands(record[s], asked[s])
            /\ p[i] = Change(s, record[s], asked[s])
      /\ \A s \in DOMAIN asked : ~Stands(record[s], asked[s]) =>
            \E i \in 1..Len(p) : p[i].service = s
  BY <1>2, <1>p, PlannedShape DEF Accounted, Typed
<1>7. ASSUME NEW i \in 1..Len(p)
      PROVE  LET s == p[i].service IN
             /\ p[i].approved = Keep => ~record[s].exists
             /\ p[i].approved = {TRUE} => Reviewed(reviewed, Entry(s, asked[s]))
  <2> DEFINE s == p[i].service
  <2>1. /\ s \in Services /\ record[s] \in Records
        /\ ~Stands(record[s], asked[s]) /\ p[i] = Change(s, record[s], asked[s])
    BY <1>2, <1>6 DEF Accounted, Typed
  <2>2. \/ ~record[s].exists /\ p[i].approved = Keep
        \/ record[s].exists /\ p[i].approved = {FALSE}
        \/ /\ ~Differs(record[s], asked[s]) /\ record[s].exists /\ record[s].approved
           /\ p[i].approved = {TRUE}
    <3> DEFINE r == record[s]
               a == asked[s]
    <3>1. s \in Services /\ r \in Records /\ ~Stands(r, a) /\ p[i] = Change(s, r, a)
      BY <2>1
    <3> HIDE DEF s, r, a
    <3>2. \/ ~r.exists /\ Change(s, r, a).approved = Keep
          \/ r.exists /\ Change(s, r, a).approved = {FALSE}
          \/ /\ ~Differs(r, a) /\ r.exists /\ r.approved
             /\ Change(s, r, a).approved = {TRUE}
      BY <3>1, ChangeShape
    <3>3. QED
      BY <3>1, <3>2 DEF r, a
  <2>3. {TRUE} # {FALSE} /\ {TRUE} # Keep /\ {FALSE} # Keep
    <3>1. TRUE \in {TRUE} /\ FALSE \in {FALSE} /\ TRUE \notin {FALSE}
      OBVIOUS
    <3>2. QED
      BY <3>1 DEF Keep
  <2>4. ASSUME record[s].approved PROVE Reviewed(reviewed, Entry(s, record[s]))
    BY <2>1, <2>4 DEF Accounted, ApprovalIsReviewed, Reviewed
  <2> HIDE DEF s
  <2>5. ASSUME p[i].approved = Keep PROVE ~record[s].exists
    BY <2>2, <2>3, <2>5
  <2>6. ASSUME p[i].approved = {TRUE} PROVE Reviewed(reviewed, Entry(s, asked[s]))
    <3>1. ~Differs(record[s], asked[s]) /\ record[s].exists /\ record[s].approved
      BY <2>2, <2>3, <2>6
    <3>2. QED
      BY <2>4, <3>1, CoversUnchanged
  <2>7. QED
    BY <2>5, <2>6 DEF s
<1>8. ASSUME NEW s \in DOMAIN asked
      PROVE  \/ ~record[s].exists
             \/ \E i \in 1..Len(p) : p[i].service = s
             \/ /\ record[s].scopes = asked[s].scopes
                /\ record[s].version = asked[s].version
  <2>1. CASE Stands(record[s], asked[s])
    BY <2>1 DEF Stands, PinsVersion, Differs
  <2>2. CASE ~Stands(record[s], asked[s])
    BY <1>6, <2>2
  <2>3. QED
    BY <2>1, <2>2
<1>9. Promised(w)' /\ Stored(w)'
  <2>1. w.asked = asked /\ w.todo = p
    OBVIOUS
  <2> HIDE DEF w
  <2>2. Promised(w)'
    BY <1>3, <1>7, <2>1 DEF Promised
  <2>3. Stored(w)'
    BY <1>3, <1>8, <2>1 DEF Stored
  <2>4. QED
    BY <2>2, <2>3
<1> HIDE DEF w
<1>10. ASSUME NEW g \in Submitters, submission'[g].pc = "writing"
       PROVE  Promised(submission[g])' /\ Stored(submission[g])'
  <2>1. CASE g = h
    <3>1. submission'[g] = w
      BY <1>4, <2>1
    <3>2. Promised(submission[g])'
      BY <1>9, <3>1 DEF Promised
    <3>3. Stored(submission[g])'
      BY <1>9, <3>1 DEF Stored
    <3>4. QED
      BY <3>2, <3>3
  <2>2. CASE g # h
    <3>1. submission'[g] = submission[g]
      BY <1>4, <2>2
    <3>2. Promised(submission[g]) /\ Stored(submission[g])
      BY <1>10, <3>1 DEF Accounted, RequestsHold
    <3>3. QED
      BY <1>3, <3>1, <3>2, ZenonT(60) DEF Promised, Stored
  <2>3. QED
    BY <2>1, <2>2
<1>11. QED
  BY <1>5, <1>10 DEF RequestsHold

(* Each write keeps the promise of those after it: they concern other        *)
(* services.                                                               *)
LEMMA WriteKeepsAccounted ==
    ASSUME Accounted, NEW h \in Submitters, Write(h)
    PROVE  Accounted'
<1>w. PICK w : w = submission[h]
  OBVIOUS
<1>c. PICK change : change = Head(w.todo)
  OBVIOUS
<1>s. PICK s : s = change.service
  OBVIOUS
<1>a. PICK asked : asked = w.asked[s]
  OBVIOUS
<1>n. PICK new : new = Upserted(record[s], change, asked)
  OBVIOUS
<1>v. PICK later : later = [w EXCEPT !.todo = Tail(@)]
  OBVIOUS
<1>1. w \in Writing /\ w.todo # <<>> /\ w.pc = "writing" /\ w # IdleSubmission
  BY <1>w, SubmissionShape DEF Write, Accounted
<1>2. /\ change \in Changes /\ change = w.todo[1] /\ 1 \in 1..Len(w.todo)
      /\ s \in DOMAIN w.asked /\ s \in Services /\ asked \in Asked
      /\ DOMAIN w.asked \subseteq Services
      /\ Len(Tail(w.todo)) = Len(w.todo) - 1 /\ Len(w.todo) \in Nat
      /\ \A i \in 1..Len(Tail(w.todo)) : Tail(w.todo)[i] = w.todo[i + 1] /\ i + 1 \in 2..Len(w.todo)
      /\ \A i \in 1..Len(Tail(w.todo)) : Tail(w.todo)[i].service # s
      /\ later \in Writing
  BY <1>1, <1>c, <1>s, <1>a, <1>v, HeadTyped
<1>3. /\ record' = [record EXCEPT ![s] = new] /\ Post(s, new)
      /\ submission' = [submission EXCEPT ![h] = later]
      /\ UNCHANGED <<catalog, view, reviewed>>
  BY <1>w, <1>c, <1>s, <1>a, <1>n, <1>v DEF Write
<1>4. record[s] \in Records /\ (record[s].exists \/ record[s] = NoRecord)
  BY <1>2 DEF Accounted, Typed, NothingLeft
<1>5. /\ new \in Records /\ new.exists = TRUE
      /\ new.approved = Set(record[s].approved, change.approved)
      /\ new.scopes = asked.scopes /\ new.version = asked.version
  BY <1>2, <1>4, <1>n, UpsertedTyped
<1>6. Typed'
  BY RequestKeepsTyped DEF Accounted, AccessRequest
<1>7. /\ Promised(w) /\ Stored(w)
      /\ \A g \in Submitters : g # h => submission[g] = IdleSubmission
  BY <1>1, <1>w DEF Accounted, RequestsHold, Alone
<1>8. /\ \A t \in Services : record'[t] = IF t = s THEN new ELSE record[t]
      /\ \A g \in Submitters : submission'[g] = IF g = h THEN later ELSE submission[g]
  BY <1>3 DEF Accounted, Typed
<1>9. later.asked = w.asked /\ later.todo = Tail(w.todo)
  BY <1>1, <1>v DEF Writing
<1>10. Alone'
  BY <1>7, <1>8 DEF Alone
<1>11. Promised(later)'
  <2>1. ASSUME NEW i \in 1..Len(later.todo)
        PROVE  LET t == later.todo[i].service IN
               /\ later.todo[i].approved = Keep => ~record'[t].exists
               /\ later.todo[i].approved = {TRUE} =>
                     Reviewed(reviewed', Entry(t, later.asked[t]))
    <3>1. /\ later.todo[i] = w.todo[i + 1] /\ i + 1 \in 1..Len(w.todo)
          /\ later.todo[i].service # s
      BY <1>2, <1>9
    <3>2. later.todo[i].service \in DOMAIN w.asked
      BY <1>1, <3>1 DEF Writing
    <3>3. record'[later.todo[i].service] = record[later.todo[i].service]
      BY <1>2, <1>8, <3>1, <3>2
    <3>4. LET t == w.todo[i + 1].service IN
          /\ w.todo[i + 1].approved = Keep => ~record[t].exists
          /\ w.todo[i + 1].approved = {TRUE} => Reviewed(reviewed, Entry(t, w.asked[t]))
      BY <1>7, <3>1 DEF Promised
    <3>5. QED
      BY <1>3, <1>9, <3>1, <3>3, <3>4
  <2>2. QED
    BY <2>1 DEF Promised
<1>12. Stored(later)'
  <2>1. ASSUME NEW t \in DOMAIN later.asked
        PROVE  \/ ~record'[t].exists
               \/ \E i \in 1..Len(later.todo) : later.todo[i].service = t
               \/ /\ record'[t].scopes = later.asked[t].scopes
                  /\ record'[t].version = later.asked[t].version
    <3>1. CASE t = s
      BY <1>2, <1>5, <1>8, <1>9, <1>a, <3>1
    <3>2. CASE t # s /\ \E i \in 1..Len(w.todo) : w.todo[i].service = t
      <4>1. PICK i \in 1..Len(w.todo) : w.todo[i].service = t
        BY <3>2
      <4>2. i # 1
        BY <1>2, <1>s, <3>2, <4>1
      <4>3. i - 1 \in 1..Len(later.todo) /\ (i - 1) + 1 = i
        BY <1>2, <1>9, <4>1, <4>2
      <4>4. later.todo[i - 1] = w.todo[i]
        BY <1>2, <1>9, <4>3
      <4>5. QED
        BY <4>1, <4>3, <4>4
    <3>3. CASE t # s /\ ~\E i \in 1..Len(w.todo) : w.todo[i].service = t
      <4>1. record'[t] = record[t]
        BY <1>2, <1>8, <1>9, <3>3
      <4>2. QED
        BY <1>7, <1>9, <3>3, <4>1 DEF Stored
    <3>4. QED
      BY <3>1, <3>2, <3>3
  <2>2. QED
    BY <2>1 DEF Stored
<1>13. RequestsHold'
  <2>1. ASSUME NEW g \in Submitters, submission'[g].pc = "writing"
        PROVE  Promised(submission[g])' /\ Stored(submission[g])'
    <3>1. submission'[g] = later
      BY <1>7, <1>8, <2>1 DEF IdleSubmission
    <3>2. Promised(submission[g])'
      BY <1>11, <3>1 DEF Promised
    <3>3. Stored(submission[g])'
      BY <1>12, <3>1 DEF Stored
    <3>4. QED
      BY <3>2, <3>3
  <2>2. QED
    BY <2>1 DEF RequestsHold
<1>14. ASSUME new.approved PROVE Reviewed(reviewed', Entry(s, new))
  <2>1. change.approved \in Field
    BY <1>2 DEF Changes
  <2>2. CASE change.approved = Keep
    <3>1. ~record[s].exists
      BY <1>2, <1>7, <1>s, <2>2 DEF Promised
    <3>2. record[s].approved = FALSE
      BY <1>4, <3>1 DEF NoRecord
    <3>3. new.approved = FALSE
      BY <1>4, <1>5, <2>1, <2>2, <3>2, SetTyped DEF Records
    <3>4. QED
      BY <1>14, <3>3
  <2>3. CASE change.approved = {TRUE}
    <3>1. Reviewed(reviewed, Entry(s, asked))
      BY <1>2, <1>7, <1>s, <1>a, <2>3 DEF Promised
    <3>2. Entry(s, new) = Entry(s, asked)
      BY <1>5 DEF Entry
    <3>3. QED
      BY <1>3, <3>1, <3>2
  <2>4. CASE change.approved = {FALSE}
    <3>1. new.approved = FALSE
      BY <1>4, <1>5, <2>1, <2>4, SetTyped DEF Records
    <3>2. QED
      BY <1>14, <3>1
  <2>5. QED
    BY <2>1, <2>2, <2>3, <2>4 DEF Field
<1>15. ApprovalIsReviewed'
  <2>1. \A t \in Services : record'[t].approved =>
            \/ record[t].approved /\ Entry(t, record'[t]) = Entry(t, record[t])
            \/ Reviewed(reviewed', Entry(t, record'[t]))
    BY <1>8, <1>14
  <2>2. QED
    BY <1>3, <2>1, SameRecordsKeepReviewed DEF Accounted
<1>16. EventsReviewed' /\ GrantIsReviewed'
  <2>1. \A e \in Handlers :
            \/ handler'[e] = handler[e]
            \/ handler'[e].grant = {}
    BY <1>2, <1>3, <1>5, PostTyped DEF Accounted, Typed
  <2>2. QED
    BY <1>3, <2>1, EventsKeepReviewed DEF Accounted
<1>17. QED
  BY <1>6, <1>10, <1>13, <1>15, <1>16 DEF Accounted

(* The steps of a request.                                                 *)
LEMMA RequestKeepsAccounted ==
    ASSUME Serial, Accounted, NEW h \in Submitters, AccessRequest(h)
    PROVE  Accounted'
<1>1. CASE Write(h)
  BY <1>1, WriteKeepsAccounted
<1>2. CASE Validate(h) \/ Plan(h) \/ WriteFails(h) \/ Answer(h)
  <2>1. UNCHANGED <<record, handler, view, reviewed>>
    BY <1>2 DEF Validate, Plan, WriteFails, Answer
  <2>2. Typed'
    BY RequestKeepsTyped DEF Accounted
  <2>3. Alone' /\ RequestsHold'
    BY <1>2, AcceptedKeepsAccounted, PlanKeepsAccounted
  <2>4. ApprovalIsReviewed'
    BY <2>1 DEF Accounted, ApprovalIsReviewed
  <2>5. EventsReviewed' /\ GrantIsReviewed'
    BY <2>1, EventsKeepReviewed DEF Accounted
  <2>6. QED
    BY <2>2, <2>3, <2>4, <2>5 DEF Accounted
<1>3. QED
  BY <1>1, <1>2 DEF AccessRequest

(* A decision is recorded; nothing else that the organizations do changes    *)
(* what an approved connection stands for.                                 *)
LEMMA OrganizationsKeepAccounted ==
    ASSUME Accounted, NEW s \in Services, Organizations(s)
    PROVE  Accounted'
<1>1. Typed'
  BY OrganizationsKeepTyped DEF Accounted
<1>2. record \in [Services -> Records] /\ record[s] \in Records
  BY DEF Accounted, Typed
<1>3. SUFFICES ASSUME UNCHANGED <<submission, view>>, reviewed \subseteq reviewed',
                      \A t \in Services :
                         /\ record'[t].exists =>
                               /\ record[t].exists /\ record'[t].scopes = record[t].scopes
                               /\ record'[t].version = record[t].version
                         /\ record'[t].approved =>
                               \/ record[t].approved
                               \/ Reviewed(reviewed', Entry(t, record'[t])),
                      \A t \in Services : record'[t].approved => record'[t].exists,
                      \A e \in Handlers : handler'[e] \in Handlings =>
                         \/ handler'[e].grant = {}
                         \/ handler[e] \in Handlings /\ handler'[e].grant = handler[e].grant
               PROVE  Accounted'
  <2>r. \A t \in Services : record'[t].approved => record'[t].exists
    <3>1. \A t \in Services : record'[t].exists \/ record'[t] = NoRecord
      BY <1>1 DEF Typed, NothingLeft
    <3>2. QED
      BY <3>1 DEF NoRecord
  <2>1. CASE Decide(s)
    <3>1. PICK approve \in BOOLEAN, active \in Field :
              LET new == [record[s] EXCEPT !.approved = approve, !.active = Set(@, active)] IN
              /\ record' = [record EXCEPT ![s] = new]
              /\ Post(s, new)
              /\ reviewed' = IF approve /\ ~record[s].approved
                             THEN reviewed \cup {Entry(s, new)} ELSE reviewed
      BY <2>1 DEF Decide
    <3>n. PICK new : new = [record[s] EXCEPT !.approved = approve, !.active = Set(@, active)]
      OBVIOUS
    <3>2. /\ record' = [record EXCEPT ![s] = new] /\ Post(s, new)
          /\ reviewed' = IF approve /\ ~record[s].approved
                         THEN reviewed \cup {Entry(s, new)} ELSE reviewed
          /\ record[s].exists /\ UNCHANGED <<submission, view>>
      BY <2>1, <3>1, <3>n DEF Decide
    <3>3. /\ new.exists = record[s].exists /\ new.approved = approve
          /\ new.scopes = record[s].scopes /\ new.version = record[s].version
      BY <1>2, <3>n DEF Records
    <3>4. new \in Records
      BY <1>1, <1>2, <3>2 DEF Typed
    <3>5. \A t \in Services : record'[t] = IF t = s THEN new ELSE record[t]
      BY <1>2, <3>2
    <3>6. ASSUME new.approved, ~record[s].approved PROVE Reviewed(reviewed', Entry(s, new))
      <4>1. Entry(s, new) \in reviewed'
        BY <3>2, <3>3, <3>6
      <4>2. QED
        BY <4>1 DEF Reviewed, Covers
    <3>7. \A e \in Handlers : handler'[e] = handler[e] \/ handler'[e].grant = {}
      BY <3>2, <3>4, PostTyped DEF Accounted, Typed
    <3>8. reviewed \subseteq reviewed'
      BY <3>2
    <3>9. \A t \in Services :
             /\ record'[t].exists =>
                   /\ record[t].exists /\ record'[t].scopes = record[t].scopes
                   /\ record'[t].version = record[t].version
             /\ record'[t].approved =>
                   \/ record[t].approved
                   \/ Reviewed(reviewed', Entry(t, record'[t]))
      BY <3>3, <3>5, <3>6
    <3>10. QED
      BY <1>3, <2>r, <3>2, <3>7, <3>8, <3>9
  <2>2. CASE SetActive(s)
    <3>n. PICK new : new = [record[s] EXCEPT !.active = ~@]
      OBVIOUS
    <3>1. /\ record' = [record EXCEPT ![s] = new] /\ Post(s, new)
          /\ UNCHANGED <<submission, view, reviewed>>
      BY <2>2, <3>n DEF SetActive
    <3>2. /\ new.exists = record[s].exists /\ new.approved = record[s].approved
          /\ new.scopes = record[s].scopes /\ new.version = record[s].version
          /\ new \in Records
      BY <1>2, <3>n DEF Records
    <3>3. \A t \in Services : record'[t] = IF t = s THEN new ELSE record[t]
      BY <1>2, <3>1
    <3>4. \A e \in Handlers : handler'[e] = handler[e] \/ handler'[e].grant = {}
      BY <3>1, <3>2, PostTyped DEF Accounted, Typed
    <3>5. QED
      BY <1>3, <2>r, <3>1, <3>2, <3>3, <3>4
  <2>3. CASE DeleteConnection(s)
    <3>1. \A t \in Services : record'[t] = IF t = s THEN NoRecord ELSE record[t]
      BY <1>2, <2>3 DEF DeleteConnection
    <3>2. \A e \in Handlers : handler'[e] \in Handlings =>
              handler[e] \in Handlings /\ handler'[e].grant = handler[e].grant
      <4>1. \A e \in Handlers : handler[e] \in {IdleHandler} \cup Handlings
        BY DEF Accounted, Typed
      <4>2. \A e \in Handlers :
               handler'[e] = IF handler[e] # IdleHandler /\ handler[e].service = s
                             THEN [handler[e] EXCEPT !.gone = TRUE] ELSE handler[e]
        BY <2>3 DEF DeleteConnection
      <4>3. IdleHandler \notin Handlings
        BY DEF IdleHandler, Handlings
      <4>4. \A k \in Handlings : [k EXCEPT !.gone = TRUE].grant = k.grant
        BY DEF Handlings
      <4>5. QED
        BY <4>1, <4>2, <4>3, <4>4
    <3>3. QED
      BY <1>3, <2>r, <2>3, <3>1, <3>2 DEF DeleteConnection, NoRecord
  <2>4. CASE PublishSpecification(s)
    BY <1>3, <2>r, <2>4 DEF PublishSpecification
  <2>5. QED
    BY <2>1, <2>2, <2>3, <2>4 DEF Organizations
<1>4. Alone' /\ RequestsHold'
  BY <1>3, RecordsKeepRequests DEF Accounted
<1>5. ApprovalIsReviewed'
  <2>1. \A t \in Services : record'[t].approved =>
            \/ record[t].approved /\ Entry(t, record'[t]) = Entry(t, record[t])
            \/ Reviewed(reviewed', Entry(t, record'[t]))
    BY <1>3 DEF Entry
  <2>2. QED
    BY <1>3, <2>1, SameRecordsKeepReviewed DEF Accounted
<1>6. EventsReviewed' /\ GrantIsReviewed'
  BY <1>3, EventsKeepReviewed DEF Accounted
<1>7. QED
  BY <1>1, <1>4, <1>5, <1>6 DEF Accounted

(* A grant is made of what is approved when the connections are listed, and  *)
(* what was reviewed once stays so.                                        *)
LEMMA HandlingKeepsAccounted ==
    ASSUME Accounted, NEW e \in Handlers, Handling(e)
    PROVE  Accounted'
<1>1. Typed' /\ handler[e] \in Handlings
  <2>1. handler[e].pc # "idle"
    BY DEF Handling, Start, List, LookUp, HandlingFails, PublishToGateway, CallBack
  <2>2. QED
    BY <2>1, HandlingKeepsTyped, HandlerShape DEF Accounted
<1>2. UNCHANGED <<catalog, record, submission, reviewed>>
  BY DEF Handling, Start, List, LookUp, HandlingFails, PublishToGateway, CallBack
<1>3. Alone' /\ RequestsHold'
  BY <1>2, RecordsKeepRequests DEF Accounted
<1>4. ApprovalIsReviewed'
  BY <1>2 DEF Accounted, ApprovalIsReviewed
<1>5. \A x \in handler[e].grant : x \in Entries /\ Reviewed(reviewed, x)
  BY <1>1 DEF Accounted, EventsReviewed, Handlings
<1>6. IdleHandler \notin Handlings
  BY DEF IdleHandler, Handlings
<1>7. /\ \A f \in Handlers : f # e => handler'[f] = handler[f]
      /\ handler'[e] \in Handlings => \A x \in handler'[e].grant : Reviewed(reviewed, x)
  <2>1. CASE Start(e)
    <3>1. handler'[e] = IdleHandler \/ handler'[e].grant = handler[e].grant
      <4> DEFINE next == [handler[e] EXCEPT !.pc = "list"]
      <4>1. next.grant = handler[e].grant
        BY <1>1 DEF Handlings
      <4>2. handler'[e] \in {IdleHandler, next}
        BY <2>1 DEF Start, End, Accounted, Typed
      <4>3. QED
        BY <4>1, <4>2
    <3>2. QED
      BY <2>1, <3>1, <1>5, <1>6 DEF Start, End, Accounted, Typed
  <2>2. CASE List(e)
    <3>1. handler'[e] = IdleHandler \/ handler'[e].grant = Granted
      <4> DEFINE next == [handler[e] EXCEPT !.pc = "lookup", !.grant = Granted]
      <4>1. next.grant = Granted
        BY <1>1 DEF Handlings
      <4>2. handler'[e] \in {IdleHandler, next}
        BY <2>2 DEF List, End, Accounted, Typed
      <4>3. QED
        BY <4>1, <4>2
    <3>2. \A x \in Granted : Reviewed(reviewed, x)
      BY DEF Granted, Accounted, ApprovalIsReviewed, Reviewed
    <3>3. QED
      BY <2>2, <3>1, <3>2, <1>6 DEF List, End, Accounted, Typed
  <2>3. CASE LookUp(e)
    <3> DEFINE pinned == {Pinned(x) : x \in {y \in handler[e].grant : ~Malformed(y)}}
    <3>1. handler'[e] = IdleHandler \/ handler'[e].grant = pinned
      <4> DEFINE next == [handler[e] EXCEPT !.pc = "gateway", !.grant = pinned]
      <4>1. next.grant = pinned
        BY <1>1 DEF Handlings
      <4>2. handler'[e] \in {IdleHandler, next}
        BY <2>3 DEF LookUp, End, Accounted, Typed
      <4>3. QED
        BY <4>1, <4>2
    <3>2. \A x \in pinned : Reviewed(reviewed, x)
      <4>1. \A x \in handler[e].grant : Reviewed(reviewed, Pinned(x))
        BY <1>5, CoversPinned DEF Accounted, Typed
      <4>2. QED
        BY <4>1
    <3>3. QED
      BY <2>3, <3>1, <3>2, <1>6 DEF LookUp, End, Accounted, Typed
  <2>4. CASE HandlingFails(e) \/ CallBack(e)
    BY <2>4, <1>6 DEF HandlingFails, CallBack, End, Accounted, Typed
  <2>5. CASE PublishToGateway(e)
    <3>1. handler'[e].grant = handler[e].grant
      BY <2>5, <1>1 DEF PublishToGateway, Accounted, Typed, Handlings
    <3>2. QED
      BY <2>5, <3>1, <1>5 DEF PublishToGateway, Accounted, Typed
  <2>6. QED
    BY <2>1, <2>2, <2>3, <2>4, <2>5 DEF Handling
<1>8. EventsReviewed'
  <2>1. Handlings' = Handlings
    BY DEF Handlings, Entries
  <2>2. QED
    BY <1>2, <1>7, <2>1 DEF EventsReviewed, Accounted
<1>9. GrantIsReviewed'
  <2>1. \A t \in Targets : view'[t] = view[t] \/ view'[t] = handler[e].grant
    <3>1. CASE PublishToGateway(e) \/ CallBack(e)
      BY <3>1, BatchTyped DEF Accounted
    <3>2. CASE ~(PublishToGateway(e) \/ CallBack(e))
      BY <3>2 DEF Handling, Start, List, LookUp, HandlingFails
    <3>3. QED
      BY <3>1, <3>2
  <2>2. QED
    BY <1>2, <1>5, <2>1 DEF GrantIsReviewed, Reviewed, Accounted
<1>10. QED
  BY <1>1, <1>3, <1>4, <1>8, <1>9 DEF Accounted

(* A legacy connection, and the grant of it, count as decided on.          *)
LEMMA InitAccounted == Init => Accounted
<1> SUFFICES ASSUME Init PROVE Accounted
  OBVIOUS
<1>1. Typed
  BY InitTyped
<1>2. Alone /\ RequestsHold /\ EventsReviewed
  BY DEF Init, Alone, RequestsHold, EventsReviewed, IdleSubmission, IdleHandler, Handlings
<1>3. \A s \in Services : record[s].approved => s \in Legacy
  BY DEF Init, NoRecord
<1>4. ApprovalIsReviewed
  BY <1>3 DEF Init, ApprovalIsReviewed, Covers
<1>5. \A x \in reviewed : Reviewed(reviewed, x)
  BY DEF Reviewed, Covers
<1>6. \A x \in reviewed : Reviewed(reviewed, Pinned(x))
  BY <1>1, <1>5, CoversPinned DEF Typed
<1>7. GrantIsReviewed
  BY <1>6, ZenonT(60) DEF Init, GrantIsReviewed, Reviewed
<1>8. QED
  BY <1>1, <1>2, <1>4, <1>7 DEF Accounted

(* Without overlapping requests every step keeps the account.              *)
LEMMA NextKeepsAccounted == Serial /\ Accounted /\ [Next]_vars => Accounted'
<1> SUFFICES ASSUME Serial, Accounted, [Next]_vars PROVE Accounted'
  OBVIOUS
<1>1. CASE Next
  BY <1>1, RequestKeepsAccounted, OrganizationsKeepAccounted, HandlingKeepsAccounted DEF Next
<1>2. CASE UNCHANGED vars
  <2>1. Typed'
    BY <1>2, StutterKeepsTyped DEF Accounted
  <2>2. Alone' /\ RequestsHold'
    BY <1>2, RecordsKeepRequests DEF Accounted, vars
  <2>3. ApprovalIsReviewed'
    BY <1>2 DEF Accounted, vars, ApprovalIsReviewed
  <2>4. EventsReviewed' /\ GrantIsReviewed'
    BY <1>2, EventsKeepReviewed DEF Accounted, vars
  <2>5. QED
    BY <2>1, <2>2, <2>3, <2>4 DEF Accounted
<1>3. QED
  BY <1>1, <1>2

(* It holds in every state.                                                *)
LEMMA AccountedInvariant == ASSUME Serial PROVE Spec => []Accounted
<1>1. Init => Accounted
  BY InitAccounted
<1>2. Accounted /\ [Next]_vars => Accounted'
  BY NextKeepsAccounted
<1>3. QED
  BY <1>1, <1>2, PTL DEF Spec

(* When requests do not overlap, what an approved connection stands for was  *)
(* reviewed, whatever the organizations, failures and events do meanwhile.  *)
THEOREM ApprovalReviewed == ASSUME Serial PROVE Spec => []ApprovalIsReviewed
<1>1. Accounted => ApprovalIsReviewed
  BY DEF Accounted
<1>2. QED
  BY <1>1, AccountedInvariant, PTL

(* So was whatever the gateway and Common SSO grant, although an event        *)
(* publishes what it listed some steps ago.                                *)
THEOREM GrantReviewed == ASSUME Serial PROVE Spec => []GrantIsReviewed
<1>1. Accounted => GrantIsReviewed
  BY DEF Accounted
<1>2. QED
  BY <1>1, AccountedInvariant, PTL

(* A request is answered when nothing of its plan is left.                 *)
LEMMA AccountedImpliesAnswered == Accounted => AnsweredIsStored
<1> SUFFICES ASSUME Accounted, NEW h \in Submitters,
                    submission[h].pc = "writing", submission[h].todo = <<>>,
                    NEW s \in DOMAIN submission[h].asked, record[s].exists
             PROVE  LET r == record[s] asked == submission[h].asked[s] IN
                    ~Differs(r, asked) /\ ~PinsVersion(r, asked)
  BY DEF AnsweredIsStored
<1> DEFINE w == submission[h]
<1>1. w \in Writing /\ Stored(w) /\ w.todo = <<>>
  BY SubmissionShape DEF Accounted, RequestsHold
<1>2. w.asked[s] \in Asked
  BY <1>1, RequestTyped DEF Writing
<1>3. Len(w.todo) = 0
  BY <1>1
<1>4. record[s].scopes = w.asked[s].scopes /\ record[s].version = w.asked[s].version
  BY <1>1, <1>3 DEF Stored
<1>5. w.asked[s].version # Unversioned
  BY <1>2 DEF Asked, Versions, Unversioned
<1>6. QED
  BY <1>4, <1>5 DEF Differs, PinsVersion

(* The answer of an access request is true, for a request over any number of *)
(* services, with decisions, deletions and new versions between its writes.  *)
THEOREM AnsweredStored == ASSUME Serial PROVE Spec => []AnsweredIsStored
BY AccountedInvariant, AccountedImpliesAnswered, PTL

-----------------------------------------------------------------------------
(***************************************************************************)
(* Revocation, when calls succeed.  Requests, decisions, deletions and new   *)
(* versions overlap as they like, and so do the events: any number of them  *)
(* are in flight and are started in any order.  What is assumed of a        *)
(* behaviour is that no two handlers compute and publish a grant at one     *)
(* time, and that an approval is withdrawn together with the activation.    *)
(* Each is needed: README.md, section 10, and the run                       *)
(* access_withdrawn_active show what happens otherwise.                     *)
(***************************************************************************)

(* The stages between the listing of the connections and the last batch.     *)
Computing == {"lookup", "gateway", "partner"}

OneComputes == \A e, f \in Handlers :
    handler[e].pc \in Computing /\ handler[f].pc \in Computing => e = f

WithdrawsTogether == \A s \in Services :
    record[s].approved /\ ~record'[s].approved => ~record'[s].active

Stale(x) == record[x.service].exists /\ ~record[x.service].approved

(* A delete event that will list the connections anew: one of this record   *)
(* that has not been started, or any that has.                             *)
Expected(e, s) ==
    /\ \/ handler[e].pc = "list"
       \/ handler[e].pc = "posted" /\ handler[e].service = s /\ ~handler[e].gone
    /\ handler[e].action = "delete"

Expects(s) == \E e \in Handlers : Expected(e, s)

(* A delete that has listed them and has not yet replaced what target t has. *)
Replacing(e, t) ==
    /\ \/ handler[e].pc \in {"lookup", "gateway"}
       \/ handler[e].pc = "partner" /\ t = "partner"
    /\ handler[e].action = "delete"

Replaces(t) == \E e \in Handlers : Replacing(e, t)

ViewsRevoked == \A t \in Targets : \A x \in view[t] :
    Stale(x) => Expects(x.service) \/ Replaces(t)

GrantsRevoked == \A e \in Handlers : handler[e].pc \in Computing =>
    \A x \in handler[e].grant : Stale(x) => Expects(x.service)

(* A change that creates a connection leaves it neither approved nor active. *)
Creating == \A h \in Submitters : submission[h].pc = "writing" =>
    \A i \in 1..Len(submission[h].todo) :
        submission[h].todo[i].creates =>
            submission[h].todo[i].approved = Keep /\ submission[h].todo[i].active = Keep

Revoking == ViewsRevoked /\ GrantsRevoked /\ Creating

(* Nothing is kept by a step that changes none of this.                     *)
LEMMA SameKeepsRevoking ==
    ASSUME ViewsRevoked, GrantsRevoked, UNCHANGED <<record, handler, view>>
    PROVE  ViewsRevoked' /\ GrantsRevoked'
<1>1. \A s : Expects(s)' <=> Expects(s)
  BY DEF Expects, Expected
<1>2. \A t : Replaces(t)' <=> Replaces(t)
  BY DEF Replaces, Replacing
<1>3. \A x : Stale(x)' <=> Stale(x)
  BY DEF Stale
<1>4. QED
  BY <1>1, <1>2, <1>3 DEF ViewsRevoked, GrantsRevoked

(* A write that makes a connection stale posts a delete event of its own.    *)
LEMMA PostRevokes ==
    ASSUME Typed, ViewsRevoked, GrantsRevoked, UNCHANGED view,
           NEW s \in Services, NEW new \in Records,
           record' = [record EXCEPT ![s] = new], Post(s, new),
           new.exists /\ ~new.approved =>
               ~new.active \/ (record[s].exists /\ ~record[s].approved)
    PROVE  ViewsRevoked' /\ GrantsRevoked'
<1> DEFINE event == [pc |-> "posted", service |-> s, approved |-> new.approved,
                     gone |-> FALSE, grant |-> {},
                     action |-> IF new.active THEN "apply" ELSE "delete"]
<1>1. PICK e \in Handlers : /\ handler[e] = IdleHandler
                            /\ handler' = [handler EXCEPT ![e] = event]
  BY DEF Post
<1>2. /\ handler'[e] = event
      /\ \A f \in Handlers : f # e => handler'[f] = handler[f]
  BY <1>1 DEF Typed
<1>3. /\ event.pc = "posted" /\ event.service = s /\ event.gone = FALSE
      /\ ~new.active => event.action = "delete"
  OBVIOUS
<1> HIDE DEF event
<1>4. IdleHandler.pc = "idle"
  BY DEF IdleHandler
<1>5. \A r : Expects(r) => Expects(r)'
  <2> SUFFICES ASSUME NEW r, Expects(r) PROVE Expects(r)'
    OBVIOUS
  <2>1. PICK f \in Handlers : Expected(f, r)
    BY DEF Expects
  <2>2. f # e
    BY <1>1, <1>4, <2>1 DEF Expected
  <2>3. QED
    BY <1>2, <2>1, <2>2 DEF Expects, Expected
<1>6. \A t : Replaces(t) => Replaces(t)'
  <2> SUFFICES ASSUME NEW t, Replaces(t) PROVE Replaces(t)'
    OBVIOUS
  <2>1. PICK f \in Handlers : Replacing(f, t)
    BY DEF Replaces
  <2>2. f # e
    BY <1>1, <1>4, <2>1 DEF Replacing
  <2>3. QED
    BY <1>2, <2>1, <2>2 DEF Replaces, Replacing
<1>7. ASSUME NEW x \in Entries, Stale(x)'
      PROVE  Stale(x) \/ Expects(x.service)'
  <2>1. CASE x.service # s
    BY <1>7, <2>1 DEF Typed, Entries, Stale
  <2>2. CASE x.service = s /\ ~Stale(x)
    <3>1. record'[s] = new
      BY DEF Typed
    <3>2. ~new.active
      BY <1>7, <2>2, <3>1 DEF Stale
    <3>3. Expected(e, s)'
      BY <1>2, <1>3, <3>2 DEF Expected
    <3>4. QED
      BY <2>2, <3>3 DEF Expects
  <2>3. QED
    BY <2>1, <2>2
<1>8. ViewsRevoked'
  <2>1. \A t \in Targets : view[t] \subseteq Entries
    BY DEF Typed
  <2>2. QED
    BY <1>5, <1>6, <1>7, <2>1 DEF ViewsRevoked
<1>9. GrantsRevoked'
  <2> SUFFICES ASSUME NEW f \in Handlers, handler'[f].pc \in Computing,
                      NEW x \in handler'[f].grant, Stale(x)'
               PROVE  Expects(x.service)'
    BY DEF GrantsRevoked
  <2>1. f # e
    BY <1>2, <1>3 DEF Computing
  <2>2. handler'[f] = handler[f]
    BY <1>2, <2>1
  <2>3. handler[f] \in Handlings
    BY <1>4, <2>2 DEF Computing, Typed
  <2>4. x \in Entries
    BY <2>2, <2>3 DEF Handlings
  <2>5. Stale(x) => Expects(x.service)
    BY <2>2 DEF GrantsRevoked
  <2>6. QED
    BY <1>5, <1>7, <2>4, <2>5
<1>10. QED
  BY <1>8, <1>9

(* A change planned for a connection that is not there creates it.          *)
LEMMA ChangeCreates ==
    ASSUME NEW s, NEW r \in Records, NEW asked
    PROVE  Change(s, r, asked).creates =>
               Change(s, r, asked).approved = Keep /\ Change(s, r, asked).active = Keep
<1> DEFINE c == Change(s, r, asked)
<1>1. CASE ~r.exists
  <2>1. c = [service |-> s, creates |-> TRUE, approved |-> Keep, active |-> Keep]
    BY <1>1 DEF Change, Differs, Reactivates
  <2>2. QED
    BY <2>1
<1>2. CASE r.exists /\ Differs(r, asked)
  <2>1. c = [service |-> s, creates |-> FALSE, approved |-> {FALSE}, active |-> {FALSE}]
    BY <1>2 DEF Change, Reactivates
  <2>2. c.creates = FALSE
    BY <2>1
  <2>3. QED
    BY <2>2
<1>3. CASE r.exists /\ ~Differs(r, asked) /\ Reactivates(r, asked)
  <2>1. c = [service |-> s, creates |-> FALSE, approved |-> {TRUE}, active |-> {TRUE}]
    BY <1>3 DEF Change
  <2>2. c.creates = FALSE
    BY <2>1
  <2>3. QED
    BY <2>2
<1>4. CASE r.exists /\ ~Differs(r, asked) /\ ~Reactivates(r, asked)
  <2>1. c = [service |-> s, creates |-> FALSE,
             approved |-> {r.approved}, active |-> {r.active}]
    BY <1>4 DEF Change
  <2>2. c.creates = FALSE
    BY <2>1
  <2>3. QED
    BY <2>2
<1>5. QED
  BY <1>1, <1>2, <1>3, <1>4

(* The steps of a request that write nothing.                              *)
LEMMA RequestKeepsCreating ==
    ASSUME Typed, Creating, NEW h \in Submitters, AccessRequest(h)
    PROVE  Creating'
<1>1. \A g \in Submitters : g # h => submission'[g] = submission[g]
  BY DEF AccessRequest, Validate, Plan, Write, WriteFails, Answer, Typed
<1>2. SUFFICES ASSUME submission'[h].pc = "writing", NEW i \in 1..Len(submission'[h].todo)
               PROVE  submission'[h].todo[i].creates =>
                          /\ submission'[h].todo[i].approved = Keep
                          /\ submission'[h].todo[i].active = Keep
  BY <1>1 DEF Creating
<1>3. CASE Validate(h)
  <2>1. submission'[h].pc = "validated"
    BY <1>3 DEF Validate, Typed
  <2>2. QED
    BY <1>2, <2>1
<1>4. CASE Plan(h)
  <2>1. submission[h].asked \in Requests
    BY <1>4, SubmissionShape DEF Plan, Accepted
  <2>p. PICK p : p = Planned(submission[h].asked)
    OBVIOUS
  <2>2. submission'[h].todo = p
    BY <1>4, <2>p DEF Plan, Typed
  <2>3. /\ i \in 1..Len(p)
        /\ DOMAIN submission[h].asked \subseteq Services
    BY <1>2, <2>1, <2>2, RequestTyped
  <2>4. /\ p[i].service \in DOMAIN submission[h].asked
        /\ p[i] = Change(p[i].service, record[p[i].service],
                         submission[h].asked[p[i].service])
    BY <2>1, <2>3, <2>p, PlannedShape DEF Typed
  <2>5. record[p[i].service] \in Records
    BY <2>3, <2>4 DEF Typed
  <2>6. p[i].creates => p[i].approved = Keep /\ p[i].active = Keep
    BY <2>4, <2>5, ChangeCreates
  <2>7. QED
    BY <2>2, <2>6
<1>5. CASE Write(h)
  <2>1. submission[h] \in Writing /\ submission[h].todo # <<>> /\ submission[h].pc = "writing"
    BY <1>5, SubmissionShape DEF Write
  <2>2. submission'[h].todo = Tail(submission[h].todo)
    BY <1>5, <2>1 DEF Write, Typed, Writing
  <2>3. /\ submission'[h].todo[i] = submission[h].todo[i + 1]
        /\ i + 1 \in 2..Len(submission[h].todo) /\ Len(submission[h].todo) \in Nat
    BY <1>2, <2>1, <2>2, HeadTyped
  <2>4. i + 1 \in 1..Len(submission[h].todo)
    BY <2>3
  <2>5. QED
    BY <2>1, <2>3, <2>4 DEF Creating
<1>6. CASE WriteFails(h) \/ Answer(h)
  <2>1. submission'[h] = IdleSubmission
    BY <1>6 DEF WriteFails, Answer, Typed
  <2>2. QED
    BY <1>2, <2>1 DEF IdleSubmission
<1>7. QED
  BY <1>3, <1>4, <1>5, <1>6 DEF AccessRequest

(* A write of a request: it creates a connection that is not active, or is   *)
(* assumed to withdraw both, or makes nothing stale.                       *)
LEMMA RequestKeepsRevoking ==
    ASSUME Typed, Revoking, [WithdrawsTogether]_vars,
           NEW h \in Submitters, AccessRequest(h)
    PROVE  Revoking'
<1>1. Creating'
  BY RequestKeepsCreating DEF Revoking
<1>2. CASE Validate(h) \/ Plan(h) \/ WriteFails(h) \/ Answer(h)
  <2>1. UNCHANGED <<record, handler, view>>
    BY <1>2 DEF Validate, Plan, WriteFails, Answer
  <2>2. QED
    BY <1>1, <2>1, SameKeepsRevoking DEF Revoking
<1>3. CASE Write(h)
  <2>w. PICK w : w = submission[h]
    OBVIOUS
  <2>c. PICK change : change = Head(w.todo)
    OBVIOUS
  <2>s. PICK s : s = change.service
    OBVIOUS
  <2>a. PICK asked : asked = w.asked[s]
    OBVIOUS
  <2>n. PICK new : new = Upserted(record[s], change, asked)
    OBVIOUS
  <2>1. w \in Writing /\ w.todo # <<>> /\ w.pc = "writing"
    BY <1>3, <2>w, SubmissionShape DEF Write
  <2>2. /\ change \in Changes /\ change = w.todo[1] /\ 1 \in 1..Len(w.todo)
        /\ s \in Services /\ asked \in Asked
    <3>1. s \in DOMAIN w.asked /\ DOMAIN w.asked \subseteq Services /\ asked \in Asked
      BY <2>1, <2>c, <2>s, <2>a, HeadTyped
    <3>2. change \in Changes /\ change = w.todo[1] /\ 1 \in 1..Len(w.todo)
      BY <2>1, <2>c, HeadTyped
    <3>3. QED
      BY <3>1, <3>2
  <2>3. /\ record' = [record EXCEPT ![s] = new] /\ Post(s, new)
        /\ Applicable(change) /\ UNCHANGED view
    <3>1. /\ record' = [record EXCEPT ![s] = new] /\ Post(s, new)
          /\ Applicable(change)
      BY <1>3, <2>w, <2>c, <2>s, <2>a, <2>n, Zenon DEF Write
    <3>2. UNCHANGED view
      BY <1>3 DEF Write
    <3>3. QED
      BY <3>1, <3>2
  <2>4. record[s] \in Records /\ (record[s].exists \/ record[s] = NoRecord)
    BY <2>2 DEF Typed, NothingLeft
  <2>5. new \in Records
    BY <2>2, <2>4, <2>n, UpsertedTyped
  <2>6. record'[s] = new
    BY <2>2, <2>3 DEF Typed
  <2>7. CASE record[s].exists
    <3>1. record[s].approved /\ ~new.approved => ~new.active
      <4>1. WithdrawsTogether \/ UNCHANGED record
        BY DEF vars
      <4>2. QED
        BY <2>2, <2>6, <4>1 DEF WithdrawsTogether
    <3>2. new.exists /\ ~new.approved =>
              ~new.active \/ (record[s].exists /\ ~record[s].approved)
      BY <2>7, <3>1
    <3>3. QED
      BY <1>1, <2>2, <2>3, <2>5, <3>2, PostRevokes DEF Revoking
  <2>8. CASE ~record[s].exists
    <3>1. change.creates
      BY <2>3, <2>8, <2>s DEF Applicable
    <3>2. change.active = Keep
      BY <2>1, <2>2, <2>w, <3>1 DEF Revoking, Creating
    <3>3. new.active = Set(record[s].active, change.active)
      BY <2>n DEF Upserted
    <3>4. record[s].active = FALSE
      BY <2>4, <2>8 DEF NoRecord
    <3>5. new.active = FALSE
      BY <3>2, <3>3, <3>4 DEF Set
    <3>6. QED
      BY <1>1, <2>2, <2>3, <2>5, <3>5, PostRevokes DEF Revoking
  <2>9. QED
    BY <2>7, <2>8
<1>4. QED
  BY <1>2, <1>3 DEF AccessRequest

(* The organizations: a withdrawal posts a delete event; a deleted connection *)
(* is not stale, and the events that no longer find it are its own.          *)
LEMMA OrganizationsKeepRevoking ==
    ASSUME Typed, Revoking, [WithdrawsTogether]_vars,
           NEW s \in Services, Organizations(s)
    PROVE  Revoking'
<1>1. UNCHANGED submission
  <2>1. CASE Decide(s)
    BY <2>1 DEF Decide
  <2>2. CASE SetActive(s)
    BY <2>2 DEF SetActive
  <2>3. CASE DeleteConnection(s) \/ PublishSpecification(s)
    BY <2>3 DEF DeleteConnection, PublishSpecification
  <2>4. QED
    BY <2>1, <2>2, <2>3 DEF Organizations
<1>2. Creating'
  BY <1>1 DEF Revoking, Creating
<1>3. record \in [Services -> Records] /\ record[s] \in Records
  BY DEF Typed
<1>4. ASSUME NEW new \in Records, UNCHANGED view, record[s].exists,
             record' = [record EXCEPT ![s] = new], Post(s, new)
      PROVE  Revoking'
  <2>1. record'[s] = new
    BY <1>3, <1>4
  <2>2. WithdrawsTogether \/ UNCHANGED record
    BY DEF vars
  <2>3. record[s].approved /\ ~new.approved => ~new.active
    BY <2>1, <2>2 DEF WithdrawsTogether
  <2>4. QED
    BY <1>2, <1>4, <2>3, PostRevokes DEF Revoking
<1>5. CASE Decide(s)
  <2>1. PICK approve \in BOOLEAN, active \in Field :
            LET new == [record[s] EXCEPT !.approved = approve, !.active = Set(@, active)] IN
            /\ approve \/ record[s].approved
            /\ WithdrawsInactive => approve \/ ~new.active
            /\ record' = [record EXCEPT ![s] = new]
            /\ Post(s, new)
    BY <1>5, Zenon DEF Decide
  <2>n. PICK new : new = [record[s] EXCEPT !.approved = approve, !.active = Set(@, active)]
    OBVIOUS
  <2>2. record' = [record EXCEPT ![s] = new] /\ Post(s, new)
    BY <2>1, <2>n
  <2>3. new \in Records
    <3>1. Set(record[s].active, active) \in BOOLEAN
      BY <1>3, SetTyped DEF Records
    <3>2. QED
      BY <1>3, <2>n, <3>1 DEF Records
  <2>4. QED
    BY <1>4, <1>5, <2>2, <2>3 DEF Decide
<1>6. CASE SetActive(s)
  <2>n. PICK new : new = [record[s] EXCEPT !.active = ~@]
    OBVIOUS
  <2>1. record' = [record EXCEPT ![s] = new] /\ Post(s, new)
    BY <1>6, <2>n DEF SetActive
  <2>2. new \in Records
    BY <1>3, <2>n DEF Records
  <2>3. QED
    BY <1>4, <1>6, <2>1, <2>2 DEF SetActive
<1>7. CASE DeleteConnection(s)
  <2>1. \A r \in Services : record'[r] = IF r = s THEN NoRecord ELSE record[r]
    BY <1>3, <1>7 DEF DeleteConnection
  <2>2. \A e \in Handlers : handler'[e] =
            IF handler[e] # IdleHandler /\ handler[e].service = s
            THEN [handler[e] EXCEPT !.gone = TRUE] ELSE handler[e]
    BY <1>7 DEF DeleteConnection
  <2>3. UNCHANGED view
    BY <1>7 DEF DeleteConnection
  <2>4. ASSUME NEW e \in Handlers
        PROVE  /\ handler'[e].pc = handler[e].pc
               /\ handler[e].pc # "idle" =>
                     /\ handler'[e].action = handler[e].action
                     /\ handler'[e].grant = handler[e].grant
                     /\ handler'[e].service = handler[e].service
                     /\ handler[e].service # s => handler'[e] = handler[e]
    <3>1. CASE handler[e] = IdleHandler
      BY <2>2, <3>1 DEF IdleHandler
    <3>2. CASE handler[e] \in Handlings
      BY <2>2, <3>2 DEF Handlings
    <3>3. QED
      BY <3>1, <3>2 DEF Typed
  <2>5. \A t : Replaces(t) => Replaces(t)'
    <3> SUFFICES ASSUME NEW t, Replaces(t) PROVE Replaces(t)'
      OBVIOUS
    <3>1. PICK e \in Handlers : Replacing(e, t)
      BY DEF Replaces
    <3>2. handler[e].pc # "idle"
      BY <3>1 DEF Replacing
    <3>3. QED
      BY <2>4, <3>1, <3>2 DEF Replaces, Replacing
  <2>6. \A r : r # s /\ Expects(r) => Expects(r)'
    <3> SUFFICES ASSUME NEW r, r # s, Expects(r) PROVE Expects(r)'
      OBVIOUS
    <3>1. PICK e \in Handlers : Expected(e, r)
      BY DEF Expects
    <3>2. handler[e].pc # "idle"
      BY <3>1 DEF Expected
    <3>3. Expected(e, r)'
      BY <2>4, <3>1, <3>2 DEF Expected
    <3>4. QED
      BY <3>3 DEF Expects
  <2>7. ASSUME NEW x \in Entries, Stale(x)' PROVE x.service # s /\ Stale(x)
    <3>1. x.service \in Services
      BY DEF Entries
    <3>2. NoRecord.exists = FALSE
      BY DEF NoRecord
    <3>3. QED
      BY <2>1, <2>7, <3>1, <3>2 DEF Stale
  <2>8. ViewsRevoked'
    <3>1. \A t \in Targets : view[t] \subseteq Entries
      BY DEF Typed
    <3>2. QED
      BY <2>3, <2>5, <2>6, <2>7, <3>1 DEF ViewsRevoked, Revoking
  <2>9. GrantsRevoked'
    <3> SUFFICES ASSUME NEW e \in Handlers, handler'[e].pc \in Computing,
                        NEW x \in handler'[e].grant, Stale(x)'
                 PROVE  Expects(x.service)'
      BY DEF GrantsRevoked
    <3>1. handler[e].pc \in Computing /\ handler[e].pc # "idle"
      BY <2>4 DEF Computing
    <3>2. handler[e] \in Handlings /\ x \in handler[e].grant
      BY <2>4, <3>1, HandlerShape
    <3>3. x \in Entries
      BY <3>2 DEF Handlings
    <3>4. QED
      BY <2>6, <2>7, <3>1, <3>2, <3>3 DEF Revoking, GrantsRevoked
  <2>10. QED
    BY <1>2, <2>8, <2>9 DEF Revoking
<1>8. CASE PublishSpecification(s)
  <2>1. UNCHANGED <<record, handler, view>>
    BY <1>8 DEF PublishSpecification
  <2>2. QED
    BY <1>2, <2>1, SameKeepsRevoking DEF Revoking
<1>9. QED
  BY <1>5, <1>6, <1>7, <1>8 DEF Organizations

(* A handler that lists the connections grants only what is approved, and it *)
(* is the only one that computes; what is withdrawn after that has an event  *)
(* of its own.                                                             *)
LEMMA HandlingKeepsRevoking ==
    ASSUME Reliable, Typed, Revoking, OneComputes, OneComputes',
           NEW e \in Handlers, Handling(e)
    PROVE  Revoking'
<1>1. UNCHANGED <<record, submission>>
  BY DEF Handling, Start, List, LookUp, HandlingFails, PublishToGateway, CallBack
<1>2. Creating'
  BY <1>1 DEF Revoking, Creating
<1>3. handler[e] \in Handlings
  <2>1. handler[e].pc # "idle"
    BY DEF Handling, Start, List, LookUp, HandlingFails, PublishToGateway, CallBack
  <2>2. QED
    BY <2>1, HandlerShape
<1>4. \A f \in Handlers : f # e => handler'[f] = handler[f]
  BY DEF Handling, Start, List, LookUp, HandlingFails, PublishToGateway, CallBack,
         End, Typed
<1>5. \A x : Stale(x)' <=> Stale(x)
  BY <1>1 DEF Stale
<1>6. \A t \in Targets : \A x \in view[t] : x.service \in Services
  BY DEF Typed, Entries
<1>i. IdleHandler.pc = "idle"
  BY DEF IdleHandler
<1>7. ASSUME NEW f \in Handlers, NEW s, Expected(f, s), f # e
      PROVE  Expects(s)'
  <2>1. Expected(f, s)'
    BY <1>4, <1>7 DEF Expected
  <2>2. QED
    BY <2>1 DEF Expects
<1>8. ASSUME NEW f \in Handlers, NEW t, Replacing(f, t), f # e
      PROVE  Replaces(t)'
  <2>1. Replacing(f, t)'
    BY <1>4, <1>8 DEF Replacing
  <2>2. QED
    BY <2>1 DEF Replaces
<1>9. ASSUME UNCHANGED view,
             \A s : Expected(e, s) => Expects(s)',
             \A t \in Targets : Replacing(e, t) => Replaces(t)',
             handler'[e].pc \in Computing => handler[e].pc \in Computing /\
                 \A x \in handler'[e].grant : \E y \in handler[e].grant : y.service = x.service
      PROVE  Revoking'
  <2>1. \A s : Expects(s) => Expects(s)'
    BY <1>7, <1>9 DEF Expects
  <2>2. \A t \in Targets : Replaces(t) => Replaces(t)'
    BY <1>8, <1>9 DEF Replaces
  <2>3. ViewsRevoked'
    BY <1>5, <1>9, <2>1, <2>2 DEF ViewsRevoked, Revoking
  <2>4. ASSUME NEW f \in Handlers, handler'[f].pc \in Computing,
               NEW x \in handler'[f].grant, Stale(x)
        PROVE  Expects(x.service)
    <3>1. CASE f # e
      BY <1>4, <2>4, <3>1 DEF GrantsRevoked, Revoking
    <3>2. CASE f = e
      <4>1. PICK y \in handler[e].grant : y.service = x.service
        BY <1>9, <2>4, <3>2
      <4>2. Stale(y)
        BY <2>4, <4>1 DEF Stale
      <4>3. handler[e].pc \in Computing
        BY <1>9, <2>4, <3>2
      <4>4. QED
        BY <4>1, <4>2, <4>3 DEF GrantsRevoked, Revoking
    <3>3. QED
      BY <3>1, <3>2
  <2>5. GrantsRevoked'
    BY <1>5, <2>1, <2>4 DEF GrantsRevoked
  <2>6. QED
    BY <1>2, <2>3, <2>5 DEF Revoking
<1>10. CASE Start(e)
  <2> DEFINE k == [handler[e] EXCEPT !.pc = "list"]
  <2>1. UNCHANGED view /\ handler[e].pc = "posted"
    BY <1>10 DEF Start
  <2>2. k.pc = "list" /\ k.action = handler[e].action
    BY <1>3 DEF Handlings
  <2>3. handler'[e].pc \notin Computing
    BY <1>10, <1>i, <2>2 DEF Start, End, Typed, Computing
  <2>4. \A t \in Targets : ~Replacing(e, t)
    BY <2>1 DEF Replacing
  <2>5. ASSUME NEW s, Expected(e, s) PROVE Expects(s)'
    <3>1. handler[e].action = "delete" /\ ~handler[e].gone
      BY <2>1, <2>5 DEF Expected
    <3>2. handler'[e] = k
      BY <1>10, <3>1 DEF Start, PolicyAllows, Typed
    <3> HIDE DEF k
    <3>3. Expected(e, s)'
      BY <2>2, <3>1, <3>2 DEF Expected
    <3>4. QED
      BY <3>3 DEF Expects
  <2>6. QED
    BY <1>9, <2>1, <2>3, <2>4, <2>5
<1>11. CASE List(e)
  <2>1. UNCHANGED view /\ handler[e].pc = "list"
    BY <1>11 DEF List
  <2>2. CASE ~\E s \in Services : record[s].exists
    <3>1. \A x : x.service \in Services => ~Stale(x)
      BY <2>2 DEF Stale
    <3>2. ViewsRevoked'
      BY <1>5, <1>6, <2>1, <3>1 DEF ViewsRevoked
    <3>3. handler'[e].pc = "idle"
      BY <1>11, <1>i, <2>2 DEF List, End, Typed
    <3>4. ASSUME NEW f \in Handlers, handler'[f].pc \in Computing,
                 NEW x \in handler'[f].grant
          PROVE  ~Stale(x)
      <4>1. f # e
        BY <3>3, <3>4 DEF Computing
      <4>2. handler[f] \in Handlings /\ x \in handler[f].grant
        BY <1>4, <3>4, <4>1, HandlerShape DEF Computing
      <4>3. x.service \in Services
        BY <4>2 DEF Handlings, Entries
      <4>4. QED
        BY <3>1, <4>3
    <3>5. GrantsRevoked'
      BY <1>5, <3>4 DEF GrantsRevoked
    <3>6. QED
      BY <1>2, <3>2, <3>5 DEF Revoking
  <2>3. CASE \E s \in Services : record[s].exists
    <3> DEFINE k == [handler[e] EXCEPT !.pc = "lookup", !.grant = Granted]
    <3>1. k.pc = "lookup" /\ k.grant = Granted /\ k.action = handler[e].action
      BY <1>3 DEF Handlings
    <3>2. handler'[e] = k
      BY <1>11, <2>3 DEF List, Typed
    <3> HIDE DEF k
    <3>3. \A x \in Granted : ~Stale(x)
      BY DEF Granted, Entry, Stale
    <3>4. ASSUME NEW f \in Handlers, handler'[f].pc \in Computing
          PROVE  f = e
      <4>1. handler'[e].pc \in Computing
        BY <3>1, <3>2 DEF Computing
      <4>2. QED
        BY <3>4, <4>1 DEF OneComputes
    <3>5. GrantsRevoked'
      BY <1>5, <3>1, <3>2, <3>3, <3>4 DEF GrantsRevoked
    <3>6. ASSUME NEW t \in Targets, NEW x \in view[t], Stale(x)
          PROVE  Expects(x.service)' \/ Replaces(t)'
      <4>1. CASE handler[e].action = "delete"
        <5>1. Replacing(e, t)'
          BY <3>1, <3>2, <4>1 DEF Replacing
        <5>2. QED
          BY <5>1 DEF Replaces
      <4>2. CASE handler[e].action # "delete"
        <5>1. \A s : ~Expected(e, s)
          BY <4>2 DEF Expected
        <5>2. ~Replacing(e, t)
          BY <4>2 DEF Replacing
        <5>3. Expects(x.service) \/ Replaces(t)
          BY <3>6 DEF ViewsRevoked, Revoking
        <5>4. QED
          BY <1>7, <1>8, <5>1, <5>2, <5>3 DEF Expects, Replaces
      <4>3. QED
        BY <4>1, <4>2
    <3>7. ViewsRevoked'
      BY <1>5, <2>1, <3>6 DEF ViewsRevoked
    <3>8. QED
      BY <1>2, <3>5, <3>7 DEF Revoking
  <2>4. QED
    BY <2>2, <2>3
<1>12. CASE LookUp(e)
  <2> DEFINE pinned == {Pinned(x) : x \in {y \in handler[e].grant : ~Malformed(y)}}
             k == [handler[e] EXCEPT !.pc = "gateway", !.grant = pinned]
  <2>1. UNCHANGED view /\ handler[e].pc = "lookup"
    BY <1>12 DEF LookUp
  <2>2. \A s : ~Expected(e, s)
    BY <2>1 DEF Expected
  <2>3. handler[e].pc \in Computing
    BY <2>1 DEF Computing
  <2>4. CASE handler[e].action = "apply" /\ \E x \in handler[e].grant : Malformed(x)
    <3>1. handler'[e].pc = "idle"
      BY <1>12, <1>i, <2>4 DEF LookUp, End, Typed
    <3>2. \A t \in Targets : ~Replacing(e, t)
      BY <2>4 DEF Replacing
    <3>3. handler'[e].pc \notin Computing
      BY <3>1 DEF Computing
    <3>4. QED
      BY <1>9, <2>1, <2>2, <3>2, <3>3
  <2>5. CASE ~(handler[e].action = "apply" /\ \E x \in handler[e].grant : Malformed(x))
    <3>1. handler'[e] = k
      BY <1>12, <2>5 DEF LookUp, Typed
    <3>2. k.pc = "gateway" /\ k.grant = pinned /\ k.action = handler[e].action
      BY <1>3 DEF Handlings
    <3>3. \A x \in handler[e].grant : Pinned(x).service = x.service
      BY <1>3, PinnedTyped DEF Handlings, Typed
    <3>4. \A x \in pinned : \E y \in handler[e].grant : y.service = x.service
      BY <3>3
    <3> HIDE DEF k, pinned
    <3>5. ASSUME NEW t \in Targets, Replacing(e, t) PROVE Replaces(t)'
      <4>1. Replacing(e, t)'
        BY <3>1, <3>2, <3>5 DEF Replacing
      <4>2. QED
        BY <4>1 DEF Replaces
    <3>6. QED
      BY <1>9, <2>1, <2>2, <2>3, <3>1, <3>2, <3>4, <3>5
  <2>6. QED
    BY <2>4, <2>5
<1>13. ~HandlingFails(e)
  BY DEF HandlingFails
<1>14. ASSUME handler[e].pc \in {"gateway", "partner"}
       PROVE  /\ \A s : Expects(s) => Expects(s)'
              /\ \A x \in handler[e].grant : Stale(x) => Expects(x.service)'
  <2>1. \A s : ~Expected(e, s)
    BY <1>14 DEF Expected
  <2>2. \A s : Expects(s) => Expects(s)'
    BY <1>7, <2>1 DEF Expects
  <2>3. handler[e].pc \in Computing
    BY <1>14 DEF Computing
  <2>4. QED
    BY <2>2, <2>3 DEF GrantsRevoked, Revoking
<1>15. ASSUME NEW t \in Targets, handler[e].pc \in {"gateway", "partner"},
              \A u \in Targets : view'[u] = IF u = t THEN handler[e].grant ELSE view[u],
              \A u \in Targets : u # t /\ Replacing(e, u) => Replaces(u)',
              handler'[e].pc \in Computing => handler'[e].grant = handler[e].grant
       PROVE  Revoking'
  <2>1. ASSUME NEW u \in Targets, NEW x \in view'[u], Stale(x)
        PROVE  Expects(x.service)' \/ Replaces(u)'
    <3>1. CASE u = t
      BY <1>14, <1>15, <2>1, <3>1
    <3>2. CASE u # t
      <4>1. x \in view[u]
        BY <1>15, <2>1, <3>2
      <4>2. Expects(x.service) \/ Replaces(u)
        BY <2>1, <4>1 DEF ViewsRevoked, Revoking
      <4>3. Replaces(u) => Replaces(u)'
        BY <1>8, <1>15, <3>2 DEF Replaces
      <4>4. QED
        BY <1>14, <1>15, <4>2, <4>3
    <3>3. QED
      BY <3>1, <3>2
  <2>2. ViewsRevoked'
    BY <1>5, <2>1 DEF ViewsRevoked
  <2>3. ASSUME NEW f \in Handlers, handler'[f].pc \in Computing,
               NEW x \in handler'[f].grant, Stale(x)
        PROVE  Expects(x.service)'
    <3>1. CASE f = e
      BY <1>14, <1>15, <2>3, <3>1
    <3>2. CASE f # e
      BY <1>4, <1>14, <1>15, <2>3, <3>2 DEF GrantsRevoked, Revoking
    <3>3. QED
      BY <3>1, <3>2
  <2>4. GrantsRevoked'
    BY <1>5, <2>3 DEF GrantsRevoked
  <2>5. QED
    BY <1>2, <2>2, <2>4 DEF Revoking
<1>16. CASE PublishToGateway(e)
  <2> DEFINE k == [handler[e] EXCEPT !.pc = "partner"]
  <2>1. handler'[e] = k /\ handler[e].pc = "gateway"
    BY <1>16 DEF PublishToGateway, Typed
  <2>2. k.pc = "partner" /\ k.grant = handler[e].grant /\ k.action = handler[e].action
    BY <1>3 DEF Handlings
  <2> HIDE DEF k
  <2>3. \A u \in Targets : view'[u] = IF u = "gateway" THEN handler[e].grant ELSE view[u]
    BY <1>16 DEF PublishToGateway, Targets
  <2>4. ASSUME NEW u \in Targets, u # "gateway", Replacing(e, u) PROVE Replaces(u)'
    <3>1. u = "partner" /\ handler[e].action = "delete"
      BY <2>4 DEF Targets, Replacing
    <3>2. Replacing(e, u)'
      BY <2>1, <2>2, <3>1 DEF Replacing
    <3>3. QED
      BY <3>2 DEF Replaces
  <2>5. "gateway" \in Targets
    BY DEF Targets
  <2>6. QED
    BY <1>15, <2>1, <2>2, <2>3, <2>4, <2>5
<1>17. CASE CallBack(e)
  <2>1. handler'[e] = IdleHandler /\ handler[e].pc = "partner"
    BY <1>17 DEF CallBack, End, Typed
  <2>2. \A u \in Targets : view'[u] = IF u = "partner" THEN handler[e].grant ELSE view[u]
    BY <1>17 DEF CallBack, Targets
  <2>3. \A u \in Targets : u # "partner" => ~Replacing(e, u)
    BY <2>1 DEF Replacing
  <2>4. handler'[e].pc \notin Computing /\ "partner" \in Targets
    BY <1>i, <2>1 DEF Computing, Targets
  <2>5. QED
    BY <1>15, <2>1, <2>2, <2>3, <2>4
<1>18. QED
  BY <1>10, <1>11, <1>12, <1>13, <1>16, <1>17 DEF Handling

(* Only legacy connections are granted, and they are approved.             *)
LEMMA InitRevoking == Init => Revoking
<1> SUFFICES ASSUME Init PROVE Revoking
  OBVIOUS
<1>1. Typed
  BY InitTyped
<1>2. \A x \in reviewed : record[x.service].approved
  <2>1. \A s \in Legacy : record[s].approved
    BY AccessAssumption DEF Init, NoRecord
  <2>2. QED
    BY <2>1 DEF Init, Entry
<1>3. \A x \in reviewed : Pinned(x).service = x.service
  BY <1>1, PinnedTyped DEF Typed
<1>4. \A t \in Targets : \A x \in view[t] : ~Stale(x)
  <2>1. \A x \in reviewed : record[Pinned(x).service].approved
    BY <1>2, <1>3
  <2>2. \A t \in Targets : view[t] = {Pinned(x) : x \in reviewed}
    BY DEF Init
  <2>3. QED
    BY <2>1, <2>2 DEF Stale
<1>5. GrantsRevoked
  BY DEF Init, GrantsRevoked, IdleHandler, Computing
<1>6. Creating
  BY DEF Init, Creating, IdleSubmission
<1>7. QED
  BY <1>4, <1>5, <1>6 DEF Revoking, ViewsRevoked

(* Every step keeps it.                                                    *)
LEMMA NextKeepsRevoking ==
    ASSUME Reliable, Typed, Revoking, OneComputes, OneComputes',
           [Next]_vars, [WithdrawsTogether]_vars
    PROVE  Revoking'
<1>1. ASSUME NEW h \in Submitters, AccessRequest(h) PROVE Revoking'
  BY <1>1, RequestKeepsRevoking
<1>2. ASSUME NEW s \in Services, Organizations(s) PROVE Revoking'
  BY <1>2, OrganizationsKeepRevoking
<1>3. ASSUME NEW e \in Handlers, Handling(e) PROVE Revoking'
  BY <1>3, HandlingKeepsRevoking
<1>4. CASE UNCHANGED vars
  <2>1. UNCHANGED <<record, handler, view, submission>>
    BY <1>4 DEF vars
  <2>2. Creating'
    BY <2>1 DEF Creating, Revoking
  <2>3. QED
    BY <2>1, <2>2, SameKeepsRevoking DEF Revoking
<1>5. QED
  BY <1>1, <1>2, <1>3, <1>4 DEF Next

(* At rest, what the gateway and Common SSO hold of a connection that is not  *)
(* approved is nothing: not after a withdrawal, a change of scopes or version *)
(* that asks for approval anew, or a deletion that another request follows;  *)
(* with requests of several services that overlap each other, the decisions *)
(* and the events, and with events started in another order than posted.    *)
THEOREM WithdrawnRevoked ==
    ASSUME Reliable
    PROVE  Spec /\ []OneComputes /\ [][WithdrawsTogether]_vars => []WithdrawnIsRevoked
<1>1. Init => Revoking
  BY InitRevoking
<1>2. Typed /\ Revoking /\ OneComputes /\ OneComputes' /\ [Next]_vars
      /\ [WithdrawsTogether]_vars => Revoking'
  BY NextKeepsRevoking
<1>3. Revoking => WithdrawnIsRevoked
  <2> SUFFICES ASSUME Revoking, Quiet,
                      NEW t \in Targets, NEW x \in view[t], Stale(x)
               PROVE  FALSE
    BY DEF WithdrawnIsRevoked, Stale
  <2>1. \A e \in Handlers : handler[e].pc = "idle"
    BY DEF Quiet, IdleHandler
  <2>2. ~Expects(x.service)
    BY <2>1 DEF Expects, Expected
  <2>3. ~Replaces(t)
    BY <2>1 DEF Replaces, Replacing
  <2>4. QED
    BY <2>2, <2>3 DEF Revoking, ViewsRevoked
<1>4. Spec => []Typed
  BY TypedInvariant
<1>5. QED
  BY <1>1, <1>2, <1>3, <1>4, PTL DEF Spec
=============================================================================
