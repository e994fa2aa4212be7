-------------------------- MODULE CredentialProofs --------------------------
(***************************************************************************)
(* What is proved about Credential, for any requests, attempts, keys and     *)
(* faults: what each step may do, whose attempt is whose, types, approvals  *)
(* and keys.  CredentialEffectProofs goes on from here.                     *)
(***************************************************************************)
EXTENDS Credential, SequenceTheorems, FiniteSetTheorems, TLAPS

-----------------------------------------------------------------------------
(***************************************************************************)
(* Where a worker is.  Its list of steps is one that its program can have    *)
(* left: each step is followed by one that follows it in the program.  The   *)
(* proofs below look at the first step only.                                *)
(***************************************************************************)

First(todo) == IF todo = <<>> THEN "rest" ELSE Head(todo)

Step(w) == First(worker[w].todo)

Enables == Acl \/ OAuth

(* In the worker rec the step s is followed by t, or by nothing ("rest").     *)
Follows(rec, s, t) ==
    \/ /\ rec.kind \in {"collect", "issue"}
       /\ \/ s = "client" /\ OAuth /\ t = "consumer"
          \/ s = "consumer" /\ t = (IF OAuth THEN "row" ELSE "key")
          \/ s = "key" /\ ~OAuth /\ t = "row"
          \/ s = "row" /\ t = "sync"
          \/ s = "sync" /\ t = "access"
          \/ s = "access" /\ t = (IF rec.kind = "issue" THEN "consult" ELSE "link")
          \/ /\ s \in {"cleanRow", "cleanOwn"}
             /\ t = IF OAuth /\ rec.kind = "collect" THEN "unissue" ELSE "cleanKong"
          \/ /\ s = "cleanKong"
             /\ t = IF rec.kind = "collect" THEN "unissue"
                    ELSE IF OAuth THEN "cleanClient" ELSE "rest"
    \/ rec.kind = "issue" /\ OAuth /\ s = "cleanClient" /\ t = "rest"
    \/ rec.kind = "collect" /\ s = "link" /\ t = (IF env.approval THEN "rest" ELSE "details")
    \/ rec.kind = "collect" /\ ~env.approval /\ s = "complete" /\ t = "rest"
    \/ /\ rec.kind \in {"collect", "nested", "issue", "approve"}
       /\ rec.kind \in {"collect", "nested"} => ~env.approval
       /\ \/ /\ s = (IF rec.kind = "issue" THEN "consult" ELSE "details")
             /\ t = IF Enables THEN "enable" ELSE "activate"
          \/ s = "enable" /\ Enables /\ t = "activate"
          \/ s = "activate" /\ t = "resync"
          \/ s = "resync" /\ t = (IF rec.kind = "collect" THEN "complete" ELSE "rest")
    \/ rec.kind \in {"approve", "reject"} /\ s = "write" /\ t \in {"details", "rest"}
    \/ rec.kind = "reject" /\ s = "details" /\ t = "rest"
    \/ /\ rec.kind \in {"collect", "nested", "approve", "reject"}
       /\ s = "unissue"
       /\ t = "rest" \/ (rec.kind = "nested" /\ t = "unissue")
    \/ /\ rec.kind = "renew" /\ ~OAuth
       /\ \/ s = "locate" /\ t = "unkey"
          \/ s = "unkey" /\ t = "newkey"
          \/ s = "newkey" /\ t = "relink"
    \/ /\ rec.kind = "renew" /\ OAuth
       /\ \/ s = "find" /\ t = "put"
          \/ s = "put" /\ t \in {"relink", "rest"}
    \/ rec.kind = "renew" /\ s = "relink" /\ t = "rest"
    \/ /\ rec.kind \in {"issue", "reject", "revoke"}
       /\ \/ /\ s \in {"svc", "unaccess"}
             /\ t = "rest" \/ (rec.kind = "reject" /\ t = "unissue")
          \/ s = "unrequest" /\ t = (IF rec.consumer # None THEN "unrow" ELSE "unaccess")
          \/ s = "unrow" /\ t = "unkong"
          \/ s = "unkong" /\ t = (IF OAuth THEN "unclient" ELSE "unaccess")
          \/ s = "unclient" /\ OAuth /\ t = "unaccess"

(* The steps of todo follow each other, from s on, and then comes t.          *)
Path(rec, todo, s, t) ==
    /\ todo \in Seq(Steps)
    /\ s = IF todo = <<>> THEN t ELSE Head(todo)
    /\ \A i \in 1..Len(todo) :
          Follows(rec, todo[i], IF i < Len(todo) THEN todo[i + 1] ELSE t)

Chained(rec, todo) == Path(rec, todo, First(todo), "rest")

(* What is left after the first step is chained, and follows that step.       *)
LEMMA TailChained ==
    ASSUME NEW rec, NEW todo, Chained(rec, todo), todo # <<>>
    PROVE  Chained(rec, Tail(todo)) /\ Follows(rec, Head(todo), First(Tail(todo)))
<1>1. /\ todo \in Seq(Steps) /\ Len(todo) \in Nat \ {0}
      /\ Head(todo) = todo[1] /\ Tail(todo) \in Seq(Steps)
      /\ Len(Tail(todo)) = Len(todo) - 1
      /\ \A i \in 1..Len(Tail(todo)) : Tail(todo)[i] = todo[i + 1]
  BY HeadTailProperties, EmptySeq DEF Chained, Path, First
<1>2. ASSUME NEW i \in 1..Len(Tail(todo))
      PROVE  Follows(rec, Tail(todo)[i],
                     IF i < Len(Tail(todo)) THEN Tail(todo)[i + 1] ELSE "rest")
  <2>1. i + 1 \in 1..Len(todo)
    BY <1>1
  <2>2. Follows(rec, todo[i + 1], IF i + 1 < Len(todo) THEN todo[(i + 1) + 1] ELSE "rest")
    BY <2>1 DEF Chained, Path, First
  <2>3. i < Len(Tail(todo)) <=> i + 1 < Len(todo)
    BY <1>1
  <2>4. i < Len(Tail(todo)) => Tail(todo)[i + 1] = todo[(i + 1) + 1]
    BY <1>1
  <2>5. Tail(todo)[i] = todo[i + 1]
    BY <1>1
  <2>6. QED
    BY <2>2, <2>3, <2>4, <2>5
<1>3. First(Tail(todo)) = IF 1 < Len(todo) THEN todo[1 + 1] ELSE "rest"
  <2>1. PICK left : left = Tail(todo)
    OBVIOUS
  <2>2. left \in Seq(Steps) /\ (left = <<>> <=> Len(left) = 0)
    BY <1>1, <2>1, EmptySeq
  <2>3. left # <<>> => Head(left) = left[1]
    OBVIOUS
  <2>4. Len(left) = Len(todo) - 1 /\ (1 < Len(todo) => left[1] = todo[1 + 1])
    BY <1>1, <2>1
  <2>5. QED
    BY <1>1, <2>1, <2>2, <2>3, <2>4 DEF First
<1>4. Follows(rec, todo[1], IF 1 < Len(todo) THEN todo[1 + 1] ELSE "rest")
  BY <1>1 DEF Chained, Path, First
<1>5. QED
  BY <1>1, <1>2, <1>3, <1>4 DEF Chained, Path, First

(* Two paths make one.                                                      *)
LEMMA JoinPaths ==
    ASSUME NEW rec, NEW s, NEW u, NEW t, NEW before, NEW todo,
           Path(rec, before, s, u), Path(rec, todo, u, t)
    PROVE  Path(rec, before \o todo, s, t)
<1>1. todo \in Seq(Steps) /\ before \in Seq(Steps)
  BY DEF Path
<1> DEFINE new == before \o todo
<1>2. /\ new \in Seq(Steps) /\ Len(new) = Len(before) + Len(todo)
      /\ Len(todo) \in Nat /\ Len(before) \in Nat
      /\ \A i \in 1..Len(before) : new[i] = before[i]
      /\ \A i \in 1..Len(todo) : new[Len(before) + i] = todo[i]
  BY <1>1, ConcatProperties, EmptySeq
<1> HIDE DEF new
<1>3. /\ new = <<>> <=> Len(new) = 0
      /\ todo = <<>> <=> Len(todo) = 0
      /\ before = <<>> <=> Len(before) = 0
      /\ new # <<>> => Head(new) = new[1]
      /\ todo # <<>> => Head(todo) = todo[1]
      /\ before # <<>> => Head(before) = before[1]
  BY <1>1, <1>2, EmptySeq
<1>4. s = IF new = <<>> THEN t ELSE Head(new)
  <2>1. CASE before = <<>>
    <3>1. s = u /\ Len(new) = Len(todo) /\ (Len(todo) > 0 => new[1] = todo[1])
      BY <1>2, <1>3, <2>1 DEF Path
    <3>2. QED
      BY <1>2, <1>3, <3>1 DEF Path
  <2>2. CASE before # <<>>
    BY <1>2, <1>3, <2>2 DEF Path
  <2>3. QED
    BY <2>1, <2>2
<1>5. ASSUME NEW i \in 1..Len(new)
      PROVE  Follows(rec, new[i], IF i < Len(new) THEN new[i + 1] ELSE t)
  <2>1. CASE i < Len(before)
    <3>1. Follows(rec, before[i], before[i + 1])
      BY <1>2, <2>1 DEF Path
    <3>2. QED
      BY <1>2, <2>1, <3>1
  <2>2. CASE i = Len(before)
    <3>1. Follows(rec, before[i], u)
      BY <1>2, <2>2 DEF Path
    <3>2. u = IF i < Len(new) THEN new[i + 1] ELSE t
      BY <1>2, <1>3, <2>2 DEF Path
    <3>3. QED
      BY <1>2, <2>2, <3>1, <3>2
  <2>3. CASE i > Len(before)
    <3> DEFINE j == i - Len(before)
    <3>1. j \in 1..Len(todo) /\ i = Len(before) + j
      BY <1>2, <2>3
    <3> HIDE DEF j
    <3>2. Follows(rec, todo[j], IF j < Len(todo) THEN todo[j + 1] ELSE t)
      BY <3>1 DEF Path
    <3>3. j < Len(todo) <=> i < Len(new)
      BY <1>2, <3>1
    <3>4. j < Len(todo) => todo[j + 1] = new[i + 1]
      BY <1>2, <3>1
    <3>5. new[i] = todo[j]
      BY <1>2, <3>1
    <3>6. QED
      BY <3>2, <3>3, <3>4, <3>5
  <2>4. QED
    BY <1>2, <2>1, <2>2, <2>3
<1>6. QED
  BY <1>2, <1>4, <1>5 DEF Path, new

(* A path of no or few steps.                                               *)
LEMMA ShortPaths ==
    ASSUME NEW rec, NEW t
    PROVE  /\ Path(rec, <<>>, t, t)
           /\ \A s \in Steps : Follows(rec, s, t) => Path(rec, <<s>>, s, t)
           /\ \A s, u \in Steps : Follows(rec, s, u) /\ Follows(rec, u, t) =>
                Path(rec, <<s, u>>, s, t)
           /\ \A s, u, v \in Steps :
                Follows(rec, s, u) /\ Follows(rec, u, v) /\ Follows(rec, v, t) =>
                Path(rec, <<s, u, v>>, s, t)
BY DEF Path

(* The end of a path is known by its start.                                  *)
LEMMA PathChained ==
    ASSUME NEW rec, NEW todo, NEW s, Path(rec, todo, s, "rest")
    PROVE  Chained(rec, todo) /\ First(todo) = s
BY DEF Path, Chained, First

FirstOfSetup == IF Enables THEN "enable" ELSE "activate"

(* setupAuthorizationAndEnable is a path of every worker that runs it.      *)
LEMMA SetupPath ==
    ASSUME NEW rec, rec.kind \in {"collect", "nested", "issue", "approve"},
           rec.kind \in {"collect", "nested"} => ~env.approval
    PROVE  Path(rec, Setup, FirstOfSetup, IF rec.kind = "collect" THEN "complete" ELSE "rest")
<1> DEFINE t == IF rec.kind = "collect" THEN "complete" ELSE "rest"
<1>1. Path(rec, <<"activate", "resync">>, "activate", t)
  BY ShortPaths DEF Follows, Steps
<1> HIDE DEF t
<1>2. Enables => Path(rec, <<"enable">>, "enable", "activate")
  BY ShortPaths DEF Follows, Steps
<1>3. Path(rec, <<>>, "activate", "activate")
  BY ShortPaths
<1>4. Path(rec, IF Enables THEN <<"enable">> ELSE <<>>, FirstOfSetup, "activate")
  BY <1>2, <1>3 DEF FirstOfSetup
<1>5. Setup = (IF Enables THEN <<"enable">> ELSE <<>>) \o <<"activate", "resync">>
  BY DEF Setup, Enables
<1>6. QED
  BY <1>1, <1>4, <1>5, JoinPaths DEF t

(* The consumer of a worker matters when it goes on from "unrequest" only,    *)
(* and no step is followed by that one.                                     *)
LEMMA OtherConsumer ==
    ASSUME NEW rec, NEW new, new.kind = rec.kind, NEW todo, NEW s, NEW t,
           Path(rec, todo, s, t), s # "unrequest"
    PROVE  Path(new, todo, s, t)
<1>1. todo \in Seq(Steps) /\ Len(todo) \in Nat /\ (Len(todo) > 0 => todo[1] = s)
  BY EmptySeq DEF Path
<1>2. ASSUME NEW i \in 1..Len(todo)
      PROVE  Follows(new, todo[i], IF i < Len(todo) THEN todo[i + 1] ELSE t)
  <2>1. todo[i] # "unrequest"
    <3>1. CASE i = 1
      BY <1>1, <3>1
    <3>2. CASE i # 1
      <4> DEFINE j == i - 1
      <4>1. j \in 1..Len(todo) /\ j < Len(todo) /\ j + 1 = i
        BY <1>1, <3>2
      <4> HIDE DEF j
      <4>2. Follows(rec, todo[j], todo[i])
        BY <4>1 DEF Path
      <4>3. QED
        BY <4>2 DEF Follows
    <3>3. QED
      BY <3>1, <3>2
  <2>2. Follows(rec, todo[i], IF i < Len(todo) THEN todo[i + 1] ELSE t)
    BY DEF Path
  <2>3. QED
    BY <2>1, <2>2 DEF Follows
<1>3. QED
  BY <1>2 DEF Path

-----------------------------------------------------------------------------
(* The programs are such paths.                                             *)

FirstOfMaking == IF OAuth THEN "client" ELSE "consumer"

(* So is the making of a credential, up to what each kind does with it,     *)
LEMMA MakingPath ==
    ASSUME NEW rec, rec.kind \in {"collect", "issue"}
    PROVE  Path(rec, Credentials, FirstOfMaking,
                IF rec.kind = "issue" THEN "consult" ELSE "link")
<1>1. CASE OAuth
  BY <1>1 DEF Credentials, FirstOfMaking, Path, Follows, Steps
<1>2. CASE ~OAuth
  BY <1>2 DEF Credentials, FirstOfMaking, Path, Follows, Steps
<1>3. QED
  BY <1>1, <1>2

(* and with it the whole of a collection,                                   *)
LEMMA CollectPath ==
    ASSUME NEW rec, rec.kind = "collect"
    PROVE  Path(rec, CollectSteps, FirstOfMaking, "rest")
<1> DEFINE t == IF env.approval THEN "rest" ELSE "details"
<1>1. Path(rec, Credentials \o <<"link">>, FirstOfMaking, t)
  <2>1. Path(rec, <<"link">>, "link", t)
    BY ShortPaths DEF Follows, Steps
  <2>2. QED
    BY <2>1, MakingPath, JoinPaths
<1>2. CASE env.approval
  <2>1. Path(rec, <<>>, t, "rest")
    BY <1>2, ShortPaths
  <2> HIDE DEF t
  <2>2. QED
    BY <1>1, <1>2, <2>1, JoinPaths DEF CollectSteps
<1>3. CASE ~env.approval
  <2>1. Path(rec, <<"details">>, t, FirstOfSetup)
    BY <1>3, ShortPaths DEF Follows, Steps, FirstOfSetup
  <2>2. Path(rec, Setup, FirstOfSetup, "complete")
    BY <1>3, SetupPath
  <2>3. Path(rec, <<"complete">>, "complete", "rest")
    BY <1>3, ShortPaths DEF Follows, Steps
  <2> HIDE DEF t
  <2>4. Path(rec, <<"details">> \o Setup \o <<"complete">>, t, "rest")
    BY <2>1, <2>2, <2>3, JoinPaths
  <2>5. QED
    BY <1>1, <1>3, <2>4, JoinPaths DEF CollectSteps
<1>4. QED
  BY <1>2, <1>3

(* the whole of a gateway's issuance,                                       *)
LEMMA IssuePath ==
    ASSUME NEW rec, rec.kind = "issue"
    PROVE  Path(rec, IssueSteps, FirstOfMaking, "rest")
<1>1. Path(rec, Credentials, FirstOfMaking, "consult")
  BY MakingPath
<1>2. Path(rec, <<"consult">>, "consult", FirstOfSetup)
  BY ShortPaths DEF Follows, Steps, FirstOfSetup
<1>3. Path(rec, Setup, FirstOfSetup, "rest")
  BY SetupPath
<1>4. QED
  BY <1>1, <1>2, <1>3, JoinPaths DEF IssueSteps

(* The update that is written, and what comes with it.                       *)
LEMMA UpdatePaths ==
    ASSUME NEW rec, NEW open \in BOOLEAN
    PROVE  /\ rec.kind = "approve" \/ (rec.kind = "nested" /\ ~env.approval) =>
                 Path(rec, IF open THEN <<"details">> \o Setup ELSE <<>>,
                      IF open THEN "details" ELSE "rest", "rest")
           /\ rec.kind = "approve" =>
                 Path(rec, <<"write">> \o (IF open THEN <<"details">> \o Setup ELSE <<>>),
                      "write", "rest")
           /\ rec.kind = "reject" =>
                 Path(rec, <<"write">> \o (IF open THEN <<"details">> ELSE <<>>),
                      "write", "rest")
<1> DEFINE t == IF open THEN "details" ELSE "rest"
<1>0. Path(rec, <<>>, "rest", "rest")
  BY ShortPaths
<1>1. ASSUME rec.kind = "approve" \/ (rec.kind = "nested" /\ ~env.approval)
      PROVE  Path(rec, IF open THEN <<"details">> \o Setup ELSE <<>>, t, "rest")
  <2>1. Path(rec, <<"details">>, "details", FirstOfSetup)
    BY <1>1, ShortPaths DEF Follows, Steps, FirstOfSetup
  <2>2. Path(rec, Setup, FirstOfSetup, "rest")
    BY <1>1, SetupPath
  <2>3. Path(rec, <<"details">> \o Setup, "details", "rest")
    BY <2>1, <2>2, JoinPaths
  <2>4. QED
    BY <1>0, <2>3
<1>2. rec.kind = "reject" => Path(rec, IF open THEN <<"details">> ELSE <<>>, t, "rest")
  <2>1. rec.kind = "reject" => Path(rec, <<"details">>, "details", "rest")
    BY ShortPaths DEF Follows, Steps
  <2>2. QED
    BY <1>0, <2>1
<1>3. rec.kind \in {"approve", "reject"} => Path(rec, <<"write">>, "write", t)
  BY ShortPaths DEF Follows, Steps
<1> HIDE DEF t
<1>4. QED
  BY <1>1, <1>2, <1>3, JoinPaths DEF t

(* each of the renewals,                                                    *)
LEMMA RenewPaths ==
    ASSUME NEW rec, rec.kind = "renew", NEW steps \in RenewSteps
    PROVE  Path(rec, steps, IF OAuth THEN "find" ELSE "locate", "rest")
<1>1. CASE OAuth
  BY <1>1, ShortPaths DEF RenewSteps, Follows, Steps
<1>2. CASE ~OAuth
  <2>1. Path(rec, ReplaceApiKey, "locate", "relink") /\ Path(rec, <<"relink">>, "relink", "rest")
    BY <1>2, ShortPaths DEF ReplaceApiKey, Follows, Steps
  <2>2. steps = ReplaceApiKey \o <<"relink">>
    BY <1>2 DEF RenewSteps
  <2>3. QED
    BY <1>2, <2>1, <2>2, JoinPaths
<1>3. QED
  BY <1>1, <1>2

(* a deletion, before whatever its worker does after it,                    *)
LEMMA DeletePath ==
    ASSUME NEW rec, rec.kind \in {"issue", "reject", "revoke"},
           NEW t, Follows(rec, "unaccess", t)
    PROVE  Path(rec, DeleteSteps(rec.consumer # None), "unrequest", t)
<1> DEFINE full == rec.consumer # None
           s == IF full THEN IF OAuth THEN "unclient" ELSE "unaccess" ELSE "unaccess"
           u == IF full THEN "unrow" ELSE "unaccess"
<1>1. Path(rec, <<"unrequest">>, "unrequest", u)
  BY ShortPaths DEF Follows, Steps, Deleting
<1>2. Path(rec, IF full THEN <<"unrow", "unkong">> ELSE <<>>, u, s)
  <2>1. CASE full
    BY <2>1, ShortPaths DEF Follows, Steps, Deleting
  <2>2. CASE ~full
    BY <2>2, ShortPaths
  <2>3. QED
    BY <2>1, <2>2
<1>3. Path(rec, IF full /\ OAuth THEN <<"unclient">> ELSE <<>>, s, "unaccess")
  <2>1. CASE full /\ OAuth
    BY <2>1, ShortPaths DEF Follows, Steps, Deleting
  <2>2. CASE ~(full /\ OAuth)
    BY <2>2, ShortPaths
  <2>3. QED
    BY <2>1, <2>2
<1>4. Path(rec, <<"unaccess">>, "unaccess", t)
  BY ShortPaths DEF Follows, Steps, Deleting
<1> HIDE DEF full, s, u
<1>5. Path(rec, DeleteSteps(full), "unrequest", t)
  BY <1>1, <1>2, <1>3, <1>4, JoinPaths DEF DeleteSteps
<1>6. QED
  BY <1>5 DEF full

-----------------------------------------------------------------------------
(* So is what a `catch' does.                                               *)

FirstOfRecovery(kind, s) ==
    CASE kind = "renew" -> "rest"
      [] kind = "issue" ->
            CASE s = "client" -> "rest"
              [] s = "consumer" -> IF OAuth THEN "cleanClient" ELSE "rest"
              [] s \in {"key", "row"} -> "cleanRow"
              [] s \in {"sync", "access"} -> "cleanOwn"
              [] OTHER -> "svc"
      [] kind = "collect" ->
            CASE s \in {"key", "row"} -> "cleanRow"
              [] s = "sync" /\ OAuth -> "cleanOwn"
              [] OTHER -> "unissue"
      [] OTHER -> IF kind # "nested" /\ s = "write" THEN "rest" ELSE "unissue"

Attempted == {"client", "consumer", "key", "row", "sync", "access", "link", "write",
              "complete", "details", "consult", "enable", "resync",
              "locate", "unkey", "newkey", "find", "put"}

(* and what a worker does once one of its calls has thrown.                 *)
LEMMA RecoveryPath ==
    ASSUME NEW rec, NEW s \in Attempted, NEW t, Follows(rec, s, t)
    PROVE  Path(rec, Recovery(rec.kind, s), FirstOfRecovery(rec.kind, s), "rest")
<1> USE DEF Follows, Steps, Deleting
<1>1. CASE rec.kind = "renew"
  BY <1>1, ShortPaths DEF Recovery, FirstOfRecovery
<1>2. CASE rec.kind = "issue"
  <2>1. Path(rec, IF OAuth THEN <<"cleanClient">> ELSE <<>>,
             IF OAuth THEN "cleanClient" ELSE "rest", "rest")
    BY <1>2, ShortPaths
  <2>2. /\ Path(rec, <<"cleanRow", "cleanKong">>, "cleanRow",
                 IF OAuth THEN "cleanClient" ELSE "rest")
        /\ Path(rec, <<"cleanOwn", "cleanKong">>, "cleanOwn",
                 IF OAuth THEN "cleanClient" ELSE "rest")
        /\ Path(rec, <<"svc">>, "svc", "rest")
        /\ Path(rec, <<>>, "rest", "rest")
    BY <1>2, ShortPaths
  <2>3. s \in Range(Credentials) <=>
            s \in {"client", "consumer", "key", "row", "sync", "access"}
    BY <1>2 DEF Range, Credentials, Attempted
  <2>4. s \in {"client", "consumer", "key", "row", "sync", "access", "consult", "enable",
               "resync"}
    BY <1>2 DEF Attempted
  <2>5. QED
    BY <1>2, <2>1, <2>2, <2>3, <2>4, JoinPaths DEF Recovery, FirstOfRecovery, CleanUp
<1>3. CASE rec.kind = "collect"
  <2>1. Path(rec, TakeBack, "unissue", "rest")
    BY <1>3, ShortPaths DEF TakeBack
  <2>2. /\ OAuth => Path(rec, <<"cleanRow">>, "cleanRow", "unissue")
        /\ OAuth => Path(rec, <<"cleanOwn">>, "cleanOwn", "unissue")
        /\ ~OAuth => Path(rec, <<"cleanRow", "cleanKong">>, "cleanRow", "unissue")
        /\ Path(rec, <<>>, "unissue", "unissue")
    BY <1>3, ShortPaths
  <2>3. s = "key" => ~OAuth
    BY <1>3
  <2>4. Path(rec, CollectCleanUp(s), FirstOfRecovery("collect", s), "unissue")
    BY <2>2, <2>3 DEF CollectCleanUp, FirstOfRecovery
  <2>5. QED
    BY <1>3, <2>1, <2>4, JoinPaths DEF Recovery
<1>4. CASE rec.kind = "nested"
  <2>1. /\ Path(rec, TakeBack, "unissue", "unissue")
        /\ Path(rec, TakeBack, "unissue", "rest")
    BY <1>4, ShortPaths DEF TakeBack
  <2>2. QED
    BY <1>4, <2>1, JoinPaths DEF Recovery, FirstOfRecovery
<1>5. CASE rec.kind \in {"approve", "reject"}
  <2>1. Path(rec, TakeBack, "unissue", "rest") /\ Path(rec, <<>>, "rest", "rest")
    BY <1>5, ShortPaths DEF TakeBack
  <2>2. QED
    BY <1>5, <2>1 DEF Recovery, FirstOfRecovery
<1>6. QED
  BY <1>1, <1>2, <1>3, <1>4, <1>5 DEF Attempted

-----------------------------------------------------------------------------
(***************************************************************************)
(* Types.                                                                   *)
(***************************************************************************)

Recs == [kind : Programs, req : Requests \cup {None}, id : Ids \cup {None},
         consumer : Ids \cup {None}, key : Keys \cup {None}, seen : BOOLEAN,
         todo : Seq(Steps)]

(* What a worker that is at the step s carries.                              *)
Carries(rec, s) ==
    /\ rec.kind \in {"collect", "nested", "approve", "reject"} => rec.req \in Requests
    /\ rec.kind \in {"collect", "issue", "renew", "revoke"} => rec.id \in Ids
    /\ s \in {"enable", "activate", "resync"} \cup Deleting => rec.id \in Ids
    /\ s \in {"unkey", "newkey", "put"} => rec.consumer \in Ids

(* Every worker is in the middle of its program, or rests.                   *)
Programmed ==
    \A w \in Workers :
        /\ Chained(worker[w], worker[w].todo)
        /\ worker[w].todo = <<>> => worker[w] = Idle
        /\ Carries(worker[w], Step(w))

Remembered == history \in [justified : SUBSET (Ids \cup {None}), issued : SUBSET Ids,
                           astray : BOOLEAN, overlapped : BOOLEAN, dirty : BOOLEAN]

Typed == TypeOK /\ Programmed /\ Remembered

(* Worker w goes on as rec from the step t, or rests.                        *)
Moves(w, rec, t) ==
    \E todo : /\ Path(rec, todo, t, "rest")
              /\ worker' = [worker EXCEPT ![w] = IF todo = <<>> THEN Idle
                                                 ELSE [rec EXCEPT !.todo = todo]]

(* Paths are known from the environment, which stays what it is.              *)
LEMMA PathKept ==
    ASSUME UNCHANGED env, NEW rec, NEW todo, NEW s, NEW t
    PROVE  Path(rec, todo, s, t)' <=> Path(rec, todo, s, t)
<1>1. ASSUME NEW a, NEW b PROVE Follows(rec, a, b)' <=> Follows(rec, a, b)
  BY DEF Follows, OAuth, Enables, Acl
<1>2. QED
  BY <1>1 DEF Path, Steps, Deleting

(* What a move says of the other workers, and of this one.                  *)
LEMMA MovesTo ==
    ASSUME worker \in [Workers -> Recs], NEW w \in Workers, NEW rec \in Recs, NEW t,
           Moves(w, rec, t)
    PROVE  /\ worker' \in [Workers -> Recs]
           /\ \A v \in Workers \ {w} : worker'[v] = worker[v] /\ Step(v)' = Step(v)
           /\ Step(w)' = t
           /\ t = "rest" => worker'[w] = Idle
           /\ t # "rest" =>
                 /\ t \in Steps
                 /\ worker'[w].kind = rec.kind /\ worker'[w].req = rec.req
                 /\ worker'[w].id = rec.id /\ worker'[w].consumer = rec.consumer
                 /\ worker'[w].key = rec.key /\ worker'[w].seen = rec.seen
           /\ \E todo : Path(rec, todo, t, "rest") /\ worker'[w].todo = todo
                       /\ (todo = <<>> <=> t = "rest")
<1>1. PICK todo :
        /\ Path(rec, todo, t, "rest")
        /\ worker' = [worker EXCEPT ![w] = IF todo = <<>> THEN Idle
                                           ELSE [rec EXCEPT !.todo = todo]]
  BY DEF Moves
<1>2. /\ todo \in Seq(Steps) /\ First(todo) = t
      /\ todo # <<>> => Head(todo) \in Steps
      /\ "rest" \notin Steps
  <2>1. todo \in Seq(Steps) /\ First(todo) = t
    BY <1>1, PathChained DEF Path
  <2>2. todo # <<>> => Head(todo) \in Steps
    BY <2>1, HeadTailProperties
  <2>3. QED
    BY <2>1, <2>2 DEF Steps, Deleting
<1>3. (todo = <<>> <=> t = "rest") /\ (t # "rest" => t \in Steps)
  BY <1>2 DEF First
<1>4. Idle \in Recs /\ Idle.todo = <<>>
  BY DEF Idle, Recs, Programs, None
<1>5. /\ worker' \in [Workers -> Recs]
      /\ \A v \in Workers \ {w} : worker'[v] = worker[v]
      /\ worker'[w] = IF todo = <<>> THEN Idle ELSE [rec EXCEPT !.todo = todo]
  BY <1>1, <1>2, <1>4 DEF Recs
<1>6. worker'[w].todo = todo
  BY <1>4, <1>5 DEF Recs
<1>7. t # "rest" =>
         /\ worker'[w].kind = rec.kind /\ worker'[w].req = rec.req
         /\ worker'[w].id = rec.id /\ worker'[w].consumer = rec.consumer
         /\ worker'[w].key = rec.key /\ worker'[w].seen = rec.seen
  BY <1>3, <1>5 DEF Recs
<1>8. QED
  BY <1>1, <1>2, <1>3, <1>5, <1>6, <1>7 DEF Step

(* After a move of one worker every worker is still in its program.         *)
LEMMA MovesProgrammed ==
    ASSUME Typed, NEW w \in Workers, NEW rec \in Recs, NEW t, Moves(w, rec, t),
           UNCHANGED env, t # "rest" => Carries(rec, t)
    PROVE  Programmed' /\ worker' \in [Workers -> Recs]
<1>1. worker \in [Workers -> Recs]
  BY DEF Typed, TypeOK, Recs
<1>2. ASSUME NEW v \in Workers, v # w
      PROVE  /\ Chained(worker[v], worker[v].todo)'
             /\ worker'[v].todo = <<>> => worker'[v] = Idle
             /\ Carries(worker[v], Step(v))'
  <2>1. worker'[v] = worker[v] /\ Step(v)' = Step(v)
    BY <1>1, <1>2, MovesTo
  <2>2. PICK r, s : r = worker[v] /\ s = Step(v)
    OBVIOUS
  <2>3. Chained(r, r.todo) /\ (r.todo = <<>> => r = Idle) /\ Carries(r, s)
    BY <2>2 DEF Typed, Programmed
  <2>4. Chained(r, r.todo)'
    BY <2>3, PathKept DEF Chained, First
  <2>5. QED
    BY <2>1, <2>2, <2>3, <2>4 DEF Carries
<1>3. /\ Chained(worker[w], worker[w].todo)'
      /\ worker'[w].todo = <<>> => worker'[w] = Idle
      /\ Carries(worker[w], Step(w))'
  <2>1. PICK todo : /\ Path(rec, todo, t, "rest") /\ worker'[w].todo = todo
                    /\ (todo = <<>> <=> t = "rest")
    BY <1>1, MovesTo
  <2>2. PICK r : r = worker'[w]
    OBVIOUS
  <2>3. CASE t = "rest"
    <3>1. r = Idle
      BY <1>1, <2>2, <2>3, MovesTo
    <3>2. Chained(r, todo)'
      BY <2>1, <2>3, ShortPaths, PathKept DEF Chained, First
    <3>3. Step(w)' = "rest"
      BY <1>1, <2>3, MovesTo
    <3>4. Carries(Idle, "rest")
      BY DEF Carries, Idle, Deleting
    <3>5. QED
      BY <2>1, <2>2, <3>1, <3>2, <3>3, <3>4 DEF Carries
  <2>4. CASE t # "rest"
    <3>1. /\ r.kind = rec.kind /\ r.consumer = rec.consumer /\ r.req = rec.req
          /\ r.id = rec.id /\ Step(w)' = t
      BY <1>1, <2>2, <2>4, MovesTo
    <3>2. Path(r, todo, t, "rest")
      BY <2>1, <3>1 DEF Path, Follows
    <3>3. Chained(r, todo)'
      BY <3>2, PathChained, PathKept DEF Chained, First
    <3>4. Carries(r, t)
      BY <2>4, <3>1 DEF Carries
    <3>5. QED
      BY <2>1, <2>2, <2>4, <3>1, <3>3, <3>4 DEF Carries
  <2>5. QED
    BY <2>3, <2>4
<1>4. QED
  BY <1>1, <1>2, <1>3, MovesTo DEF Programmed

(* Worker w has done s, which is not thrown, and goes on as rec.               *)
Went(w, rec, s) == \E t : Follows(worker[w], s, t) /\ Moves(w, rec, t)

(* A worker that does a step is at that step.                               *)
LEMMA DoingStep ==
    ASSUME NEW w, NEW s, Doing(w, s)
    PROVE  Step(w) = s
BY DEF Doing, Step, First

(* A worker that goes on with what is left went past its first step,        *)
LEMMA GoesOn ==
    ASSUME Typed, NEW w \in Workers, NEW s, Doing(w, s), NEW rec,
           rec.kind = worker[w].kind, Continue(w, rec, Rest(w))
    PROVE  Went(w, rec, s)
<1> DEFINE t == First(Rest(w))
<1>1. /\ Chained(worker[w], Rest(w)) /\ Follows(worker[w], s, t)
  <2>1. PICK r : r = worker[w]
    OBVIOUS
  <2>2. Chained(r, r.todo) /\ r.todo # <<>> /\ Head(r.todo) = s /\ Rest(w) = Tail(r.todo)
    BY <2>1 DEF Typed, Programmed, Doing, Rest
  <2>3. QED
    BY <2>1, <2>2, TailChained
<1> HIDE DEF t
<1>2. t # "unrequest" /\ Path(worker[w], Rest(w), t, "rest")
  BY <1>1 DEF Follows, Chained, t
<1>3. Path(rec, Rest(w), t, "rest")
  BY <1>2, OtherConsumer
<1>4. QED
  BY <1>1, <1>3 DEF Went, Moves, Continue

(* also when it remembers nothing new.                                      *)
LEMMA Proceeds ==
    ASSUME Typed, NEW w \in Workers, NEW s, Doing(w, s), Proceed(w)
    PROVE  Went(w, worker[w], s)
BY GoesOn DEF Proceed

(* A worker whose call threw is at the first step of its recovery.          *)
LEMMA Recovers ==
    ASSUME Typed, NEW w \in Workers, NEW s \in Attempted, Doing(w, s),
           Continue(w, worker[w], Recovery(worker[w].kind, s))
    PROVE  Moves(w, worker[w], FirstOfRecovery(worker[w].kind, s))
<1>1. PICK r : r = worker[w]
  OBVIOUS
<1>2. PICK t : Follows(r, s, t)
  BY <1>1, TailChained DEF Typed, Programmed, Doing
<1>3. Path(r, Recovery(r.kind, s), FirstOfRecovery(r.kind, s), "rest")
  BY <1>2, RecoveryPath
<1>4. QED
  BY <1>1, <1>3 DEF Moves, Continue

RequestsTyped == request \in [Requests -> [made : BOOLEAN, gone : BOOLEAN,
                     approved : BOOLEAN, issued : BOOLEAN, complete : BOOLEAN,
                     access : Ids \cup {None}]]

StoresTyped ==
    /\ stores \in [kong : Ids \cup {None}, acl : BOOLEAN,
                   keys : SUBSET Keys, key : Keys \cup {None},
                   client : Ids \cup {None}, enabled : BOOLEAN,
                   row : Ids \cup {None}, own : Ids \cup {None},
                   access : Ids \cup {None}, active : BOOLEAN]
    /\ stores.acl \/ stores.keys # {} => stores.kong # None
    /\ stores.enabled => stores.client # None
    /\ stores.active => stores.access # None
    /\ stores.own # None => stores.row # None

(* The parts of Typed.                                                      *)
LEMMA TypedParts ==
    Typed => /\ RequestsTyped /\ StoresTyped /\ Remembered /\ Programmed
             /\ worker \in [Workers -> Recs] /\ feed \in Ids \cup {None}
             /\ env \in [flow : Flows, approval : BOOLEAN]
             /\ nextId \in 1..(MaxIds + 1) /\ faults \in 0..MaxFaults
BY DEF Typed, TypeOK, RequestsTyped, StoresTyped, Recs

(* Typed holds after a move when what the move wrote is of its type.        *)
LEMMA TypedAfter ==
    ASSUME Typed, UNCHANGED env, NEW w \in Workers, NEW rec \in Recs, NEW t, Moves(w, rec, t),
           t # "rest" => Carries(rec, t), RequestsTyped', StoresTyped', Remembered',
           (feed \in Ids \cup {None})', (nextId \in 1..(MaxIds + 1))', (faults \in 0..MaxFaults)'
    PROVE  Typed'
BY MovesProgrammed DEF Typed, TypeOK, RequestsTyped, StoresTyped, Recs

(* A call that throws changes no store, and what follows is typed.            *)
LEMMA FailsTyped ==
    ASSUME Typed, NEW w \in Workers, NEW s \in Attempted, Doing(w, s),
           Continue(w, worker[w], Recovery(worker[w].kind, s)),
           (faults \in 0..MaxFaults)', UNCHANGED <<env, request, stores, feed, nextId, history>>
    PROVE  Typed'
<1> DEFINE t == FirstOfRecovery(worker[w].kind, s)
<1>1. Moves(w, worker[w], t) /\ worker[w] \in Recs
  BY Recovers, TypedParts
<1>2. t \in {"rest", "cleanClient", "cleanRow", "cleanOwn", "svc", "unissue"}
      /\ (t = "svc" => worker[w].kind = "issue")
  BY DEF FirstOfRecovery
<1>3. Carries(worker[w], Step(w))
  BY TypedParts DEF Programmed
<1> HIDE DEF t
<1>4. Carries(worker[w], t)
  BY <1>2, <1>3 DEF Carries, Deleting
<1>5. QED
  BY <1>1, <1>4, TypedAfter, TypedParts DEF RequestsTyped, StoresTyped, Remembered

(* A worker that goes on is typed when it carries what the steps to come     *)
(* need: the details are looked up and the consumer is located in between.   *)
LEMMA WentTyped ==
    ASSUME Typed, UNCHANGED env, NEW w \in Workers, NEW s, Step(w) = s, NEW rec \in Recs,
           Went(w, rec, s), rec.kind = worker[w].kind, rec.req = worker[w].req,
           rec.id = worker[w].id \/ rec.id \in Ids,
           s = "details" => rec.id \in Ids,
           s \in {"locate", "find"} => rec.consumer \in Ids,
           s = "unkey" => rec.consumer = worker[w].consumer,
           RequestsTyped', StoresTyped', Remembered',
           (feed \in Ids \cup {None})', (nextId \in 1..(MaxIds + 1))',
           (faults \in 0..MaxFaults)'
    PROVE  Typed'
<1>1. PICK t : Follows(worker[w], s, t) /\ Moves(w, rec, t)
  BY DEF Went
<1>2. Carries(worker[w], s)
  BY TypedParts DEF Programmed
<1>3. Carries(rec, t)
  BY <1>1, <1>2 DEF Carries, Follows, Deleting
<1>4. QED
  BY <1>1, <1>3, TypedAfter

(* What a worker that does its step s carries.                               *)
LEMMA AtStep ==
    ASSUME Typed, NEW w \in Workers, NEW s, Doing(w, s)
    PROVE  /\ Step(w) = s /\ worker[w] \in Recs /\ Carries(worker[w], s)
           /\ \E t : Follows(worker[w], s, t)
<1>1. Step(w) = s
  BY DoingStep
<1>2. worker[w] \in Recs /\ Carries(worker[w], s)
  BY <1>1, TypedParts DEF Programmed
<1>3. \E t : Follows(worker[w], s, t)
  <2>1. PICK r : r = worker[w]
    OBVIOUS
  <2>2. Chained(r, r.todo) /\ r.todo # <<>> /\ Head(r.todo) = s
    BY <2>1, TypedParts DEF Programmed, Doing
  <2>3. QED
    BY <2>1, <2>2, TailChained
<1>4. QED
  BY <1>1, <1>2, <1>3

(* The faults stay within their bound.                                      *)
LEMMA FaultsTyped ==
    ASSUME Typed, CredentialAssumption, NEW able, Fails(able) \/ UNCHANGED faults
    PROVE  (faults \in 0..MaxFaults)'
BY TypedParts DEF Fails, CredentialAssumption

(* The steps of a credential that only write to the stores.                  *)
LEMMA CallTyped ==
    ASSUME Typed, CredentialAssumption, NEW w \in Workers,
           NEW s \in Attempted \ {"details", "locate", "find"},
           NEW able, NEW new, Call(w, s, able, new),
           able /\ stores' = new => StoresTyped'
    PROVE  Typed'
<1>1. Doing(w, s) /\ UNCHANGED <<env, feed, nextId, request, history>>
  BY DEF Call, Attempt
<1>2. (faults \in 0..MaxFaults)'
  BY FaultsTyped DEF Call, Attempt
<1>3. CASE able /\ stores' = new /\ Proceed(w) /\ UNCHANGED faults
  <2>1. Went(w, worker[w], s) /\ Step(w) = s /\ worker[w] \in Recs
    BY <1>1, <1>3, Proceeds, AtStep
  <2>2. QED
    BY <1>1, <1>2, <1>3, <2>1, WentTyped, TypedParts DEF RequestsTyped, Remembered, Attempted
<1>4. CASE Continue(w, worker[w], Recovery(worker[w].kind, s)) /\ UNCHANGED stores
  BY <1>1, <1>2, <1>4, FailsTyped
<1>5. QED
  BY <1>3, <1>4 DEF Call, Attempt

(* The calls that make a credential keep the types,                         *)
LEMMA MakingTyped ==
    ASSUME Typed, CredentialAssumption, NEW w \in Workers,
           \/ RegisterClient(w) \/ CreateKongConsumer(w) \/ AddConsumerRow(w)
           \/ ForceSync(w) \/ AddServiceAccess(w) \/ PutClient(w)
    PROVE  Typed'
<1>0. StoresTyped /\ Own(w) \in Ids \cup {None} /\ None \notin Ids
  BY TypedParts DEF Recs, Own, Ids, None
<1>1. CASE RegisterClient(w)
  <2>1. Own(w) \in Ids
    BY <1>1, AtStep DEF RegisterClient, Call, Attempt, Carries, Own, Follows
  <2> DEFINE able == stores.client = None
             new == [stores EXCEPT !.client = Own(w), !.enabled = FALSE]
  <2>2. able /\ stores' = new => StoresTyped'
    BY <1>0, <2>1 DEF StoresTyped
  <2>3. Call(w, "client", able, new)
    BY <1>1 DEF RegisterClient
  <2> HIDE DEF able, new
  <2>4. QED
    BY <2>2, <2>3, CallTyped DEF Attempted
<1>2. CASE CreateKongConsumer(w)
  <2>1. Own(w) \in Ids
    BY <1>2, AtStep DEF CreateKongConsumer, Call, Attempt, Carries, Own, Follows
  <2> DEFINE able == stores.kong = None
             new == [stores EXCEPT !.kong = Own(w), !.acl = FALSE]
  <2>2. able /\ stores' = new => StoresTyped'
    BY <1>0, <2>1 DEF StoresTyped
  <2>3. Call(w, "consumer", able, new)
    BY <1>2 DEF CreateKongConsumer
  <2> HIDE DEF able, new
  <2>4. QED
    BY <2>2, <2>3, CallTyped DEF Attempted
<1>3. CASE AddConsumerRow(w)
  <2>1. Own(w) \in Ids
    BY <1>3, AtStep DEF AddConsumerRow, Call, Attempt, Carries, Own, Follows
  <2> DEFINE able == stores.row = None
             new == [stores EXCEPT !.row = Own(w), !.own = Own(w)]
  <2>2. able /\ stores' = new => StoresTyped'
    BY <1>0, <2>1 DEF StoresTyped
  <2>3. Call(w, "row", able, new)
    BY <1>3 DEF AddConsumerRow
  <2> HIDE DEF able, new
  <2>4. QED
    BY <2>2, <2>3, CallTyped DEF Attempted
<1>4. CASE ForceSync(w)
  <2>1. ASSUME NEW id, stores' = Synced(Found(id)) PROVE StoresTyped'
    BY <1>0, <2>1 DEF StoresTyped, Synced, Found
  <2>2. QED
    BY <1>4, <2>1, CallTyped DEF ForceSync, Attempted
<1>5. CASE AddServiceAccess(w)
  <2>1. Own(w) \in Ids /\ worker[w].key \in Keys \cup {None}
    BY <1>5, AtStep DEF AddServiceAccess, Call, Attempt, Carries, Own, Follows, Recs
  <2> DEFINE able == stores.access = None /\ stores.own = Own(w)
             new == [stores EXCEPT !.access = Own(w), !.active = FALSE, !.key = worker[w].key]
  <2>2. able /\ stores' = new => StoresTyped'
    <3> SUFFICES ASSUME stores' = new PROVE StoresTyped'
      OBVIOUS
    <3>1. /\ stores'.kong = stores.kong /\ stores'.acl = stores.acl
          /\ stores'.keys = stores.keys
          /\ stores'.client = stores.client /\ stores'.enabled = stores.enabled
          /\ stores'.row = stores.row /\ stores'.own = stores.own /\ ~stores'.active
      BY <1>0 DEF StoresTyped
    <3>2. stores' \in [kong : Ids \cup {None}, acl : BOOLEAN,
                       keys : SUBSET Keys, key : Keys \cup {None},
                       client : Ids \cup {None}, enabled : BOOLEAN,
                       row : Ids \cup {None}, own : Ids \cup {None},
                       access : Ids \cup {None}, active : BOOLEAN]
      BY <1>0, <2>1 DEF StoresTyped
    <3>3. QED
      BY <1>0, <3>1, <3>2 DEF StoresTyped
  <2>3. Call(w, "access", able, new)
    BY <1>5 DEF AddServiceAccess
  <2> HIDE DEF able, new
  <2>4. QED
    BY <2>2, <2>3, CallTyped DEF Attempted
<1>6. CASE PutClient(w)
  <2>1. worker[w].consumer \in Ids /\ worker[w].seen \in BOOLEAN
    BY <1>6, AtStep DEF PutClient, Call, Attempt, Carries, Recs
  <2> DEFINE able == stores.client = worker[w].consumer
             new == [stores EXCEPT !.enabled = worker[w].seen]
  <2>2. able /\ stores' = new => StoresTyped'
    BY <1>0, <2>1 DEF StoresTyped
  <2>3. Call(w, "put", able, new)
    BY <1>6 DEF PutClient
  <2> HIDE DEF able, new
  <2>4. QED
    BY <2>2, <2>3, CallTyped DEF Attempted
<1>7. QED
  BY <1>1, <1>2, <1>3, <1>4, <1>5, <1>6

(* The rest of a worker's steps is chained, and comes after the first one.    *)
LEMMA RestChained ==
    ASSUME Typed, NEW w \in Workers, NEW s, Doing(w, s)
    PROVE  /\ Chained(worker[w], Rest(w))
           /\ Follows(worker[w], s, First(Rest(w)))
<1>1. PICK r : r = worker[w]
  OBVIOUS
<1>2. Chained(r, r.todo) /\ r.todo # <<>> /\ Head(r.todo) = s /\ Rest(w) = Tail(r.todo)
  BY <1>1, TypedParts DEF Programmed, Doing, Rest
<1>3. QED
  BY <1>1, <1>2, TailChained

(* A deletion that is given up only leaves what follows a deletion.           *)
LEMMA Abandons ==
    ASSUME Typed, NEW w \in Workers, NEW s \in Deleting, Doing(w, s),
           Continue(w, worker[w], Abandoned(Rest(w)))
    PROVE  \/ Moves(w, worker[w], "rest")
           \/ Moves(w, worker[w], "unissue") /\ worker[w].kind = "reject"
<1>1. CASE "unissue" \in Range(Rest(w))
  <2>1. Chained(worker[w], Rest(w)) /\ Follows(worker[w], s, First(Rest(w)))
    BY RestChained
  <2>2. PICK i \in 1..Len(Rest(w)) : Rest(w)[i] = "unissue"
    BY <1>1, <2>1 DEF Range, Chained, Path
  <2>3. worker[w].kind \in {"collect", "nested", "approve", "reject"}
    BY <2>1, <2>2 DEF Chained, Path, Follows
  <2>4. worker[w].kind = "reject"
    BY <2>1, <2>3 DEF Follows, Deleting
  <2>5. Path(worker[w], TakeBack, "unissue", "rest")
    BY <2>4, ShortPaths DEF TakeBack, Follows, Steps
  <2>6. QED
    BY <1>1, <2>4, <2>5 DEF Moves, Continue, Abandoned
<1>2. CASE "unissue" \notin Range(Rest(w))
  <2>1. Path(worker[w], <<>>, "rest", "rest")
    BY ShortPaths
  <2>2. QED
    BY <1>2, <2>1 DEF Moves, Continue, Abandoned
<1>3. QED
  BY <1>1, <1>2

(* A client that is spared is not deleted, the ServiceAccess is.             *)
LEMMA Spares ==
    ASSUME Typed, NEW w \in Workers, Doing(w, "unkong"),
           Continue(w, worker[w], Spared(Rest(w)))
    PROVE  Moves(w, worker[w], "unaccess")
<1>1. PICK todo : todo = Rest(w)
  OBVIOUS
<1>2. PICK r : r = worker[w]
  OBVIOUS
<1>3. Chained(r, todo) /\ Follows(r, "unkong", First(todo))
  BY <1>1, <1>2, RestChained
<1>4. todo # <<>> /\ Head(todo) = First(todo) /\ First(todo) \in {"unclient", "unaccess"}
  BY <1>3 DEF Follows, First
<1>5. CASE First(todo) = "unclient"
  <2>1. Chained(r, Tail(todo)) /\ Follows(r, "unclient", First(Tail(todo)))
    BY <1>3, <1>4, <1>5, TailChained
  <2>2. Path(r, Tail(todo), "unaccess", "rest")
    BY <2>1 DEF Follows, Chained
  <2>3. QED
    BY <1>1, <1>2, <1>4, <1>5, <2>2 DEF Moves, Continue, Spared
<1>6. CASE First(todo) = "unaccess"
  <2>1. Path(r, todo, "unaccess", "rest")
    BY <1>3, <1>6 DEF Chained
  <2>2. QED
    BY <1>1, <1>2, <1>4, <1>6, <2>1 DEF Moves, Continue, Spared
<1>7. QED
  BY <1>4, <1>5, <1>6

(* A call whose failure is not thrown.                                       *)
LEMMA TryTyped ==
    ASSUME Typed, CredentialAssumption, NEW w \in Workers, NEW s,
           s \notin {"details", "locate", "find"}, NEW able, NEW new, NEW next,
           Try(w, s, able, new, next), able /\ stores' = new => StoresTyped',
           \A todo \in next : Continue(w, worker[w], todo) =>
              \/ Continue(w, worker[w], Rest(w))
              \/ \E t : Moves(w, worker[w], t) /\ (t # "rest" => Carries(worker[w], t))
    PROVE  Typed'
<1>1. Doing(w, s) /\ UNCHANGED <<env, feed, nextId, request>> /\ Step(w) = s
  BY DoingStep DEF Try
<1>2. (faults \in 0..MaxFaults)' /\ RequestsTyped'
  BY <1>1, FaultsTyped, TypedParts DEF Try, RequestsTyped
<1>3. Remembered'
  BY TypedParts DEF Try, Remembered
<1>4. StoresTyped'
  BY TypedParts DEF Try, StoresTyped
<1>5. worker[w] \in Recs /\ (feed \in Ids \cup {None})' /\ (nextId \in 1..(MaxIds + 1))'
  BY <1>1, TypedParts
<1>6. ASSUME Continue(w, worker[w], Rest(w)) PROVE Typed'
  <2>1. Went(w, worker[w], s)
    BY <1>1, <1>6, GoesOn
  <2>2. QED
    BY <1>1, <1>2, <1>3, <1>4, <1>5, <2>1, WentTyped
<1>7. \/ Continue(w, worker[w], Rest(w))
      \/ \E t : Moves(w, worker[w], t) /\ (t # "rest" => Carries(worker[w], t))
  BY DEF Try, Proceed
<1>8. QED
  BY <1>1, <1>2, <1>3, <1>4, <1>5, <1>6, <1>7, TypedAfter

(* What is deleted takes what depends on it along.                           *)
LEMMA WithoutTyped ==
    StoresTyped => /\ stores' = WithoutRow => StoresTyped'
                   /\ stores' = WithoutKong => StoresTyped'
                   /\ stores' = WithoutClient => StoresTyped'
                   /\ stores' = stores => StoresTyped'
BY DEF StoresTyped, WithoutRow, WithoutKong, WithoutClient, None

(* those whose failure is not thrown do,                                    *)
LEMMA TryingTyped ==
    ASSUME Typed, CredentialAssumption, NEW w \in Workers,
           \/ Activate(w) \/ DeleteKeyAuth(w) \/ CleanRow(w) \/ CleanKong(w)
           \/ CleanClient(w) \/ DeleteRow(w) \/ DeleteKongConsumer(w)
           \/ DeleteClient(w) \/ DeleteServiceAccess(w)
    PROVE  Typed'
<1>0. StoresTyped /\ worker[w] \in Recs
  BY TypedParts
<1>1. ASSUME NEW s, s \notin {"details", "locate", "find"}, NEW able, NEW new,
             Try(w, s, able, new, {Rest(w)}), able /\ stores' = new => StoresTyped'
      PROVE  Typed'
  BY <1>1, TryTyped
<1>2. CASE Activate(w)
  <2> DEFINE able == TRUE
             new == [stores EXCEPT !.active = @ \/ stores.access = Own(w)]
  <2>0. Own(w) \in Ids /\ None \notin Ids
    BY <1>2, AtStep DEF Activate, Try, Carries, Own, Ids, None
  <2>1. able /\ stores' = new => StoresTyped'
    <3>1. CASE stores.access = Own(w)
      BY <1>0, <2>0, <3>1 DEF StoresTyped
    <3>2. CASE stores.access # Own(w)
      BY <1>0, <3>2 DEF StoresTyped
    <3>3. QED
      BY <3>1, <3>2
  <2>2. Try(w, "activate", able, new, {Rest(w)})
    BY <1>2 DEF Activate
  <2> HIDE DEF able, new
  <2>3. QED
    BY <1>1, <2>1, <2>2
<1>3. CASE DeleteKeyAuth(w)
  <2> DEFINE able == stores.kong = worker[w].consumer /\ worker[w].key \in stores.keys
             new == [stores EXCEPT !.keys = @ \ {worker[w].key}]
  <2>1. able /\ stores' = new => StoresTyped'
    BY <1>0, WithoutTyped DEF StoresTyped, Recs, None
  <2>2. CASE Try(w, "unkey", able, new, {Rest(w)})
    <3> HIDE DEF able, new
    <3>1. QED
      BY <1>1, <2>1, <2>2
  <2>3. CASE Attempt(w, "unkey", TRUE, FALSE)
    <3>1. Call(w, "unkey", TRUE, stores) /\ "unkey" \in Attempted \ {"details", "locate", "find"}
      BY <2>3 DEF Call, Attempt, Attempted
    <3>2. stores' = stores => StoresTyped'
      BY <1>0, WithoutTyped
    <3>3. QED
      BY <3>1, <3>2, CallTyped
  <2>4. QED
    BY <1>3, <2>2, <2>3 DEF DeleteKeyAuth
<1>4. CASE CleanKong(w)
  <2> DEFINE able == TRUE
             new == IF stores.kong = Own(w) THEN WithoutKong ELSE stores
  <2>1. able /\ stores' = new => StoresTyped'
    BY <1>0, WithoutTyped DEF StoresTyped, Recs, None
  <2>2. Try(w, "cleanKong", able, new, {Rest(w)})
    BY <1>4 DEF CleanKong
  <2> HIDE DEF able, new
  <2>3. QED
    BY <1>1, <2>1, <2>2
<1>5. CASE CleanClient(w)
  <2> DEFINE able == TRUE
             new == WithoutClient
  <2>1. able /\ stores' = new => StoresTyped'
    BY <1>0, WithoutTyped DEF StoresTyped, Recs, None
  <2>2. Try(w, "cleanClient", able, new, {Rest(w)})
    BY <1>5 DEF CleanClient
  <2> HIDE DEF able, new
  <2>3. QED
    BY <1>1, <2>1, <2>2
<1>6. CASE DeleteClient(w)
  <2> DEFINE able == stores.client # None
             new == WithoutClient
  <2>1. able /\ stores' = new => StoresTyped'
    BY <1>0, WithoutTyped DEF StoresTyped, Recs, None
  <2>2. Try(w, "unclient", able, new, {Rest(w)})
    BY <1>6 DEF DeleteClient
  <2> HIDE DEF able, new
  <2>3. QED
    BY <1>1, <2>1, <2>2
<1>7. CASE DeleteServiceAccess(w)
  <2> DEFINE able == TRUE
             new == IF stores.access = Own(w) THEN [stores EXCEPT !.access = None, !.active = FALSE,
                                                           !.key = None]
                      ELSE stores
  <2>1. able /\ stores' = new => StoresTyped'
    <3>1. CASE stores.access = Own(w)
      <4> SUFFICES ASSUME stores' = [stores EXCEPT !.access = None, !.active = FALSE,
                                                   !.key = None]
                   PROVE  StoresTyped'
        BY <3>1
      <4>1. /\ stores'.kong = stores.kong /\ stores'.acl = stores.acl
            /\ stores'.keys = stores.keys /\ stores'.key = None
            /\ stores'.client = stores.client /\ stores'.enabled = stores.enabled
            /\ stores'.row = stores.row /\ stores'.own = stores.own
            /\ stores'.access = None /\ ~stores'.active
        BY <1>0 DEF StoresTyped
      <4>2. stores' \in [kong : Ids \cup {None}, acl : BOOLEAN,
                         keys : SUBSET Keys, key : Keys \cup {None},
                         client : Ids \cup {None}, enabled : BOOLEAN,
                         row : Ids \cup {None}, own : Ids \cup {None},
                         access : Ids \cup {None}, active : BOOLEAN]
        BY <1>0 DEF StoresTyped
      <4>3. QED
        BY <1>0, <4>1, <4>2 DEF StoresTyped
    <3>2. CASE stores.access # Own(w)
      BY <1>0, <3>2, WithoutTyped
    <3>3. QED
      BY <3>1, <3>2
  <2>2. Try(w, "unaccess", able, new, {Rest(w)})
    BY <1>7 DEF DeleteServiceAccess
  <2> HIDE DEF able, new
  <2>3. QED
    BY <1>1, <2>1, <2>2
<1>8. CASE CleanRow(w)
  <2> DEFINE byRow == IF stores.row = Own(w) THEN WithoutRow ELSE stores
             byOwn == IF stores.own = Own(w) THEN WithoutRow ELSE stores
  <2>1. (stores' = byRow => StoresTyped') /\ (stores' = byOwn => StoresTyped')
    BY <1>0, WithoutTyped
  <2>2. \/ Try(w, "cleanRow", TRUE, byRow, {Rest(w)})
        \/ Try(w, "cleanOwn", TRUE, byOwn, {Rest(w)})
    BY <1>8 DEF CleanRow
  <2> HIDE DEF byRow, byOwn
  <2>3. QED
    BY <1>1, <2>1, <2>2
<1>9. CASE DeleteRow(w)
  <2> DEFINE new == IF stores.own = Own(w) THEN WithoutRow ELSE stores
             next == {Rest(w), Abandoned(Rest(w))}
  <2>1. stores' = new => StoresTyped'
    BY <1>0, WithoutTyped
  <2>2. Try(w, "unrow", TRUE, new, next)
    BY <1>9 DEF DeleteRow
  <2>3. Doing(w, "unrow") /\ Carries(worker[w], "unrow")
    BY <2>2, AtStep DEF Try
  <2>4. ASSUME Continue(w, worker[w], Abandoned(Rest(w)))
        PROVE  \E t : Moves(w, worker[w], t) /\ (t # "rest" => Carries(worker[w], t))
    BY <2>3, <2>4, Abandons DEF Deleting, Carries
  <2>5. \A todo \in next : Continue(w, worker[w], todo) =>
           \/ Continue(w, worker[w], Rest(w))
           \/ \E t : Moves(w, worker[w], t) /\ (t # "rest" => Carries(worker[w], t))
    BY <2>4
  <2> HIDE DEF new, next
  <2>6. QED
    BY <2>1, <2>2, <2>5, TryTyped
<1>10. CASE DeleteKongConsumer(w)
  <2> DEFINE able == stores.kong = worker[w].consumer
             next == {Spared(Rest(w))}
  <2>1. stores' = WithoutKong => StoresTyped'
    BY <1>0, WithoutTyped
  <2>2. Try(w, "unkong", able, WithoutKong, next)
    BY <1>10 DEF DeleteKongConsumer
  <2>3. Doing(w, "unkong") /\ Carries(worker[w], "unkong")
    BY <2>2, AtStep DEF Try
  <2>4. ASSUME Continue(w, worker[w], Spared(Rest(w)))
        PROVE  \E t : Moves(w, worker[w], t) /\ (t # "rest" => Carries(worker[w], t))
    BY <2>3, <2>4, Spares DEF Deleting, Carries
  <2>5. \A todo \in next : Continue(w, worker[w], todo) =>
           \/ Continue(w, worker[w], Rest(w))
           \/ \E t : Moves(w, worker[w], t) /\ (t # "rest" => Carries(worker[w], t))
    BY <2>4
  <2> HIDE DEF able, next
  <2>6. QED
    BY <2>1, <2>2, <2>5, TryTyped
<1>11. QED
  BY <1>2, <1>3, <1>4, <1>5, <1>6, <1>7, <1>8, <1>9, <1>10

RequestRecs == [made : BOOLEAN, gone : BOOLEAN, approved : BOOLEAN, issued : BOOLEAN,
                complete : BOOLEAN, access : Ids \cup {None}]

(* A request that is replaced by one of its type leaves all of their types. *)
LEMMA OneRequest ==
    ASSUME Typed, NEW r \in Requests, NEW new \in RequestRecs,
           request' = [request EXCEPT ![r] = new]
    PROVE  RequestsTyped'
BY TypedParts DEF RequestsTyped, RequestRecs

(* Making a key keeps the types,                                            *)
LEMMA AddKeyTyped ==
    ASSUME Typed, CredentialAssumption, NEW w \in Workers, AddKeyAuth(w)
    PROVE  Typed'
<1>1. PICK s \in {"key", "newkey"}, consumer \in Ids :
        AddKeyTo(w, s, consumer) /\ Doing(w, s)
  <2>1. CASE AddKeyTo(w, "key", Own(w))
    <3>1. Doing(w, "key")
      BY <2>1 DEF AddKeyTo, Attempt
    <3>2. Own(w) \in Ids
      BY <3>1, AtStep DEF Carries, Own, Follows
    <3>3. QED
      BY <2>1, <3>1, <3>2
  <2>2. CASE AddKeyTo(w, "newkey", worker[w].consumer)
    <3>1. Doing(w, "newkey")
      BY <2>2 DEF AddKeyTo, Attempt
    <3>2. worker[w].consumer \in Ids
      BY <3>1, AtStep DEF Carries
    <3>3. QED
      BY <2>2, <3>1, <3>2
  <2>3. QED
    BY <2>1, <2>2 DEF AddKeyAuth
<1>2. UNCHANGED <<env, feed, nextId, request, history>> /\ (faults \in 0..MaxFaults)'
  <2>1. Fails(stores.kong = consumer) \/ UNCHANGED faults
    BY <1>1 DEF AddKeyTo, Attempt
  <2>2. QED
    BY <1>1, <2>1, FaultsTyped DEF AddKeyTo, Attempt
<1>3. CASE Continue(w, worker[w], Recovery(worker[w].kind, s)) /\ UNCHANGED stores
  BY <1>1, <1>2, <1>3, FailsTyped DEF Attempted
<1>4. CASE /\ stores.kong = consumer /\ UnusedKeys # {}
           /\ stores' = [stores EXCEPT !.keys = @ \cup {NewKey}]
           /\ Continue(w, [worker[w] EXCEPT !.key = NewKey], Rest(w))
  <2>1. NewKey \in Keys
    BY <1>4 DEF NewKey, UnusedKeys
  <2>2. PICK rec : rec = [worker[w] EXCEPT !.key = NewKey]
    OBVIOUS
  <2>3. /\ worker[w] \in Recs /\ rec \in Recs
        /\ rec.kind = worker[w].kind /\ rec.req = worker[w].req
        /\ rec.id = worker[w].id /\ rec.consumer = worker[w].consumer
    <3>1. PICK was \in Recs : was = worker[w]
      BY TypedParts
    <3>2. PICK new \in Keys : new = NewKey
      BY <2>1
    <3>3. rec = [was EXCEPT !.key = new]
      BY <2>2, <3>1, <3>2
    <3>4. QED
      BY <3>1, <3>3 DEF Recs
  <2>4. Went(w, rec, s) /\ Step(w) = s
    BY <1>1, <1>4, <2>2, <2>3, GoesOn, AtStep
  <2>5. StoresTyped'
    BY <1>1, <1>4, <2>1, TypedParts DEF StoresTyped, Ids, None
  <2>6. QED
    BY <1>1, <1>2, <2>3, <2>4, <2>5, WentTyped, TypedParts DEF RequestsTyped, Remembered
<1>5. QED
  BY <1>1, <1>3, <1>4 DEF AddKeyTo, Attempt

(* linking the request to the ServiceAccess does,                           *)
LEMMA LinkTyped ==
    ASSUME Typed, CredentialAssumption, NEW w \in Workers, LinkServiceAccess(w)
    PROVE  Typed'
<1>1. Doing(w, "link") /\ UNCHANGED <<env, feed, nextId, stores>>
  BY DEF LinkServiceAccess, Attempt
<1>2. (faults \in 0..MaxFaults)'
  BY FaultsTyped DEF LinkServiceAccess, Attempt
<1>3. worker[w].req \in Requests /\ Own(w) \in Ids
  BY <1>1, AtStep DEF Carries, Own, Follows
<1>4. CASE Continue(w, worker[w], Recovery(worker[w].kind, "link"))
           /\ UNCHANGED <<request, history>>
  BY <1>1, <1>2, <1>4, FailsTyped DEF Attempted
<1>5. CASE /\ request' = [request EXCEPT ![worker[w].req].access = Own(w)]
           /\ history' = [history EXCEPT !.justified =
                  IF Approving(worker[w].req) \/ ~env.approval THEN @ \cup {Own(w)} ELSE @]
           /\ Proceed(w)
  <2>1. RequestsTyped' /\ Remembered'
    BY <1>3, <1>5, TypedParts DEF RequestsTyped, Remembered
  <2>2. Went(w, worker[w], "link") /\ Step(w) = "link" /\ worker[w] \in Recs
    BY <1>1, <1>5, Proceeds, AtStep
  <2>3. QED
    BY <1>1, <1>2, <2>1, <2>2, WentTyped, TypedParts DEF StoresTyped
<1>6. QED
  BY <1>4, <1>5 DEF LinkServiceAccess, Attempt

(* the update of an approval or a rejection does,                           *)
LEMMA WriteTyped ==
    ASSUME Typed, CredentialAssumption, NEW w \in Workers, Write(w)
    PROVE  Typed'
<1> DEFINE r == worker[w].req
           new == [request EXCEPT ![r] =
               IF worker[w].kind = "reject"
               THEN [@ EXCEPT !.approved = FALSE, !.complete = TRUE]
               ELSE [@ EXCEPT !.approved = TRUE, !.issued = TRUE, !.complete = TRUE]]
           justified == history.justified \cup (IF worker[w].kind = "approve"
                                                THEN {request[r].access} ELSE {})
<1>1. Doing(w, "write") /\ UNCHANGED <<env, feed, nextId, stores>>
  BY DEF Write, Attempt
<1>2. (faults \in 0..MaxFaults)'
  BY FaultsTyped DEF Write, Attempt
<1>3. r \in Requests
  BY <1>1, AtStep DEF Carries, Follows
<1>4. CASE Continue(w, worker[w], Recovery(worker[w].kind, "write"))
           /\ UNCHANGED <<request, history>>
  BY <1>1, <1>2, <1>4, FailsTyped DEF Attempted
<1>5. CASE /\ request' = new /\ history' = [history EXCEPT !.justified = justified]
           /\ Proceed(w)
  <2>1. RequestsTyped' /\ Remembered'
    <3>1. PICK was \in RequestRecs : was = request[r]
      BY <1>3, TypedParts DEF RequestsTyped, RequestRecs
    <3>2. RequestsTyped'
      BY <1>3, <1>5, <3>1, OneRequest DEF RequestRecs
    <3>3. justified \subseteq Ids \cup {None}
      BY <3>1, TypedParts DEF RequestRecs, Remembered
    <3>4. QED
      BY <1>5, <3>2, <3>3, TypedParts DEF Remembered
  <2>2. Went(w, worker[w], "write") /\ Step(w) = "write" /\ worker[w] \in Recs
    BY <1>1, <1>5, Proceeds, AtStep
  <2>3. QED
    BY <1>1, <1>2, <2>1, <2>2, WentTyped, TypedParts DEF StoresTyped
<1>6. QED
  BY <1>4, <1>5 DEF Write, Attempt

(* the one that ends a collection does,                                     *)
LEMMA CompleteTyped ==
    ASSUME Typed, CredentialAssumption, NEW w \in Workers, Complete(w)
    PROVE  Typed'
<1> DEFINE r == worker[w].req
           open == Open("approve", r)
           todo == IF open THEN <<"details">> \o Setup ELSE <<>>
           t == IF open THEN "details" ELSE "rest"
<1>1. Doing(w, "complete") /\ UNCHANGED <<env, feed, nextId, stores, history>>
  BY DEF Complete, Attempt
<1>2. (faults \in 0..MaxFaults)'
  BY FaultsTyped DEF Complete, Attempt
<1>3. r \in Requests /\ worker[w].kind = "collect" /\ ~env.approval /\ worker[w] \in Recs
  BY <1>1, AtStep DEF Carries, Follows
<1>4. CASE Continue(w, worker[w], Recovery(worker[w].kind, "complete"))
           /\ UNCHANGED <<request>>
  BY <1>1, <1>2, <1>4, FailsTyped DEF Attempted
<1>5. CASE /\ request' = [request EXCEPT ![r] =
                  [@ EXCEPT !.approved = TRUE, !.issued = TRUE, !.complete = TRUE]]
           /\ Continue(w, [worker[w] EXCEPT !.kind = "nested"], todo)
  <2>1. RequestsTyped' /\ Remembered' /\ StoresTyped'
    <3>1. PICK was \in RequestRecs : was = request[r]
      BY <1>3, TypedParts DEF RequestsTyped, RequestRecs
    <3>2. RequestsTyped'
      BY <1>3, <1>5, <3>1, OneRequest DEF RequestRecs
    <3>3. QED
      BY <1>1, <3>2, TypedParts DEF Remembered, StoresTyped
  <2>2. PICK rec : rec = [worker[w] EXCEPT !.kind = "nested"]
    OBVIOUS
  <2>3. rec \in Recs /\ rec.kind = "nested" /\ rec.req = r
    BY <1>3, <2>2 DEF Recs, Programs
  <2>4. open \in BOOLEAN
    BY DEF Open
  <2> HIDE DEF open
  <2>5. Path(rec, todo, t, "rest")
    BY <1>3, <2>3, <2>4, UpdatePaths
  <2>6. Moves(w, rec, t)
    BY <1>5, <2>2, <2>5 DEF Moves, Continue
  <2>7. Carries(rec, t)
    BY <1>3, <2>3 DEF Carries, Deleting
  <2> HIDE DEF t
  <2>8. QED
    BY <1>1, <1>2, <2>1, <2>3, <2>6, <2>7, TypedAfter, TypedParts
<1>6. QED
  BY <1>4, <1>5 DEF Complete, Attempt

(* looking up what the request is linked to does,                           *)
LEMMA LookUpDetailsTyped ==
    ASSUME Typed, CredentialAssumption, NEW w \in Workers, LookUpDetails(w)
    PROVE  Typed'
<1> DEFINE id == request[worker[w].req].access
           rec == [worker[w] EXCEPT !.id = id, !.consumer = stores.row]
           todo == <<"svc">> \o (IF HasConsumer(id) THEN <<>> ELSE <<"unissue">>)
<1>1. Doing(w, "details") /\ UNCHANGED <<env, feed, nextId, request, stores>>
  BY DEF LookUpDetails, Attempt
<1>2. (faults \in 0..MaxFaults)' /\ RequestsTyped' /\ StoresTyped' /\ Step(w) = "details"
  BY <1>1, FaultsTyped, TypedParts, AtStep
     DEF LookUpDetails, Attempt, RequestsTyped, StoresTyped
<1>3. worker[w].req \in Requests /\ worker[w] \in Recs
  BY <1>1, AtStep DEF Carries, Follows
<1>4. CASE Continue(w, worker[w], Recovery(worker[w].kind, "details")) /\ UNCHANGED history
  BY <1>1, <1>2, <1>4, FailsTyped DEF Attempted
<1>5. CASE /\ id # None
           /\ Continue(w, rec, IF worker[w].kind = "reject" THEN todo ELSE Rest(w))
           /\ history' = [history EXCEPT
                 !.astray = @ \/ (worker[w].kind # "reject" /\ stores.row # id)]
  <2>1. Remembered'
    BY <1>5, TypedParts DEF Remembered
  <2>2. id \in Ids
    BY <1>3, <1>5, TypedParts DEF RequestsTyped
  <2>3. rec \in Recs /\ rec.kind = worker[w].kind /\ rec.req = worker[w].req /\ rec.id = id
    <3>1. PICK was \in Recs : was = worker[w]
      BY <1>3
    <3>2. PICK new \in Ids, row \in Ids \cup {None} : new = id /\ row = stores.row
      BY <2>2, TypedParts DEF StoresTyped
    <3>3. rec = [was EXCEPT !.id = new, !.consumer = row]
      BY <3>1, <3>2
    <3> HIDE DEF rec
    <3>4. QED
      BY <3>1, <3>2, <3>3 DEF Recs
  <2>4. CASE worker[w].kind = "reject"
    <3>1. /\ Path(rec, <<"svc">>, "svc", "rest") /\ Path(rec, <<"svc">>, "svc", "unissue")
          /\ Path(rec, <<>>, "rest", "rest") /\ Path(rec, <<"unissue">>, "unissue", "rest")
      BY <2>3, <2>4, ShortPaths DEF Follows, Steps, Deleting
    <3> HIDE DEF rec, id
    <3>2. Path(rec, todo, "svc", "rest")
      BY <3>1, JoinPaths
    <3>3. Moves(w, rec, "svc")
      BY <1>5, <2>4, <3>2 DEF Moves, Continue
    <3>4. Carries(rec, "svc")
      BY <1>3, <2>2, <2>3, <2>4 DEF Carries
    <3>5. QED
      BY <1>1, <1>2, <2>1, <2>3, <3>3, <3>4, TypedAfter, TypedParts
  <2>5. CASE worker[w].kind # "reject"
    <3> HIDE DEF rec, id
    <3>1. Went(w, rec, "details")
      BY <1>1, <1>5, <2>3, <2>5, GoesOn
    <3>2. QED
      BY <1>1, <1>2, <2>1, <2>2, <2>3, <3>1, WentTyped, TypedParts
  <2>6. QED
    BY <2>4, <2>5
<1>6. QED
  BY <1>4, <1>5 DEF LookUpDetails, Attempt

(* A step that notes a consumer in the worker and changes no store.          *)
LEMMA NotesTyped ==
    ASSUME Typed, CredentialAssumption, NEW w \in Workers,
           NEW s \in Attempted \ {"details", "unkey"},
           Doing(w, s), NEW consumer \in Ids \cup {None}, NEW seen \in BOOLEAN,
           s \in {"locate", "find"} => consumer \in Ids,
           Continue(w, [worker[w] EXCEPT !.consumer = consumer, !.seen = seen], Rest(w)),
           Remembered', UNCHANGED <<env, feed, nextId, faults, request, stores>>
    PROVE  Typed'
<1>1. PICK was \in Recs : was = worker[w]
  BY TypedParts
<1>2. PICK rec : rec = [was EXCEPT !.consumer = consumer, !.seen = seen]
  OBVIOUS
<1>3. /\ rec \in Recs /\ rec.kind = was.kind /\ rec.req = was.req /\ rec.id = was.id
      /\ rec.consumer = consumer
  BY <1>1, <1>2 DEF Recs
<1>4. Went(w, rec, s) /\ Step(w) = s
  BY <1>1, <1>2, <1>3, GoesOn, AtStep
<1>5. RequestsTyped' /\ StoresTyped' /\ (faults \in 0..MaxFaults)'
  BY TypedParts DEF RequestsTyped, StoresTyped
<1>6. QED
  BY <1>1, <1>3, <1>4, <1>5, WentTyped, TypedParts

(* looking something up by its name does,                                   *)
LEMMA LookUpTyped ==
    ASSUME Typed, CredentialAssumption, NEW w \in Workers,
           Consult(w) \/ Locate(w) \/ FindClient(w)
    PROVE  Typed'
<1>0. StoresTyped /\ worker[w] \in Recs /\ Remembered
  BY TypedParts
<1>1. ASSUME NEW s \in {"consult", "locate", "find"}, Doing(w, s),
             UNCHANGED <<env, feed, nextId, request, stores, history>>, NEW able, Fails(able),
             Continue(w, worker[w], Recovery(worker[w].kind, s))
      PROVE  Typed'
  BY <1>1, FaultsTyped, FailsTyped DEF Attempted
<1>2. CASE Consult(w)
  <2>1. CASE /\ Doing(w, "consult") /\ UNCHANGED <<env, feed, nextId, faults, request, stores>>
             /\ history' = [history EXCEPT !.astray = @ \/ stores.row # Own(w)]
             /\ Continue(w, [worker[w] EXCEPT !.consumer = stores.row], Rest(w))
    <3>1. PICK was \in Recs, row \in Ids \cup {None} : was = worker[w] /\ row = stores.row
      BY <1>0 DEF StoresTyped
    <3>2. [was EXCEPT !.consumer = row] = [was EXCEPT !.consumer = row, !.seen = was.seen]
          /\ was.seen \in BOOLEAN
      BY DEF Recs
    <3>3. Remembered'
      BY <1>0, <2>1 DEF Remembered
    <3>4. PICK seen \in BOOLEAN : seen = was.seen
      BY <3>2
    <3>5. Continue(w, [worker[w] EXCEPT !.consumer = row, !.seen = seen], Rest(w))
      BY <2>1, <3>1, <3>2, <3>4
    <3>6. "consult" \in Attempted \ {"details", "unkey"} /\ Doing(w, "consult")
          /\ UNCHANGED <<env, feed, nextId, faults, request, stores>>
      BY <2>1 DEF Attempted
    <3>7. QED
      BY <3>3, <3>5, <3>6, NotesTyped
  <2>2. QED
    BY <1>1, <1>2, <2>1 DEF Consult, Attempt
<1>3. CASE Locate(w)
  <2>1. CASE /\ Doing(w, "locate") /\ stores.kong # None
             /\ UNCHANGED <<env, feed, nextId, faults, request, stores, history>>
             /\ Continue(w, [worker[w] EXCEPT !.consumer = stores.kong], Rest(w))
    <3>1. PICK was \in Recs, kong \in Ids : was = worker[w] /\ kong = stores.kong
      BY <1>0, <2>1 DEF StoresTyped
    <3>2. [was EXCEPT !.consumer = kong] = [was EXCEPT !.consumer = kong, !.seen = was.seen]
          /\ was.seen \in BOOLEAN
      BY DEF Recs
    <3>3. Remembered'
      BY <1>0, <2>1 DEF Remembered
    <3>4. PICK seen \in BOOLEAN : seen = was.seen
      BY <3>2
    <3>5. Continue(w, [worker[w] EXCEPT !.consumer = kong, !.seen = seen], Rest(w))
      BY <2>1, <3>1, <3>2, <3>4
    <3>6. QED
      BY <2>1, <3>3, <3>5, NotesTyped DEF Attempted
  <2>2. QED
    BY <1>1, <1>3, <2>1 DEF Locate, Attempt
<1>4. CASE FindClient(w)
  <2>1. CASE /\ Doing(w, "find") /\ stores.client # None
             /\ UNCHANGED <<env, feed, nextId, faults, request, stores, history>>
             /\ Continue(w, [worker[w] EXCEPT !.consumer = stores.client,
                                              !.seen = stores.enabled], Rest(w))
    <3>1. PICK client \in Ids, seen \in BOOLEAN :
            client = stores.client /\ seen = stores.enabled
      BY <1>0, <2>1 DEF StoresTyped
    <3>2. Remembered'
      BY <1>0, <2>1 DEF Remembered
    <3>3. Continue(w, [worker[w] EXCEPT !.consumer = client, !.seen = seen], Rest(w))
      BY <2>1, <3>1
    <3>4. QED
      BY <2>1, <3>2, <3>3, NotesTyped DEF Attempted
  <2>2. QED
    BY <1>1, <1>4, <2>1 DEF FindClient, Attempt
<1>5. QED
  BY <1>2, <1>3, <1>4

(* and so do enabling the credential,                                       *)
LEMMA EnableTyped ==
    ASSUME Typed, CredentialAssumption, NEW w \in Workers, Enable(w)
    PROVE  Typed'
<1> DEFINE able == IF OAuth THEN stores.client # None
                   ELSE stores.kong # None /\ stores.kong = worker[w].consumer
<1>1. Doing(w, "enable") /\ UNCHANGED <<env, feed, nextId, request>>
  BY DEF Enable, Attempt
<1>2. (faults \in 0..MaxFaults)' /\ RequestsTyped'
  BY <1>1, FaultsTyped, TypedParts DEF Enable, Attempt, RequestsTyped
<1>3. CASE Continue(w, worker[w], Recovery(worker[w].kind, "enable"))
           /\ UNCHANGED <<stores, history>>
  BY <1>1, <1>2, <1>3, FailsTyped DEF Attempted
<1>4. CASE /\ able /\ Proceed(w)
           /\ stores' = IF OAuth THEN [stores EXCEPT !.enabled = TRUE]
                                 ELSE [stores EXCEPT !.acl = TRUE]
           /\ history' = [history EXCEPT !.astray = @ \/ (OAuth /\ stores.client # Own(w))]
  <2>1. StoresTyped' /\ Remembered'
    <3>1. CASE OAuth
      BY <1>4, <3>1, TypedParts DEF StoresTyped, Remembered
    <3>2. CASE ~OAuth
      BY <1>4, <3>2, TypedParts DEF StoresTyped, Remembered
    <3>3. QED
      BY <3>1, <3>2
  <2>2. Went(w, worker[w], "enable") /\ Step(w) = "enable" /\ worker[w] \in Recs
    BY <1>1, <1>4, Proceeds, AtStep
  <2>3. QED
    BY <1>1, <1>2, <2>1, <2>2, WentTyped, TypedParts
<1>5. QED
  BY <1>3, <1>4 DEF Enable, Attempt

(* writing the reference to the new key,                                    *)
LEMMA RelinkTyped ==
    ASSUME Typed, CredentialAssumption, NEW w \in Workers, Relink(w)
    PROVE  Typed'
<1>1. /\ Doing(w, "relink") /\ UNCHANGED <<env, feed, nextId, request>> /\ Proceed(w)
      /\ Step(w) = "relink" /\ Went(w, worker[w], "relink")
  BY Proceeds, DoingStep DEF Relink
<1>2. (faults \in 0..MaxFaults)' /\ RequestsTyped' /\ worker[w] \in Recs
  BY <1>1, FaultsTyped, TypedParts DEF Relink, RequestsTyped
<1>3. StoresTyped'
  <2>1. CASE /\ stores' = [stores EXCEPT !.active = TRUE, !.key = worker[w].key]
             /\ stores.access = Own(w)
    <3>1. PICK id \in Ids, key \in Keys \cup {None} : id = Own(w) /\ key = worker[w].key
      BY <1>1, AtStep DEF Carries, Own, Follows, Recs
    <3>2. stores' = [stores EXCEPT !.active = TRUE, !.key = key] /\ stores.access = id
          /\ None \notin Ids
      BY <2>1, <3>1 DEF Ids, None
    <3>3. QED
      BY <3>2, TypedParts DEF StoresTyped
  <2>2. CASE UNCHANGED stores
    BY <2>2, TypedParts, WithoutTyped
  <2>3. QED
    BY <2>1, <2>2 DEF Relink
<1>4. Remembered'
  BY TypedParts DEF Relink, Remembered
<1>5. QED
  BY <1>1, <1>2, <1>3, <1>4, WentTyped, TypedParts

(* taking the mark of issuance back,                                        *)
LEMMA UnissueTyped ==
    ASSUME Typed, CredentialAssumption, NEW w \in Workers, Unissue(w)
    PROVE  Typed'
<1>1. /\ Doing(w, "unissue") /\ UNCHANGED <<env, feed, nextId, stores>> /\ Proceed(w)
      /\ Step(w) = "unissue" /\ Went(w, worker[w], "unissue")
  BY Proceeds, DoingStep DEF Unissue
<1>2. (faults \in 0..MaxFaults)' /\ StoresTyped' /\ worker[w] \in Recs
  BY <1>1, FaultsTyped, TypedParts DEF Unissue, StoresTyped
<1>3. RequestsTyped'
  <2>1. PICK r \in Requests : r = worker[w].req
    BY <1>1, AtStep DEF Carries, Follows
  <2>2. PICK was \in RequestRecs : was = request[r]
    BY <2>1, TypedParts DEF RequestsTyped, RequestRecs
  <2>3. [was EXCEPT !.issued = FALSE, !.complete = FALSE] \in RequestRecs
    BY DEF RequestRecs
  <2>4. CASE request' = [request EXCEPT ![r] = [was EXCEPT !.issued = FALSE, !.complete = FALSE]]
    BY <2>3, <2>4, OneRequest
  <2>5. CASE UNCHANGED request
    BY <2>5, TypedParts DEF RequestsTyped
  <2>6. QED
    BY <2>1, <2>2, <2>4, <2>5 DEF Unissue
<1>4. Remembered'
  BY TypedParts DEF Unissue, Remembered
<1>5. QED
  BY <1>1, <1>2, <1>3, <1>4, WentTyped, TypedParts

(* What a deletion that is decided on goes through.                          *)
LEMMA Deletes ==
    ASSUME Typed, NEW w \in Workers, Doing(w, "svc"), stores.access = Own(w),
           NEW has \in BOOLEAN, has <=> HasConsumer(Own(w)),
           Continue(w, [worker[w] EXCEPT !.consumer = IF has THEN stores.row ELSE None],
                    DeleteSteps(has) \o Rest(w))
    PROVE  \E rec \in Recs :
              /\ Moves(w, rec, "unrequest")
              /\ rec = [worker[w] EXCEPT !.consumer = IF has THEN stores.row ELSE None]
              /\ rec.kind = worker[w].kind /\ rec.req = worker[w].req
              /\ rec.id = worker[w].id /\ rec.key = worker[w].key
              /\ rec.consumer = (IF has THEN stores.row ELSE None)
              /\ rec.consumer # None <=> has
<1>0. /\ Carries(worker[w], "svc") /\ worker[w].kind \in {"issue", "reject", "revoke"}
      /\ Own(w) \in Ids
  <2>1. Carries(worker[w], "svc") /\ \E t : Follows(worker[w], "svc", t)
    BY AtStep
  <2>2. QED
    BY <2>1 DEF Follows, Carries, Own, Deleting
<1>1. PICK was \in Recs : was = worker[w]
  BY TypedParts
<1>2. PICK new \in Ids \cup {None} : new = IF has THEN stores.row ELSE None
  BY TypedParts DEF StoresTyped
<1>3. new # None <=> has
  BY <1>0, <1>2, TypedParts DEF StoresTyped, HasConsumer, Ids, None
<1>4. PICK rec : rec = [was EXCEPT !.consumer = new]
  OBVIOUS
<1>5. /\ rec \in Recs /\ rec.kind = was.kind /\ rec.req = was.req /\ rec.id = was.id
      /\ rec.key = was.key /\ rec.consumer = new
  BY <1>4 DEF Recs
<1>6. PICK t : Follows(was, "svc", t) /\ t = First(Rest(w)) /\ Path(was, Rest(w), t, "rest")
  <2>1. Chained(was, Rest(w)) /\ Follows(was, "svc", First(Rest(w)))
    BY <1>1, RestChained
  <2>2. QED
    BY <2>1 DEF Chained
<1>7. Path(rec, Rest(w), t, "rest")
  <2>1. t # "unrequest"
    BY <1>6 DEF Follows
  <2>2. QED
    BY <1>5, <1>6, <2>1, OtherConsumer
<1>8. Follows(rec, "unaccess", t)
  BY <1>0, <1>1, <1>5, <1>6 DEF Follows
<1>9. Path(rec, DeleteSteps(has), "unrequest", t)
  <2>1. Path(rec, DeleteSteps(rec.consumer # None), "unrequest", t)
    BY <1>0, <1>1, <1>5, <1>8, DeletePath
  <2>2. (rec.consumer # None) = has
    BY <1>3, <1>5
  <2>3. QED
    BY <2>1, <2>2
<1>10. Moves(w, rec, "unrequest")
  <2>1. Path(rec, DeleteSteps(has) \o Rest(w), "unrequest", "rest")
    BY <1>7, <1>9, JoinPaths
  <2>2. Continue(w, rec, DeleteSteps(has) \o Rest(w))
    BY <1>1, <1>2, <1>4
  <2>3. QED
    BY <2>1, <2>2 DEF Moves, Continue
<1>11. QED
  BY <1>1, <1>2, <1>3, <1>4, <1>5, <1>10

(* looking up what is to be deleted,                                        *)
LEMMA LookUpAccessTyped ==
    ASSUME Typed, CredentialAssumption, NEW w \in Workers, LookUpAccess(w)
    PROVE  Typed'
<1>1. /\ Doing(w, "svc") /\ UNCHANGED <<env, feed, nextId, request, stores>>
      /\ Step(w) = "svc" /\ Carries(worker[w], "svc")
  BY AtStep DEF LookUpAccess
<1>2. (faults \in 0..MaxFaults)' /\ RequestsTyped' /\ StoresTyped' /\ worker[w] \in Recs
  BY <1>1, FaultsTyped, TypedParts DEF LookUpAccess, RequestsTyped, StoresTyped
<1>3. Remembered'
  BY TypedParts DEF LookUpAccess, Remembered
<1>4. CASE Continue(w, worker[w], Rest(w))
  <2>1. Went(w, worker[w], "svc")
    BY <1>1, <1>4, GoesOn
  <2>2. QED
    BY <1>1, <1>2, <1>3, <2>1, WentTyped, TypedParts
<1>5. CASE /\ stores.access = Own(w)
           /\ Continue(w, [worker[w] EXCEPT !.consumer =
                              IF HasConsumer(Own(w)) THEN stores.row ELSE None],
                       DeleteSteps(HasConsumer(Own(w))) \o Rest(w))
  <2>1. PICK has \in BOOLEAN : has = HasConsumer(Own(w))
    BY DEF HasConsumer
  <2>2. PICK rec \in Recs :
           /\ Moves(w, rec, "unrequest") /\ rec.kind = worker[w].kind
           /\ rec.req = worker[w].req /\ rec.id = worker[w].id
    BY <1>1, <1>5, <2>1, Deletes
  <2>3. Carries(rec, "unrequest")
    BY <1>1, <2>2 DEF Carries, Deleting
  <2>4. QED
    BY <1>1, <1>2, <1>3, <2>2, <2>3, TypedAfter, TypedParts
<1>6. QED
  BY <1>4, <1>5 DEF LookUpAccess

(* and deleting the requests of a ServiceAccess.                            *)
LEMMA DeleteRequestTyped ==
    ASSUME Typed, CredentialAssumption, NEW w \in Workers, DeleteRequest(w)
    PROVE  Typed'
<1>1. /\ Doing(w, "unrequest") /\ UNCHANGED <<env, feed, nextId, stores>>
      /\ Step(w) = "unrequest" /\ Carries(worker[w], "unrequest") /\ worker[w] \in Recs
  BY AtStep DEF DeleteRequest
<1>2. (faults \in 0..MaxFaults)' /\ StoresTyped' /\ Remembered'
  <2>1. (faults \in 0..MaxFaults)'
    BY FaultsTyped, TypedParts DEF DeleteRequest
  <2>2. StoresTyped'
    BY <1>1, TypedParts DEF StoresTyped
  <2>3. Remembered'
    BY TypedParts DEF DeleteRequest, Remembered
  <2>4. QED
    BY <2>1, <2>2, <2>3
<1>3. RequestsTyped'
  <2>1. Gone \in RequestRecs /\ \A r \in Requests : request[r] \in RequestRecs
    BY TypedParts DEF Gone, NotMade, RequestRecs, RequestsTyped, None
  <2>2. RequestRecs' = RequestRecs
    BY DEF RequestRecs
  <2>3. CASE request' = [r \in Requests |->
                 IF request[r].made /\ request[r].access = Own(w) THEN Gone ELSE request[r]]
    <3>1. request' \in [Requests -> RequestRecs]
      BY <2>1, <2>3
    <3>2. QED
      BY <3>1 DEF RequestsTyped, RequestRecs
  <2>4. CASE UNCHANGED request
    BY <2>4, TypedParts DEF RequestsTyped
  <2>5. QED
    BY <2>3, <2>4 DEF DeleteRequest
<1>4. CASE Continue(w, worker[w], Rest(w))
  <2>1. Went(w, worker[w], "unrequest")
    BY <1>1, <1>4, GoesOn
  <2>2. QED
    BY <1>1, <1>2, <1>3, <2>1, WentTyped, TypedParts
<1>5. CASE Continue(w, worker[w], Abandoned(Rest(w)))
  <2>1. PICK t : Moves(w, worker[w], t) /\ (t # "rest" => Carries(worker[w], t))
    BY <1>1, <1>5, Abandons DEF Deleting, Carries
  <2>2. QED
    BY <1>1, <1>2, <1>3, <2>1, TypedAfter, TypedParts
<1>6. QED
  BY <1>4, <1>5 DEF DeleteRequest, Proceed

-----------------------------------------------------------------------------
(* What users and gateways start.                                           *)

(* A worker that starts moves to the first step of its program.             *)
LEMMA StartsMoving ==
    ASSUME Typed, NEW w \in Workers, NEW rec \in Recs, NEW s, s # "rest",
           Path(rec, rec.todo, s, "rest"), worker' = [worker EXCEPT ![w] = rec]
    PROVE  Moves(w, rec, s)
<1>1. rec.todo # <<>>
  BY DEF Path
<1>2. rec = [rec EXCEPT !.todo = rec.todo]
  BY DEF Recs
<1>3. QED
  BY <1>1, <1>2 DEF Moves

(* A worker that has done nothing yet.                                       *)
Fresh(rec, kind, req, id, key) ==
    /\ rec.kind = kind /\ rec.req = req /\ rec.id = id /\ rec.key = key
    /\ rec.consumer = None /\ rec.seen = FALSE

(* Worker w starts so, at the step s.                                        *)
Enters(w, kind, req, id, key, s) ==
    \E rec \in Recs : Fresh(rec, kind, req, id, key) /\ Moves(w, rec, s)

(* A worker that has just started remembers nothing.                        *)
LEMMA Blank ==
    ASSUME NEW kind \in Programs, NEW rec, rec = [Idle EXCEPT !.kind = kind]
    PROVE  rec \in Recs /\ Fresh(rec, kind, None, None, None)
<1>1. Idle \in Recs
  BY DEF Idle, Recs, Programs
<1>2. QED
  BY <1>1 DEF Recs, Idle, Fresh

FirstOfRenewal == IF OAuth THEN "find" ELSE "locate"

(* A collection.                                                             *)
LEMMA CollectStarts ==
    ASSUME Typed, NEW w \in Workers, NEW r \in Requests, Collect(w, r)
    PROVE  Enters(w, "collect", r, nextId, None, FirstOfMaking)
<1> DEFINE s == FirstOfMaking
<1>0. PICK id \in Ids \cup {None}, key \in Keys \cup {None} : id = nextId /\ key = None
  BY TypedParts DEF Collect, StoresTyped, Ids
<1>1. PICK todo, rec :
        /\ todo = CollectSteps
        /\ rec = [Idle EXCEPT !.kind = "collect", !.req = r, !.id = id, !.todo = todo]
        /\ worker' = [worker EXCEPT ![w] = rec]
  BY <1>0 DEF Collect, Start
<1>2. ASSUME NEW other, other.kind = "collect" PROVE Path(other, todo, s, "rest")
  BY <1>1, <1>2, CollectPath
<1>3. todo \in Seq(Steps)
  <2>1. PICK other : other = [kind |-> "collect"]
    OBVIOUS
  <2>2. QED
    BY <1>2, <2>1 DEF Path
<1>4. /\ "collect" \in Programs /\ s # "rest" /\ None \in Requests \cup {None}
      /\ None \in Ids \cup {None} /\ None \in Keys \cup {None}
  BY DEF Programs, FirstOfMaking
<1> HIDE DEF s
<1>5. rec \in Recs /\ Fresh(rec, "collect", r, id, key) /\ rec.todo = todo
  <2>1. PICK a : a = [Idle EXCEPT !.kind = "collect"]
    OBVIOUS
  <2>2. a \in Recs /\ Fresh(a, "collect", None, None, None)
    BY <1>4, <2>1, Blank
  <2>3. PICK b : b = [a EXCEPT !.req = r]
    OBVIOUS
  <2>4. b \in Recs /\ Fresh(b, "collect", r, None, None)
    BY <1>0, <2>2, <2>3 DEF Recs, Fresh
  <2>5. rec = [b EXCEPT !.id = id, !.todo = todo]
    BY <1>1, <2>1, <2>3
  <2>6. QED
    BY <1>0, <1>3, <2>4, <2>5 DEF Recs, Fresh
<1>6. Path(rec, rec.todo, s, "rest")
  BY <1>2, <1>5 DEF Fresh
<1>7. Moves(w, rec, s)
  BY <1>1, <1>4, <1>5, <1>6, StartsMoving
<1>8. QED
  BY <1>0, <1>5, <1>7 DEF Enters, s

(* An issuance by the gateway.                                               *)
LEMMA IssueStarts ==
    ASSUME Typed, NEW w \in Workers, Issue(w)
    PROVE  Enters(w, "issue", None, nextId, None, FirstOfMaking)
<1> DEFINE s == FirstOfMaking
<1>0. PICK id \in Ids \cup {None}, key \in Keys \cup {None} : id = nextId /\ key = None
  BY TypedParts DEF Issue, StoresTyped, Ids
<1>1. PICK todo, rec :
        /\ todo = IssueSteps
        /\ rec = [Idle EXCEPT !.kind = "issue", !.id = id, !.todo = todo]
        /\ worker' = [worker EXCEPT ![w] = rec]
  BY <1>0 DEF Issue, Start
<1>2. ASSUME NEW other, other.kind = "issue" PROVE Path(other, todo, s, "rest")
  BY <1>1, <1>2, IssuePath
<1>3. todo \in Seq(Steps)
  <2>1. PICK other : other = [kind |-> "issue"]
    OBVIOUS
  <2>2. QED
    BY <1>2, <2>1 DEF Path
<1>4. /\ "issue" \in Programs /\ s # "rest" /\ None \in Requests \cup {None}
      /\ None \in Ids \cup {None} /\ None \in Keys \cup {None}
  BY DEF Programs, FirstOfMaking
<1> HIDE DEF s
<1>5. rec \in Recs /\ Fresh(rec, "issue", None, id, key) /\ rec.todo = todo
  <2>1. PICK a : a = [Idle EXCEPT !.kind = "issue"]
    OBVIOUS
  <2>2. a \in Recs /\ Fresh(a, "issue", None, None, None)
    BY <1>4, <2>1, Blank
  <2>3. PICK b : b = [a EXCEPT !.id = id]
    OBVIOUS
  <2>4. b \in Recs /\ Fresh(b, "issue", None, id, None)
    BY <1>0, <2>2, <2>3 DEF Recs, Fresh
  <2>5. rec = [b EXCEPT !.todo = todo]
    BY <1>1, <2>1, <2>3
  <2>6. QED
    BY <1>0, <1>3, <2>4, <2>5 DEF Recs, Fresh
<1>6. Path(rec, rec.todo, s, "rest")
  BY <1>2, <1>5 DEF Fresh
<1>7. Moves(w, rec, s)
  BY <1>1, <1>4, <1>5, <1>6, StartsMoving
<1>8. QED
  BY <1>0, <1>5, <1>7 DEF Enters, s

(* A renewal.                                                                *)
LEMMA RenewStarts ==
    ASSUME Typed, NEW w \in Workers, Renew(w)
    PROVE  Enters(w, "renew", None, stores.access, stores.key, FirstOfRenewal)
<1> DEFINE s == FirstOfRenewal
<1>0. PICK id \in Ids \cup {None}, key \in Keys \cup {None} : id = stores.access /\ key = stores.key
  BY TypedParts DEF Renew, StoresTyped, Ids
<1>1. PICK todo, rec :
        /\ todo \in RenewSteps
        /\ rec = [Idle EXCEPT !.kind = "renew", !.id = id, !.key = key, !.todo = todo]
        /\ worker' = [worker EXCEPT ![w] = rec]
  BY <1>0 DEF Renew, Start
<1>2. ASSUME NEW other, other.kind = "renew" PROVE Path(other, todo, s, "rest")
  BY <1>1, <1>2, RenewPaths DEF FirstOfRenewal
<1>3. todo \in Seq(Steps)
  <2>1. PICK other : other = [kind |-> "renew"]
    OBVIOUS
  <2>2. QED
    BY <1>2, <2>1 DEF Path
<1>4. /\ "renew" \in Programs /\ s # "rest" /\ None \in Requests \cup {None}
      /\ None \in Ids \cup {None} /\ None \in Keys \cup {None}
  BY DEF Programs, FirstOfRenewal
<1> HIDE DEF s
<1>5. rec \in Recs /\ Fresh(rec, "renew", None, id, key) /\ rec.todo = todo
  <2>1. PICK a : a = [Idle EXCEPT !.kind = "renew"]
    OBVIOUS
  <2>2. a \in Recs /\ Fresh(a, "renew", None, None, None)
    BY <1>4, <2>1, Blank
  <2>3. PICK b : b = [a EXCEPT !.id = id]
    OBVIOUS
  <2>4. b \in Recs /\ Fresh(b, "renew", None, id, None)
    BY <1>0, <2>2, <2>3 DEF Recs, Fresh
  <2>5. rec = [b EXCEPT !.key = key, !.todo = todo]
    BY <1>1, <2>1, <2>3
  <2>6. QED
    BY <1>0, <1>3, <2>4, <2>5 DEF Recs, Fresh
<1>6. Path(rec, rec.todo, s, "rest")
  BY <1>2, <1>5 DEF Fresh
<1>7. Moves(w, rec, s)
  BY <1>1, <1>4, <1>5, <1>6, StartsMoving
<1>8. QED
  BY <1>0, <1>5, <1>7 DEF Enters, s

(* A revocation.                                                             *)
LEMMA RevokeStarts ==
    ASSUME Typed, NEW w \in Workers, Revoke(w)
    PROVE  Enters(w, "revoke", None, stores.access, None, "svc")
<1> DEFINE s == "svc"
<1>0. PICK id \in Ids \cup {None}, key \in Keys \cup {None} : id = stores.access /\ key = None
  BY TypedParts DEF Revoke, StoresTyped, Ids
<1>1. PICK todo, rec :
        /\ todo = <<"svc">>
        /\ rec = [Idle EXCEPT !.kind = "revoke", !.id = id, !.todo = todo]
        /\ worker' = [worker EXCEPT ![w] = rec]
  BY <1>0 DEF Revoke, Start
<1>2. ASSUME NEW other, other.kind = "revoke" PROVE Path(other, todo, s, "rest")
  BY <1>1, <1>2, ShortPaths DEF Follows, Steps, Deleting
<1>3. todo \in Seq(Steps)
  <2>1. PICK other : other = [kind |-> "revoke"]
    OBVIOUS
  <2>2. QED
    BY <1>2, <2>1 DEF Path
<1>4. /\ "revoke" \in Programs /\ s # "rest" /\ None \in Requests \cup {None}
      /\ None \in Ids \cup {None} /\ None \in Keys \cup {None}
  BY DEF Programs, FirstOfMaking
<1> HIDE DEF s
<1>5. rec \in Recs /\ Fresh(rec, "revoke", None, id, key) /\ rec.todo = todo
  <2>1. PICK a : a = [Idle EXCEPT !.kind = "revoke"]
    OBVIOUS
  <2>2. a \in Recs /\ Fresh(a, "revoke", None, None, None)
    BY <1>4, <2>1, Blank
  <2>3. PICK b : b = [a EXCEPT !.id = id]
    OBVIOUS
  <2>4. b \in Recs /\ Fresh(b, "revoke", None, id, None)
    BY <1>0, <2>2, <2>3 DEF Recs, Fresh
  <2>5. rec = [b EXCEPT !.todo = todo]
    BY <1>1, <2>1, <2>3
  <2>6. QED
    BY <1>0, <1>3, <2>4, <2>5 DEF Recs, Fresh
<1>6. Path(rec, rec.todo, s, "rest")
  BY <1>2, <1>5 DEF Fresh
<1>7. Moves(w, rec, s)
  BY <1>1, <1>4, <1>5, <1>6, StartsMoving
<1>8. QED
  BY <1>0, <1>5, <1>7 DEF Enters, s

(* An update of a request.                                                  *)
LEMMA UpdateStarts ==
    ASSUME Typed, NEW w \in Workers, NEW r \in Requests, NEW kind \in {"approve", "reject"},
           IF kind = "approve" THEN Approve(w, r) ELSE Reject(w, r)
    PROVE  Enters(w, kind, r, None, None, "write")
<1>0. PICK open \in BOOLEAN : open = Open(kind, r)
  BY DEF Open
<1>1. PICK todo, rec :
        /\ todo = <<"write">> \o
                (IF open THEN IF kind = "approve" THEN <<"details">> \o Setup
                              ELSE <<"details">>
                 ELSE <<>>)
        /\ rec = [Idle EXCEPT !.kind = kind, !.req = r, !.todo = todo]
        /\ worker' = [worker EXCEPT ![w] = rec]
  <2>1. CASE kind = "approve"
    BY <1>0, <2>1 DEF Approve, Start
  <2>2. CASE kind = "reject"
    BY <1>0, <2>2 DEF Reject, Start
  <2>3. QED
    BY <2>1, <2>2
<1>2. ASSUME NEW other, other.kind = kind PROVE Path(other, todo, "write", "rest")
  BY <1>0, <1>1, <1>2, UpdatePaths
<1>3. todo \in Seq(Steps)
  <2>1. PICK other : other = [kind |-> kind]
    OBVIOUS
  <2>2. QED
    BY <1>2, <2>1 DEF Path
<1>4. /\ kind \in Programs /\ r \in Requests \cup {None}
      /\ None \in Ids \cup {None} /\ None \in Keys \cup {None}
  BY DEF Programs
<1>5. rec \in Recs /\ Fresh(rec, kind, r, None, None) /\ rec.todo = todo
  <2>1. PICK a : a = [Idle EXCEPT !.kind = kind]
    OBVIOUS
  <2>2. a \in Recs /\ Fresh(a, kind, None, None, None)
    BY <1>4, <2>1, Blank
  <2>3. PICK b : b = [a EXCEPT !.req = r]
    OBVIOUS
  <2>4. b \in Recs /\ Fresh(b, kind, r, None, None)
    BY <2>2, <2>3 DEF Recs, Fresh
  <2>5. rec = [b EXCEPT !.todo = todo]
    BY <1>1, <2>1, <2>3
  <2>6. QED
    BY <1>3, <2>4, <2>5 DEF Recs, Fresh
<1>6. Path(rec, rec.todo, "write", "rest")
  BY <1>2, <1>5 DEF Fresh
<1>7. Moves(w, rec, "write")
  BY <1>1, <1>5, <1>6, StartsMoving
<1>8. QED
  BY <1>5, <1>7 DEF Enters

(* What started is still remembered as it should be.                        *)
LEMMA StartRemembers ==
    ASSUME Typed, NEW w, NEW activity, NEW rec, activity = "issue" => rec.id \in Ids,
           Start(w, activity, rec)
    PROVE  Remembered'
BY TypedParts DEF Start, Overlapping, Remembered

(* Every activity that starts keeps the types.                              *)
LEMMA StartingTyped ==
    ASSUME Typed, CredentialAssumption, NEW w \in Workers,
           \/ \E r \in Requests : Collect(w, r) \/ Approve(w, r) \/ Reject(w, r)
           \/ Issue(w) \/ Renew(w) \/ Revoke(w)
    PROVE  Typed'
<1>0. /\ UNCHANGED <<env, request, stores, feed, faults>>
      /\ RequestsTyped' /\ StoresTyped' /\ (nextId \in 1..(MaxIds + 1))'
      /\ (feed \in Ids \cup {None})' /\ (faults \in 0..MaxFaults)'
      /\ nextId <= MaxIds => nextId \in Ids
  <2>1. /\ UNCHANGED <<env, request, stores, feed, faults>>
        /\ nextId' = nextId \/ (nextId <= MaxIds /\ nextId' = nextId + 1)
    BY DEF Collect, Approve, Reject, Issue, Renew, Revoke
  <2>2. (nextId \in 1..(MaxIds + 1))' /\ (nextId <= MaxIds => nextId \in Ids)
    BY <2>1, TypedParts DEF CredentialAssumption, Ids
  <2>3. RequestsTyped' /\ StoresTyped'
    BY <2>1, TypedParts, WithoutTyped DEF RequestsTyped
  <2>4. QED
    BY <2>1, <2>2, <2>3, TypedParts
<1>1. Remembered'
  <2>1. ASSUME NEW activity, NEW rec, activity # "issue", Start(w, activity, rec)
        PROVE  Remembered'
    BY <2>1, StartRemembers
  <2>2. CASE Issue(w)
    <3>1. PICK rec : rec = [Idle EXCEPT !.kind = "issue", !.id = nextId, !.todo = IssueSteps]
      OBVIOUS
    <3>2. rec.id \in Ids
      BY <1>0, <2>2, <3>1 DEF Issue, Idle
    <3>3. Start(w, "issue", rec)
      BY <2>2, <3>1 DEF Issue
    <3>4. QED
      BY <3>2, <3>3, StartRemembers
  <2>3. CASE ~Issue(w)
    BY <2>1, <2>3 DEF Collect, Approve, Reject, Renew, Revoke
  <2>4. QED
    BY <2>2, <2>3
<1>2. PICK rec, s : rec \in Recs /\ Moves(w, rec, s) /\ Carries(rec, s)
  <2>1. ASSUME NEW r \in Requests, Collect(w, r)
        PROVE  \E rec, s : rec \in Recs /\ Moves(w, rec, s) /\ Carries(rec, s)
    <3>1. nextId \in Ids
      BY <1>0, <2>1 DEF Collect
    <3>2. Enters(w, "collect", r, nextId, None, FirstOfMaking)
      BY <2>1, CollectStarts
    <3>3. QED
      BY <3>1, <3>2 DEF Enters, Fresh, Carries, FirstOfMaking, Deleting
  <2>2. ASSUME NEW r \in Requests, NEW kind \in {"approve", "reject"},
               IF kind = "approve" THEN Approve(w, r) ELSE Reject(w, r)
        PROVE  \E rec, s : rec \in Recs /\ Moves(w, rec, s) /\ Carries(rec, s)
    <3>1. Enters(w, kind, r, None, None, "write")
      BY <2>2, UpdateStarts
    <3>2. QED
      BY <3>1 DEF Enters, Fresh, Carries, Deleting
  <2>3. CASE \E r \in Requests : Approve(w, r) \/ Reject(w, r)
    BY <2>2, <2>3
  <2>4. CASE Issue(w)
    <3>1. nextId \in Ids
      BY <1>0, <2>4 DEF Issue
    <3>2. Enters(w, "issue", None, nextId, None, FirstOfMaking)
      BY <2>4, IssueStarts
    <3>3. QED
      BY <3>1, <3>2 DEF Enters, Fresh, Carries, FirstOfMaking, Deleting
  <2>5. CASE Renew(w)
    <3>1. stores.access \in Ids
      BY <2>5, TypedParts DEF Renew, StoresTyped
    <3>2. Enters(w, "renew", None, stores.access, stores.key, FirstOfRenewal)
      BY <2>5, RenewStarts
    <3>3. QED
      BY <3>1, <3>2 DEF Enters, Fresh, Carries, FirstOfRenewal, Deleting
  <2>6. CASE Revoke(w)
    <3>1. stores.access \in Ids
      BY <2>6, TypedParts DEF Revoke, StoresTyped
    <3>2. Enters(w, "revoke", None, stores.access, None, "svc")
      BY <2>6, RevokeStarts
    <3>3. QED
      BY <3>1, <3>2 DEF Enters, Fresh, Carries, Deleting
  <2>7. QED
    BY <2>1, <2>3, <2>4, <2>5, <2>6
<1>3. QED
  BY <1>0, <1>1, <1>2, TypedAfter

(* What no worker does.                                                     *)
LEMMA OthersTyped ==
    ASSUME Typed, CredentialAssumption,
           \/ \E r \in Requests : CreateRequest(r) \/ Cancel(r)
           \/ FeedRead \/ FeedWrite \/ UNCHANGED vars
    PROVE  Typed'
<1>1. UNCHANGED <<env, worker, nextId, faults>>
  BY DEF CreateRequest, Cancel, FeedRead, FeedWrite, vars
<1>2. Programmed'
  <2>1. ASSUME NEW v \in Workers
        PROVE  /\ Chained(worker[v], worker[v].todo)'
               /\ worker'[v].todo = <<>> => worker'[v] = Idle
               /\ Carries(worker[v], Step(v))'
    <3>1. PICK r, s : r = worker[v] /\ s = Step(v)
      OBVIOUS
    <3>2. Chained(r, r.todo) /\ (r.todo = <<>> => r = Idle) /\ Carries(r, s)
      BY <3>1, TypedParts DEF Programmed
    <3>3. Chained(r, r.todo)'
      BY <1>1, <3>2, PathKept DEF Chained, First
    <3>4. QED
      BY <1>1, <3>1, <3>2, <3>3 DEF Carries, Step
  <2>2. QED
    BY <2>1 DEF Programmed
<1>3. RequestsTyped'
  <2>1. ASSUME NEW r \in Requests, CreateRequest(r) PROVE RequestsTyped'
    <3>1. PICK was \in RequestRecs : was = request[r]
      BY TypedParts DEF RequestsTyped, RequestRecs
    <3>2. [was EXCEPT !.made = TRUE] \in RequestRecs
      BY DEF RequestRecs
    <3>3. QED
      BY <2>1, <3>1, <3>2, OneRequest DEF CreateRequest
  <2>2. ASSUME NEW r \in Requests, Cancel(r) PROVE RequestsTyped'
    <3>1. Gone \in RequestRecs
      BY DEF Gone, NotMade, RequestRecs, None
    <3>2. QED
      BY <2>2, <3>1, OneRequest DEF Cancel
  <2>3. UNCHANGED request => RequestsTyped'
    BY TypedParts DEF RequestsTyped
  <2>4. QED
    BY <2>1, <2>2, <2>3 DEF FeedRead, FeedWrite, vars
<1>4. StoresTyped'
  <2>1. ASSUME FeedWrite PROVE StoresTyped'
    BY <2>1, TypedParts DEF FeedWrite, Synced, StoresTyped
  <2>2. UNCHANGED stores => StoresTyped'
    BY TypedParts, WithoutTyped
  <2>3. QED
    BY <2>1, <2>2 DEF CreateRequest, Cancel, FeedRead, vars
<1>5. Remembered'
  BY TypedParts DEF CreateRequest, Cancel, FeedRead, FeedWrite, vars, Overlapping, Remembered
<1>6. (feed \in Ids \cup {None})'
  BY TypedParts DEF CreateRequest, Cancel, FeedRead, FeedWrite, vars, StoresTyped
<1>7. QED
  BY <1>1, <1>2, <1>3, <1>4, <1>5, <1>6, TypedParts
     DEF Typed, TypeOK, RequestsTyped, StoresTyped, Recs

(* The types hold at first,                                                 *)
LEMMA TypedInit == CredentialAssumption /\ Init => Typed
<1> SUFFICES ASSUME CredentialAssumption, Init PROVE Typed
  OBVIOUS
<1>1. Idle \in Recs /\ Idle.todo = <<>>
  BY DEF Idle, Recs, Programs
<1>2. TypeOK
  <2>1. request \in [Requests -> RequestRecs]
    BY DEF Init, NotMade, RequestRecs
  <2>2. worker \in [Workers -> Recs]
    BY <1>1 DEF Init
  <2>3. StoresTyped
    BY DEF Init, Empty, StoresTyped
  <2>4. QED
    BY <2>1, <2>2, <2>3 DEF Init, TypeOK, Recs, RequestRecs, StoresTyped, CredentialAssumption
<1>3. Remembered
  BY DEF Init, Remembered
<1>4. Programmed
  <2>1. ASSUME NEW w \in Workers
        PROVE  worker[w] = Idle /\ Step(w) = "rest"
    BY <1>1 DEF Init, Step, First
  <2>2. Chained(Idle, <<>>)
    BY ShortPaths DEF Chained, First
  <2>3. Carries(Idle, "rest")
    BY DEF Carries, Idle, Deleting
  <2>4. QED
    BY <1>1, <2>1, <2>2, <2>3 DEF Programmed
<1>5. QED
  BY <1>2, <1>3, <1>4 DEF Typed

(* A restart leaves the worker with nothing to do.                           *)
LEMMA StopMoves ==
    ASSUME Typed, CredentialAssumption, NEW w \in Workers, Stop(w)
    PROVE  /\ Moves(w, worker[w], "rest") /\ UNCHANGED <<env, request, stores, feed, nextId>>
           /\ history' = [history EXCEPT !.dirty = TRUE] /\ faults' = faults + 1
           /\ (faults \in 0..MaxFaults)'
<1>1. PICK r : r = worker[w]
  OBVIOUS
<1>2. Path(r, <<>>, "rest", "rest")
  BY ShortPaths
<1>3. Moves(w, worker[w], "rest")
  BY <1>1, <1>2 DEF Stop, Moves
<1>4. QED
  BY <1>3, FaultsTyped DEF Stop, Fails

LEMMA StopTyped ==
    ASSUME Typed, CredentialAssumption, NEW w \in Workers, Stop(w)
    PROVE  Typed'
<1>1. PICK rec, t : rec \in Recs /\ rec = worker[w] /\ t = "rest" /\ Moves(w, rec, t)
  BY StopMoves, TypedParts
<1>2. UNCHANGED env /\ RequestsTyped' /\ StoresTyped' /\ Remembered'
  BY TypedParts, WithoutTyped DEF Stop, RequestsTyped, Remembered
<1>3. (feed \in Ids \cup {None})' /\ (nextId \in 1..(MaxIds + 1))' /\ (faults \in 0..MaxFaults)'
  BY StopMoves, TypedParts
<1>4. t # "rest" => Carries(rec, t)
  BY <1>1
<1>5. QED
  BY <1>1, <1>2, <1>3, <1>4, TypedAfter

(* and after every step.                                                    *)
LEMMA TypedNext == CredentialAssumption /\ Typed /\ [Next]_vars => Typed'
<1> SUFFICES ASSUME CredentialAssumption, Typed, [Next]_vars PROVE Typed'
  OBVIOUS
<1>1. ASSUME NEW w \in Workers, Work(w) PROVE Typed'
  BY <1>1, MakingTyped, TryingTyped, AddKeyTyped, LinkTyped, WriteTyped, CompleteTyped,
     LookUpDetailsTyped, LookUpTyped, EnableTyped, RelinkTyped, UnissueTyped,
     LookUpAccessTyped, DeleteRequestTyped DEF Work
<1>2. QED
  BY <1>1, StartingTyped, StopTyped, OthersTyped DEF Next

(* Types are kept, for any workers, flows, requests, attempts, keys and       *)
(* faults: nothing is enabled, and no group or key set, on what is not there.  *)
THEOREM TypeCorrect == Spec => []TypeOK
<1>1. Init => Typed
  BY TypedInit, CredentialAssumption
<1>2. Typed /\ [Next]_vars => Typed'
  BY TypedNext, CredentialAssumption
<1>3. Typed => TypeOK
  BY DEF Typed
<1>4. QED
  BY <1>1, <1>2, <1>3, PTL DEF Spec

-----------------------------------------------------------------------------
(***************************************************************************)
(* The steps without their lists: where the worker goes, and what changes.    *)
(***************************************************************************)

Throws(w, s) ==
    /\ Moves(w, worker[w], FirstOfRecovery(worker[w].kind, s))
    /\ UNCHANGED <<request, stores, history>>

Called(w, s, able, new) ==
    /\ Step(w) = s /\ UNCHANGED <<env, feed, nextId>>
    /\ \/ able /\ stores' = new /\ Went(w, worker[w], s) /\ UNCHANGED <<request, history>>
       \/ Throws(w, s)

(* A failure that is not thrown is remembered, when nothing told of it.       *)
Unnoticed(able) ==
    \/ ~able /\ UNCHANGED history
    \/ history' = [history EXCEPT !.dirty = TRUE] /\ faults' = faults + 1

Tried(w, s, able, new) ==
    /\ Step(w) = s /\ UNCHANGED <<env, feed, nextId, request>> /\ Went(w, worker[w], s)
    /\ \/ able /\ stores' = new /\ UNCHANGED history
       \/ UNCHANGED stores /\ Unnoticed(able)

(* A step that throws,                                                      *)
LEMMA AttemptMoves ==
    ASSUME Typed, NEW w \in Workers, NEW s \in Attempted, Doing(w, s),
           Continue(w, worker[w], Recovery(worker[w].kind, s)),
           UNCHANGED <<request, stores, history>>
    PROVE  Throws(w, s)
BY Recovers DEF Throws

(* a call that is made or throws,                                           *)
LEMMA CallMoves ==
    ASSUME Typed, NEW w \in Workers, NEW s \in Attempted, NEW able, NEW new,
           Call(w, s, able, new)
    PROVE  Called(w, s, able, new)
<1>1. Doing(w, s) /\ Step(w) = s /\ UNCHANGED <<env, feed, nextId>>
  BY DoingStep DEF Call, Attempt
<1>2. CASE able /\ stores' = new /\ Proceed(w) /\ UNCHANGED <<request, history>>
  BY <1>1, <1>2, Proceeds DEF Called
<1>3. CASE /\ Continue(w, worker[w], Recovery(worker[w].kind, s))
           /\ UNCHANGED <<request, stores, history>>
  BY <1>1, <1>3, AttemptMoves DEF Called
<1>4. QED
  BY <1>2, <1>3 DEF Call, Attempt

(* a failure that is only logged,                                           *)
LEMMA FailsUnnoticed ==
    ASSUME Typed, CredentialAssumption, NEW able, Fails(able),
           history' = [history EXCEPT !.dirty = @ \/ faults' # faults]
    PROVE  Unnoticed(able)
<1>1. PICK h \in [justified : SUBSET (Ids \cup {None}), issued : SUBSET Ids,
                  astray : BOOLEAN, overlapped : BOOLEAN, dirty : BOOLEAN] : h = history
  BY TypedParts DEF Remembered
<1>2. CASE ~able /\ UNCHANGED faults
  <2>1. history' = [h EXCEPT !.dirty = h.dirty]
    BY <1>1, <1>2
  <2>2. history' = h
    BY <2>1
  <2>3. QED
    BY <1>1, <1>2, <2>2 DEF Unnoticed
<1>3. CASE faults' = faults + 1
  <2>1. faults' # faults
    BY <1>3, TypedParts DEF CredentialAssumption
  <2>2. QED
    BY <1>3, <2>1 DEF Unnoticed
<1>4. QED
  BY <1>2, <1>3 DEF Fails

(* and a call whose failure is only logged.                                 *)
LEMMA TryMoves ==
    ASSUME Typed, CredentialAssumption, NEW w \in Workers, NEW s, NEW able, NEW new,
           Try(w, s, able, new, {Rest(w)})
    PROVE  Tried(w, s, able, new)
<1>1. Doing(w, s) /\ Step(w) = s /\ UNCHANGED <<env, feed, nextId, request>>
  BY DoingStep DEF Try
<1>2. Went(w, worker[w], s)
  BY <1>1, Proceeds DEF Try, Proceed
<1>3. QED
  BY <1>1, <1>2, FailsUnnoticed DEF Try, Tried

(* The steps that are only called.                                          *)
LEMMA CallsMove ==
    ASSUME Typed, NEW w \in Workers
    PROVE  /\ RegisterClient(w) =>
              Called(w, "client", stores.client = None,
                     [stores EXCEPT !.client = Own(w), !.enabled = FALSE])
           /\ CreateKongConsumer(w) =>
              Called(w, "consumer", stores.kong = None,
                     [stores EXCEPT !.kong = Own(w), !.acl = FALSE])
           /\ AddConsumerRow(w) =>
              Called(w, "row", stores.row = None,
                     [stores EXCEPT !.row = Own(w), !.own = Own(w)])
           /\ AddServiceAccess(w) =>
              Called(w, "access", stores.access = None /\ stores.own = Own(w),
                     [stores EXCEPT !.access = Own(w), !.active = FALSE, !.key = worker[w].key])
           /\ PutClient(w) =>
              Called(w, "put", stores.client = worker[w].consumer,
                     [stores EXCEPT !.enabled = worker[w].seen])
           /\ ForceSync(w) =>
              \/ Called(w, "sync", TRUE, Synced(Found(Own(w))))
              \/ Called(w, "resync", TRUE, Synced(Found(worker[w].consumer)))
<1>1. ASSUME RegisterClient(w)
      PROVE  Called(w, "client", stores.client = None,
                    [stores EXCEPT !.client = Own(w), !.enabled = FALSE])
  <2> DEFINE able == stores.client = None
             new == [stores EXCEPT !.client = Own(w), !.enabled = FALSE]
  <2>1. Call(w, "client", able, new) /\ "client" \in Attempted
    BY <1>1 DEF RegisterClient, Attempted
  <2> HIDE DEF able, new
  <2>2. Called(w, "client", able, new)
    BY <2>1, CallMoves
  <2>3. QED
    BY <2>2 DEF able, new
<1>2. ASSUME CreateKongConsumer(w)
      PROVE  Called(w, "consumer", stores.kong = None,
                    [stores EXCEPT !.kong = Own(w), !.acl = FALSE])
  <2> DEFINE able == stores.kong = None
             new == [stores EXCEPT !.kong = Own(w), !.acl = FALSE]
  <2>1. Call(w, "consumer", able, new) /\ "consumer" \in Attempted
    BY <1>2 DEF CreateKongConsumer, Attempted
  <2> HIDE DEF able, new
  <2>2. Called(w, "consumer", able, new)
    BY <2>1, CallMoves
  <2>3. QED
    BY <2>2 DEF able, new
<1>3. ASSUME AddConsumerRow(w)
      PROVE  Called(w, "row", stores.row = None,
                    [stores EXCEPT !.row = Own(w), !.own = Own(w)])
  <2> DEFINE able == stores.row = None
             new == [stores EXCEPT !.row = Own(w), !.own = Own(w)]
  <2>1. Call(w, "row", able, new) /\ "row" \in Attempted
    BY <1>3 DEF AddConsumerRow, Attempted
  <2> HIDE DEF able, new
  <2>2. Called(w, "row", able, new)
    BY <2>1, CallMoves
  <2>3. QED
    BY <2>2 DEF able, new
<1>4. ASSUME AddServiceAccess(w)
      PROVE  Called(w, "access", stores.access = None /\ stores.own = Own(w),
                    [stores EXCEPT !.access = Own(w), !.active = FALSE, !.key = worker[w].key])
  <2> DEFINE able == stores.access = None /\ stores.own = Own(w)
             new == [stores EXCEPT !.access = Own(w), !.active = FALSE, !.key = worker[w].key]
  <2>1. Call(w, "access", able, new) /\ "access" \in Attempted
    BY <1>4 DEF AddServiceAccess, Attempted
  <2> HIDE DEF able, new
  <2>2. Called(w, "access", able, new)
    BY <2>1, CallMoves
  <2>3. QED
    BY <2>2 DEF able, new
<1>5. ASSUME PutClient(w)
      PROVE  Called(w, "put", stores.client = worker[w].consumer,
                    [stores EXCEPT !.enabled = worker[w].seen])
  <2> DEFINE able == stores.client = worker[w].consumer
             new == [stores EXCEPT !.enabled = worker[w].seen]
  <2>1. Call(w, "put", able, new) /\ "put" \in Attempted
    BY <1>5 DEF PutClient, Attempted
  <2> HIDE DEF able, new
  <2>2. Called(w, "put", able, new)
    BY <2>1, CallMoves
  <2>3. QED
    BY <2>2 DEF able, new
<1>6. ASSUME ForceSync(w)
      PROVE  \/ Called(w, "sync", TRUE, Synced(Found(Own(w))))
             \/ Called(w, "resync", TRUE, Synced(Found(worker[w].consumer)))
  <2>1. {"sync", "resync"} \subseteq Attempted
    BY DEF Attempted
  <2>2. QED
    BY <1>6, <2>1, CallMoves DEF ForceSync
<1>7. QED
  BY <1>1, <1>2, <1>3, <1>4, <1>5, <1>6

(* The steps whose failure is not thrown.                                    *)
LEMMA TriesMove ==
    ASSUME Typed, CredentialAssumption, NEW w \in Workers
    PROVE  /\ Activate(w) =>
              Tried(w, "activate", TRUE,
                    [stores EXCEPT !.active = @ \/ stores.access = Own(w)])
           /\ DeleteKeyAuth(w) =>
              \/ Tried(w, "unkey",
                       stores.kong = worker[w].consumer /\ worker[w].key \in stores.keys,
                       [stores EXCEPT !.keys = @ \ {worker[w].key}])
              \/ Called(w, "unkey", FALSE, stores)
           /\ CleanKong(w) =>
              Tried(w, "cleanKong", TRUE,
                    IF stores.kong = Own(w) THEN WithoutKong ELSE stores)
           /\ CleanClient(w) =>
              Tried(w, "cleanClient", TRUE,
                    WithoutClient)
           /\ DeleteClient(w) =>
              Tried(w, "unclient", stores.client # None,
                    WithoutClient)
           /\ DeleteServiceAccess(w) =>
              Tried(w, "unaccess", TRUE,
                    IF stores.access = Own(w)
                    THEN [stores EXCEPT !.access = None, !.active = FALSE, !.key = None]
                    ELSE stores)
           /\ CleanRow(w) =>
              \/ Tried(w, "cleanRow", TRUE, IF stores.row = Own(w) THEN WithoutRow ELSE stores)
              \/ Tried(w, "cleanOwn", TRUE, IF stores.own = Own(w) THEN WithoutRow ELSE stores)
<1>1. ASSUME Activate(w)
      PROVE  Tried(w, "activate", TRUE,
                   [stores EXCEPT !.active = @ \/ stores.access = Own(w)])
  <2> DEFINE able == TRUE
             new == [stores EXCEPT !.active = @ \/ stores.access = Own(w)]
  <2>1. Try(w, "activate", able, new, {Rest(w)})
    BY <1>1 DEF Activate
  <2> HIDE DEF able, new
  <2>2. Tried(w, "activate", able, new)
    BY <2>1, TryMoves
  <2>3. QED
    BY <2>2 DEF able, new
<1>2. ASSUME DeleteKeyAuth(w)
      PROVE  \/ Tried(w, "unkey",
                      stores.kong = worker[w].consumer /\ worker[w].key \in stores.keys,
                      [stores EXCEPT !.keys = @ \ {worker[w].key}])
             \/ Called(w, "unkey", FALSE, stores)
  <2> DEFINE able == stores.kong = worker[w].consumer /\ worker[w].key \in stores.keys
             new == [stores EXCEPT !.keys = @ \ {worker[w].key}]
  <2>1. CASE Try(w, "unkey", able, new, {Rest(w)})
    <3> HIDE DEF able, new
    <3>1. Tried(w, "unkey", able, new)
      BY <2>1, TryMoves
    <3>2. QED
      BY <3>1 DEF able, new
  <2>2. CASE Attempt(w, "unkey", TRUE, FALSE)
    <3>1. Throws(w, "unkey") /\ Step(w) = "unkey" /\ UNCHANGED <<env, feed, nextId>>
      BY <2>2, AttemptMoves, DoingStep DEF Attempt, Attempted
    <3>2. QED
      BY <3>1 DEF Called
  <2>3. QED
    BY <1>2, <2>1, <2>2 DEF DeleteKeyAuth
<1>3. ASSUME CleanKong(w)
      PROVE  Tried(w, "cleanKong", TRUE,
                   IF stores.kong = Own(w) THEN WithoutKong ELSE stores)
  <2> DEFINE able == TRUE
             new == IF stores.kong = Own(w) THEN WithoutKong ELSE stores
  <2>1. Try(w, "cleanKong", able, new, {Rest(w)})
    BY <1>3 DEF CleanKong
  <2> HIDE DEF able, new
  <2>2. Tried(w, "cleanKong", able, new)
    BY <2>1, TryMoves
  <2>3. QED
    BY <2>2 DEF able, new
<1>4. ASSUME CleanClient(w)
      PROVE  Tried(w, "cleanClient", TRUE,
                   WithoutClient)
  <2> DEFINE able == TRUE
             new == WithoutClient
  <2>1. Try(w, "cleanClient", able, new, {Rest(w)})
    BY <1>4 DEF CleanClient
  <2> HIDE DEF able, new
  <2>2. Tried(w, "cleanClient", able, new)
    BY <2>1, TryMoves
  <2>3. QED
    BY <2>2 DEF able, new
<1>5. ASSUME DeleteClient(w)
      PROVE  Tried(w, "unclient", stores.client # None,
                   WithoutClient)
  <2> DEFINE able == stores.client # None
             new == WithoutClient
  <2>1. Try(w, "unclient", able, new, {Rest(w)})
    BY <1>5 DEF DeleteClient
  <2> HIDE DEF able, new
  <2>2. Tried(w, "unclient", able, new)
    BY <2>1, TryMoves
  <2>3. QED
    BY <2>2 DEF able, new
<1>6. ASSUME DeleteServiceAccess(w)
      PROVE  Tried(w, "unaccess", TRUE,
                   IF stores.access = Own(w)
                   THEN [stores EXCEPT !.access = None, !.active = FALSE, !.key = None]
                   ELSE stores)
  <2> DEFINE able == TRUE
             new == IF stores.access = Own(w)
                    THEN [stores EXCEPT !.access = None, !.active = FALSE, !.key = None]
                    ELSE stores
  <2>1. Try(w, "unaccess", able, new, {Rest(w)})
    BY <1>6 DEF DeleteServiceAccess
  <2> HIDE DEF able, new
  <2>2. Tried(w, "unaccess", able, new)
    BY <2>1, TryMoves
  <2>3. QED
    BY <2>2 DEF able, new
<1>7. ASSUME CleanRow(w)
      PROVE  \/ Tried(w, "cleanRow", TRUE, IF stores.row = Own(w) THEN WithoutRow ELSE stores)
             \/ Tried(w, "cleanOwn", TRUE, IF stores.own = Own(w) THEN WithoutRow ELSE stores)
  <2> DEFINE byRow == IF stores.row = Own(w) THEN WithoutRow ELSE stores
             byOwn == IF stores.own = Own(w) THEN WithoutRow ELSE stores
  <2>1. \/ Try(w, "cleanRow", TRUE, byRow, {Rest(w)})
        \/ Try(w, "cleanOwn", TRUE, byOwn, {Rest(w)})
    BY <1>7 DEF CleanRow
  <2> HIDE DEF byRow, byOwn
  <2>2. Tried(w, "cleanRow", TRUE, byRow) \/ Tried(w, "cleanOwn", TRUE, byOwn)
    BY <2>1, TryMoves
  <2>3. QED
    BY <2>2 DEF byRow, byOwn
<1>8. QED
  BY <1>1, <1>2, <1>3, <1>4, <1>5, <1>6, <1>7

(* The reference to the new key.                                            *)
LEMMA RelinkMoves ==
    ASSUME Typed, CredentialAssumption, NEW w \in Workers, Relink(w)
    PROVE  Tried(w, "relink", stores.access = Own(w),
                 [stores EXCEPT !.active = TRUE, !.key = worker[w].key])
<1>1. /\ Doing(w, "relink") /\ Step(w) = "relink" /\ UNCHANGED <<env, feed, nextId, request>>
      /\ Went(w, worker[w], "relink")
  BY DoingStep, Proceeds DEF Relink
<1>2. QED
  BY <1>1, FailsUnnoticed DEF Relink, Tried

(* Deletions that are given up, or that spare the client.                    *)
LEMMA DeletesMove ==
    ASSUME Typed, CredentialAssumption, NEW w \in Workers
    PROVE  /\ DeleteRow(w) =>
              /\ Step(w) = "unrow" /\ UNCHANGED <<env, feed, nextId, request>>
              /\ \/ /\ stores' = IF stores.own = Own(w) THEN WithoutRow ELSE stores
                    /\ Went(w, worker[w], "unrow") /\ UNCHANGED history
                 \/ /\ UNCHANGED stores /\ history' = [history EXCEPT !.dirty = TRUE]
                    /\ faults' = faults + 1
                    /\ \/ Went(w, worker[w], "unrow")
                       \/ Moves(w, worker[w], "rest")
                       \/ Moves(w, worker[w], "unissue") /\ worker[w].kind = "reject"
           /\ DeleteKongConsumer(w) =>
              /\ Step(w) = "unkong" /\ UNCHANGED <<env, feed, nextId, request>>
              /\ \/ /\ stores.kong = worker[w].consumer /\ stores' = WithoutKong
                    /\ Went(w, worker[w], "unkong") /\ UNCHANGED history
                 \/ /\ UNCHANGED stores /\ Unnoticed(stores.kong = worker[w].consumer)
                    /\ Moves(w, worker[w], "unaccess")
           /\ DeleteRequest(w) =>
              /\ Step(w) = "unrequest" /\ UNCHANGED <<env, feed, nextId, stores>>
              /\ \/ /\ request' = [r \in Requests |->
                          IF request[r].made /\ request[r].access = Own(w) THEN Gone
                          ELSE request[r]]
                    /\ Went(w, worker[w], "unrequest") /\ UNCHANGED history
                 \/ /\ UNCHANGED request /\ history' = [history EXCEPT !.dirty = TRUE]
                    /\ faults' = faults + 1
                    /\ \/ Went(w, worker[w], "unrequest")
                       \/ Moves(w, worker[w], "rest")
                       \/ Moves(w, worker[w], "unissue") /\ worker[w].kind = "reject"
<1>1. ASSUME DeleteRow(w)
      PROVE  /\ Step(w) = "unrow" /\ UNCHANGED <<env, feed, nextId, request>>
             /\ \/ /\ stores' = IF stores.own = Own(w) THEN WithoutRow ELSE stores
                   /\ Went(w, worker[w], "unrow") /\ UNCHANGED history
                \/ /\ UNCHANGED stores /\ history' = [history EXCEPT !.dirty = TRUE]
                   /\ faults' = faults + 1
                   /\ \/ Went(w, worker[w], "unrow")
                      \/ Moves(w, worker[w], "rest")
                      \/ Moves(w, worker[w], "unissue") /\ worker[w].kind = "reject"
  <2>1. /\ Doing(w, "unrow") /\ Step(w) = "unrow" /\ UNCHANGED <<env, feed, nextId, request>>
        /\ "unrow" \in Deleting
    BY <1>1, DoingStep DEF DeleteRow, Try, Deleting
  <2>2. CASE /\ stores' = IF stores.own = Own(w) THEN WithoutRow ELSE stores
             /\ Proceed(w) /\ UNCHANGED history
    BY <2>1, <2>2, Proceeds
  <2>3. CASE /\ Fails(TRUE) /\ UNCHANGED stores
             /\ history' = [history EXCEPT !.dirty = @ \/ faults' # faults]
             /\ \/ Continue(w, worker[w], Rest(w))
                \/ Continue(w, worker[w], Abandoned(Rest(w)))
    <3>1. Unnoticed(TRUE)
      BY <2>3, FailsUnnoticed
    <3>2. history' = [history EXCEPT !.dirty = TRUE] /\ faults' = faults + 1
      BY <3>1 DEF Unnoticed
    <3>3. \/ Went(w, worker[w], "unrow")
          \/ Moves(w, worker[w], "rest")
          \/ Moves(w, worker[w], "unissue") /\ worker[w].kind = "reject"
      BY <2>1, <2>3, GoesOn, Abandons
    <3>4. QED
      BY <2>1, <2>3, <3>2, <3>3
  <2>4. QED
    BY <1>1, <2>1, <2>2, <2>3 DEF DeleteRow, Try
<1>2. ASSUME DeleteKongConsumer(w)
      PROVE  /\ Step(w) = "unkong" /\ UNCHANGED <<env, feed, nextId, request>>
             /\ \/ /\ stores.kong = worker[w].consumer /\ stores' = WithoutKong
                   /\ Went(w, worker[w], "unkong") /\ UNCHANGED history
                \/ /\ UNCHANGED stores /\ Unnoticed(stores.kong = worker[w].consumer)
                   /\ Moves(w, worker[w], "unaccess")
  <2>1. Doing(w, "unkong") /\ Step(w) = "unkong" /\ UNCHANGED <<env, feed, nextId, request>>
    BY <1>2, DoingStep DEF DeleteKongConsumer, Try
  <2>2. QED
    BY <1>2, <2>1, Proceeds, FailsUnnoticed, Spares DEF DeleteKongConsumer, Try
<1>3. ASSUME DeleteRequest(w)
      PROVE  /\ Step(w) = "unrequest" /\ UNCHANGED <<env, feed, nextId, stores>>
             /\ \/ /\ request' = [r \in Requests |->
                         IF request[r].made /\ request[r].access = Own(w) THEN Gone ELSE request[r]]
                   /\ Went(w, worker[w], "unrequest") /\ UNCHANGED history
                \/ /\ UNCHANGED request /\ history' = [history EXCEPT !.dirty = TRUE]
                   /\ faults' = faults + 1
                   /\ \/ Went(w, worker[w], "unrequest")
                      \/ Moves(w, worker[w], "rest")
                      \/ Moves(w, worker[w], "unissue") /\ worker[w].kind = "reject"
  <2>1. /\ Doing(w, "unrequest") /\ Step(w) = "unrequest" /\ UNCHANGED <<env, feed, nextId, stores>>
        /\ "unrequest" \in Deleting
    BY <1>3, DoingStep DEF DeleteRequest, Deleting
  <2>2. ASSUME Continue(w, worker[w], Rest(w)) PROVE Went(w, worker[w], "unrequest")
    BY <2>1, <2>2, GoesOn
  <2>3. ASSUME Continue(w, worker[w], Abandoned(Rest(w)))
        PROVE  \/ Moves(w, worker[w], "rest")
               \/ Moves(w, worker[w], "unissue") /\ worker[w].kind = "reject"
    BY <2>1, <2>3, Abandons
  <2>4. QED
    BY <1>3, <2>1, <2>2, <2>3 DEF DeleteRequest, Proceed, Fails
<1>4. QED
  BY <1>1, <1>2, <1>3

(* A worker that stays the same but for what it notes.                       *)
Notes(w, rec, id, consumer, key, seen) ==
    /\ rec \in Recs /\ rec.kind = worker[w].kind /\ rec.req = worker[w].req
    /\ rec.id = id /\ rec.consumer = consumer /\ rec.key = key /\ rec.seen = seen

(* A key of the new credential, or the one that replaces a key.             *)
LEMMA AddKeyMoves ==
    ASSUME Typed, NEW w \in Workers, AddKeyAuth(w)
    PROVE  \E s \in {"key", "newkey"} :
              /\ Step(w) = s /\ UNCHANGED <<env, feed, nextId>>
              /\ \/ /\ stores.kong = IF s = "key" THEN Own(w) ELSE worker[w].consumer
                    /\ UNCHANGED <<request, history>>
                    /\ \E k \in UnusedKeys, rec \in Recs :
                          /\ stores' = [stores EXCEPT !.keys = @ \cup {k}]
                          /\ Notes(w, rec, worker[w].id, worker[w].consumer, k, worker[w].seen)
                          /\ Went(w, rec, s)
                 \/ Throws(w, s)
<1>1. PICK s, consumer :
        /\ s \in {"key", "newkey"}
        /\ AddKeyTo(w, s, consumer) /\ Doing(w, s) /\ Step(w) = s
        /\ consumer = IF s = "key" THEN Own(w) ELSE worker[w].consumer
        /\ UNCHANGED <<env, feed, nextId>> /\ s \in Attempted
  BY DoingStep DEF AddKeyAuth, AddKeyTo, Attempt, Attempted
<1>2. CASE /\ Continue(w, worker[w], Recovery(worker[w].kind, s))
           /\ UNCHANGED <<request, stores, history>>
  BY <1>1, <1>2, AttemptMoves
<1>3. CASE /\ stores.kong = consumer /\ UnusedKeys # {}
           /\ stores' = [stores EXCEPT !.keys = @ \cup {NewKey}]
           /\ Continue(w, [worker[w] EXCEPT !.key = NewKey], Rest(w))
           /\ UNCHANGED <<request, history>>
  <2>1. PICK k \in UnusedKeys : k = NewKey
    BY <1>3 DEF NewKey
  <2>2. PICK was \in Recs : was = worker[w]
    BY TypedParts
  <2>3. PICK rec : rec = [was EXCEPT !.key = k]
    OBVIOUS
  <2>4. rec \in Recs /\ Notes(w, rec, was.id, was.consumer, k, was.seen) /\ rec.kind = was.kind
    BY <2>1, <2>2, <2>3 DEF Recs, UnusedKeys, Notes
  <2>5. Continue(w, rec, Rest(w))
    BY <1>3, <2>1, <2>2, <2>3
  <2>6. Went(w, rec, s)
    BY <1>1, <2>2, <2>4, <2>5, GoesOn
  <2>7. stores' = [stores EXCEPT !.keys = @ \cup {k}]
    BY <1>3, <2>1
  <2>8. QED
    BY <1>1, <1>3, <2>2, <2>4, <2>6, <2>7
<1>4. QED
  BY <1>1, <1>2, <1>3 DEF AddKeyTo, Attempt

(* The link from the request to the ServiceAccess.                          *)
LEMMA LinkMoves ==
    ASSUME Typed, NEW w \in Workers, LinkServiceAccess(w)
    PROVE  /\ Step(w) = "link" /\ UNCHANGED <<env, feed, nextId>>
           /\ worker[w].req \in Requests /\ Own(w) \in Ids
           /\ \/ /\ request[worker[w].req].made /\ stores.access = Own(w)
                 /\ request' = [request EXCEPT ![worker[w].req].access = Own(w)]
                 /\ history' = [history EXCEPT !.justified =
                        IF Approving(worker[w].req) \/ ~env.approval THEN @ \cup {Own(w)} ELSE @]
                 /\ Went(w, worker[w], "link") /\ UNCHANGED stores
              \/ Throws(w, "link")
<1>1. /\ Doing(w, "link") /\ Step(w) = "link" /\ "link" \in Attempted
      /\ UNCHANGED <<env, feed, nextId>>
  BY DoingStep DEF LinkServiceAccess, Attempt, Attempted
<1>2. worker[w].req \in Requests /\ Own(w) \in Ids
  BY <1>1, AtStep DEF Carries, Follows, Own
<1>3. QED
  BY <1>1, <1>2, Proceeds, AttemptMoves DEF LinkServiceAccess, Attempt

(* The update of an approval or a rejection.                                *)
LEMMA WriteMoves ==
    ASSUME Typed, NEW w \in Workers, Write(w)
    PROVE  /\ Step(w) = "write" /\ UNCHANGED <<env, feed, nextId>>
           /\ worker[w].req \in Requests /\ worker[w].kind \in {"approve", "reject"}
           /\ \/ /\ request[worker[w].req].made
                 /\ request' = [request EXCEPT ![worker[w].req] =
                        IF worker[w].kind = "reject"
                        THEN [@ EXCEPT !.approved = FALSE, !.complete = TRUE]
                        ELSE [@ EXCEPT !.approved = TRUE, !.issued = TRUE, !.complete = TRUE]]
                 /\ history' = [history EXCEPT !.justified = @ \cup
                        (IF worker[w].kind = "approve" THEN {request[worker[w].req].access}
                         ELSE {})]
                 /\ Went(w, worker[w], "write") /\ UNCHANGED stores
              \/ Throws(w, "write")
<1>1. /\ Doing(w, "write") /\ Step(w) = "write" /\ "write" \in Attempted
      /\ UNCHANGED <<env, feed, nextId>>
  BY DoingStep DEF Write, Attempt, Attempted
<1>2. worker[w].req \in Requests /\ worker[w].kind \in {"approve", "reject"}
  BY <1>1, AtStep DEF Carries, Follows
<1>3. QED
  BY <1>1, <1>2, Proceeds, AttemptMoves DEF Write, Attempt

(* The update that ends a collection, which begins an approval of its own.  *)
LEMMA CompleteMoves ==
    ASSUME Typed, NEW w \in Workers, Complete(w)
    PROVE  /\ Step(w) = "complete" /\ UNCHANGED <<env, feed, nextId>>
           /\ worker[w].req \in Requests /\ worker[w].kind = "collect" /\ ~env.approval
           /\ \/ /\ request[worker[w].req].made
                 /\ request' = [request EXCEPT ![worker[w].req] =
                        [@ EXCEPT !.approved = TRUE, !.issued = TRUE, !.complete = TRUE]]
                 /\ \E rec \in Recs :
                       /\ rec.kind = "nested" /\ rec.req = worker[w].req /\ rec.id = worker[w].id
                       /\ rec.consumer = worker[w].consumer /\ rec.key = worker[w].key
                       /\ rec.seen = worker[w].seen
                       /\ Moves(w, rec, IF Open("approve", worker[w].req) THEN "details"
                                        ELSE "rest")
                 /\ UNCHANGED <<stores, history>>
              \/ Throws(w, "complete")
<1> DEFINE r == worker[w].req
           open == Open("approve", r)
           todo == IF open THEN <<"details">> \o Setup ELSE <<>>
           t == IF open THEN "details" ELSE "rest"
<1>1. /\ Doing(w, "complete") /\ Step(w) = "complete" /\ UNCHANGED <<env, feed, nextId>>
      /\ "complete" \in Attempted
  BY DoingStep DEF Complete, Attempt, Attempted
<1>2. r \in Requests /\ worker[w].kind = "collect" /\ ~env.approval /\ worker[w] \in Recs
  BY <1>1, AtStep DEF Carries, Follows
<1>3. ASSUME Continue(w, [worker[w] EXCEPT !.kind = "nested"], todo)
      PROVE  \E rec \in Recs :
                /\ rec.kind = "nested" /\ rec.req = worker[w].req /\ rec.id = worker[w].id
                /\ rec.consumer = worker[w].consumer /\ rec.key = worker[w].key
                /\ rec.seen = worker[w].seen /\ Moves(w, rec, t)
  <2>1. PICK was \in Recs : was = worker[w]
    BY <1>2
  <2>2. PICK rec : rec = [was EXCEPT !.kind = "nested"]
    OBVIOUS
  <2>3. /\ rec \in Recs /\ rec.kind = "nested" /\ rec.req = was.req /\ rec.id = was.id
        /\ rec.consumer = was.consumer /\ rec.key = was.key /\ rec.seen = was.seen
    BY <2>2 DEF Recs, Programs
  <2>4. open \in BOOLEAN
    BY DEF Open
  <2> HIDE DEF open
  <2>5. Path(rec, todo, t, "rest")
    BY <1>2, <2>3, <2>4, UpdatePaths
  <2>6. Moves(w, rec, t)
    BY <1>3, <2>1, <2>2, <2>5 DEF Moves, Continue
  <2>7. QED
    BY <2>1, <2>3, <2>6
<1>4. QED
  BY <1>1, <1>2, <1>3, AttemptMoves DEF Complete, Attempt

(* What the request is linked to, for an approval or a rejection.           *)
LEMMA DetailsMove ==
    ASSUME Typed, NEW w \in Workers, LookUpDetails(w)
    PROVE  /\ Step(w) = "details" /\ UNCHANGED <<env, feed, nextId>>
           /\ worker[w].req \in Requests
           /\ worker[w].kind \in {"collect", "nested", "approve", "reject"}
           /\ worker[w].kind \in {"collect", "nested"} => ~env.approval
           /\ \/ /\ request[worker[w].req].access \in Ids
                 /\ stores.access = request[worker[w].req].access
                 /\ UNCHANGED <<request, stores>>
                 /\ \E rec \in Recs :
                       /\ Notes(w, rec, request[worker[w].req].access, stores.row,
                                worker[w].key, worker[w].seen)
                       /\ \/ /\ worker[w].kind = "reject" /\ UNCHANGED history
                             /\ Moves(w, rec, "svc")
                          \/ /\ worker[w].kind # "reject" /\ Went(w, rec, "details")
                             /\ HasConsumer(request[worker[w].req].access)
                             /\ history' = [history EXCEPT !.astray =
                                   @ \/ stores.row # request[worker[w].req].access]
              \/ Throws(w, "details")
<1> DEFINE id == request[worker[w].req].access
           todo == <<"svc">> \o (IF HasConsumer(id) THEN <<>> ELSE <<"unissue">>)
<1>1. /\ Doing(w, "details") /\ Step(w) = "details" /\ UNCHANGED <<env, feed, nextId>>
      /\ "details" \in Attempted
  BY DoingStep DEF LookUpDetails, Attempt, Attempted
<1>2. /\ worker[w].req \in Requests /\ worker[w] \in Recs
      /\ worker[w].kind \in {"collect", "nested", "approve", "reject"}
      /\ worker[w].kind \in {"collect", "nested"} => ~env.approval
  BY <1>1, AtStep DEF Carries, Follows
<1>3. CASE Continue(w, worker[w], Recovery(worker[w].kind, "details"))
           /\ UNCHANGED <<request, stores, history>>
  BY <1>1, <1>2, <1>3, AttemptMoves
<1>4. CASE /\ id # None /\ stores.access = id
           /\ worker[w].kind = "reject" \/ HasConsumer(id)
           /\ Continue(w, [worker[w] EXCEPT !.id = id, !.consumer = stores.row],
                       IF worker[w].kind = "reject" THEN todo ELSE Rest(w))
           /\ history' = [history EXCEPT
                 !.astray = @ \/ (worker[w].kind # "reject" /\ stores.row # id)]
           /\ UNCHANGED <<request, stores>>
  <2>1. PICK was \in Recs, new \in Ids, row \in Ids \cup {None} :
           was = worker[w] /\ new = id /\ row = stores.row
    BY <1>2, <1>4, TypedParts DEF RequestsTyped, StoresTyped
  <2>2. PICK rec : rec = [was EXCEPT !.id = new, !.consumer = row]
    OBVIOUS
  <2>3. /\ rec \in Recs /\ rec.kind = was.kind /\ rec.req = was.req /\ rec.id = new
        /\ rec.consumer = row /\ rec.key = was.key /\ rec.seen = was.seen
    BY <2>2 DEF Recs
  <2>4. Notes(w, rec, id, stores.row, worker[w].key, worker[w].seen)
    BY <2>1, <2>3 DEF Notes
  <2>5. CASE worker[w].kind = "reject"
    <3>1. /\ Path(rec, <<"svc">>, "svc", "rest") /\ Path(rec, <<"svc">>, "svc", "unissue")
          /\ Path(rec, <<>>, "rest", "rest") /\ Path(rec, <<"unissue">>, "unissue", "rest")
      BY <2>1, <2>3, <2>5, ShortPaths DEF Follows, Steps, Deleting
    <3>2. Path(rec, todo, "svc", "rest")
      BY <3>1, JoinPaths
    <3>3. Moves(w, rec, "svc")
      BY <1>4, <2>1, <2>2, <2>5, <3>2 DEF Moves, Continue
    <3>4. UNCHANGED history
      <4>1. PICK h \in [justified : SUBSET (Ids \cup {None}), issued : SUBSET Ids,
                  astray : BOOLEAN, overlapped : BOOLEAN, dirty : BOOLEAN] : h = history
        BY TypedParts DEF Remembered
      <4>2. history' = [h EXCEPT !.astray = h.astray]
        BY <1>4, <2>5, <4>1
      <4>3. QED
        BY <4>1, <4>2
    <3>5. QED
      BY <1>1, <1>2, <1>4, <2>1, <2>4, <2>5, <3>3, <3>4 DEF Notes
  <2>6. CASE worker[w].kind # "reject"
    <3>1. Continue(w, rec, Rest(w))
      BY <1>4, <2>1, <2>2, <2>6
    <3>2. Went(w, rec, "details")
      BY <1>1, <2>1, <2>3, <3>1, GoesOn
    <3>3. history' = [history EXCEPT !.astray = @ \/ stores.row # id]
      BY <1>4, <2>6
    <3>4. HasConsumer(id)
      BY <1>4, <2>6
    <3>5. QED
      BY <1>1, <1>2, <1>4, <2>1, <2>4, <2>6, <3>2, <3>3, <3>4 DEF Notes
  <2>7. QED
    BY <2>5, <2>6
<1>5. QED
  BY <1>3, <1>4 DEF LookUpDetails, Attempt

(* What is noted on the way.                                                *)
LEMMA NotesMove ==
    ASSUME Typed, NEW w \in Workers, NEW s \in Attempted, Doing(w, s),
           NEW consumer \in Ids \cup {None}, NEW seen \in BOOLEAN,
           Continue(w, [worker[w] EXCEPT !.consumer = consumer, !.seen = seen], Rest(w))
    PROVE  \E rec \in Recs :
              /\ Notes(w, rec, worker[w].id, consumer, worker[w].key, seen)
              /\ Went(w, rec, s)
<1>1. PICK was \in Recs : was = worker[w]
  BY TypedParts
<1>2. PICK rec : rec = [was EXCEPT !.consumer = consumer, !.seen = seen]
  OBVIOUS
<1>3. /\ rec \in Recs /\ rec.kind = was.kind /\ rec.req = was.req /\ rec.id = was.id
      /\ rec.consumer = consumer /\ rec.key = was.key /\ rec.seen = seen
  BY <1>1, <1>2 DEF Recs
<1>4. Went(w, rec, s)
  BY <1>1, <1>2, <1>3, GoesOn
<1>5. QED
  BY <1>1, <1>3, <1>4 DEF Notes

(* The consumer of the name, as the gateway finds it.                       *)
LEMMA ConsultMoves ==
    ASSUME Typed, NEW w \in Workers, Consult(w)
    PROVE  /\ Step(w) = "consult" /\ UNCHANGED <<env, feed, nextId>> /\ worker[w].kind = "issue"
           /\ \/ /\ stores.row # None /\ UNCHANGED <<request, stores>>
                 /\ history' = [history EXCEPT !.astray = @ \/ stores.row # Own(w)]
                 /\ \E rec \in Recs :
                       /\ Notes(w, rec, worker[w].id, stores.row, worker[w].key, worker[w].seen)
                       /\ Went(w, rec, "consult")
              \/ Throws(w, "consult")
<1>1. /\ Doing(w, "consult") /\ Step(w) = "consult" /\ UNCHANGED <<env, feed, nextId>>
      /\ "consult" \in Attempted
  BY DoingStep DEF Consult, Attempt, Attempted
<1>2. worker[w].kind = "issue"
  BY <1>1, AtStep DEF Follows
<1>3. CASE /\ Continue(w, [worker[w] EXCEPT !.consumer = stores.row], Rest(w))
           /\ stores.row # None /\ UNCHANGED <<request, stores>>
           /\ history' = [history EXCEPT !.astray = @ \/ stores.row # Own(w)]
  <2>1. PICK was \in Recs, row \in Ids \cup {None}, seen \in BOOLEAN :
           was = worker[w] /\ row = stores.row /\ seen = was.seen
    BY TypedParts DEF StoresTyped, Recs
  <2>2. [was EXCEPT !.consumer = row] = [was EXCEPT !.consumer = row, !.seen = seen]
    BY <2>1 DEF Recs
  <2>3. Continue(w, [worker[w] EXCEPT !.consumer = row, !.seen = seen], Rest(w))
    BY <1>3, <2>1, <2>2
  <2>4. QED
    BY <1>1, <1>2, <1>3, <2>1, <2>3, NotesMove
<1>4. QED
  BY <1>1, <1>2, <1>3, AttemptMoves DEF Consult, Attempt

(* The consumer of the name, as a renewal finds it.                         *)
LEMMA LocateMoves ==
    ASSUME Typed, NEW w \in Workers, Locate(w)
    PROVE  /\ Step(w) = "locate" /\ UNCHANGED <<env, feed, nextId, request, stores, history>>
           /\ \/ /\ stores.kong \in Ids
                 /\ \E rec \in Recs :
                       /\ Notes(w, rec, worker[w].id, stores.kong, worker[w].key, worker[w].seen)
                       /\ Went(w, rec, "locate")
              \/ Throws(w, "locate")
<1>1. /\ Doing(w, "locate") /\ Step(w) = "locate" /\ UNCHANGED <<env, feed, nextId>>
      /\ "locate" \in Attempted
  BY DoingStep DEF Locate, Attempt, Attempted
<1>3. CASE /\ Continue(w, [worker[w] EXCEPT !.consumer = stores.kong], Rest(w))
           /\ stores.kong # None /\ UNCHANGED <<request, stores, history>>
  <2>1. PICK was \in Recs, kong \in Ids, seen \in BOOLEAN :
           was = worker[w] /\ kong = stores.kong /\ seen = was.seen
    BY <1>3, TypedParts DEF StoresTyped, Recs
  <2>2. [was EXCEPT !.consumer = kong] = [was EXCEPT !.consumer = kong, !.seen = seen]
    BY <2>1 DEF Recs
  <2>3. Continue(w, [worker[w] EXCEPT !.consumer = kong, !.seen = seen], Rest(w))
    BY <1>3, <2>1, <2>2
  <2>4. QED
    BY <1>1, <1>3, <2>1, <2>3, NotesMove
<1>4. QED
  BY <1>1, <1>3, AttemptMoves DEF Locate, Attempt

(* The client of the name, as a renewal reads it.                           *)
LEMMA FindMoves ==
    ASSUME Typed, NEW w \in Workers, FindClient(w)
    PROVE  /\ Step(w) = "find" /\ UNCHANGED <<env, feed, nextId, request, stores, history>>
           /\ \/ /\ stores.client \in Ids
                 /\ \E rec \in Recs :
                       /\ Notes(w, rec, worker[w].id, stores.client, worker[w].key, stores.enabled)
                       /\ Went(w, rec, "find")
              \/ Throws(w, "find")
<1>1. /\ Doing(w, "find") /\ Step(w) = "find" /\ UNCHANGED <<env, feed, nextId>>
      /\ "find" \in Attempted
  BY DoingStep DEF FindClient, Attempt, Attempted
<1>3. CASE /\ Continue(w, [worker[w] EXCEPT !.consumer = stores.client,
                                           !.seen = stores.enabled], Rest(w))
           /\ stores.client # None /\ UNCHANGED <<request, stores, history>>
  <2>1. PICK client \in Ids, seen \in BOOLEAN :
           client = stores.client /\ seen = stores.enabled
    BY <1>3, TypedParts DEF StoresTyped
  <2>2. Continue(w, [worker[w] EXCEPT !.consumer = client, !.seen = seen], Rest(w))
    BY <1>3, <2>1
  <2>3. QED
    BY <1>1, <1>3, <2>1, <2>2, NotesMove
<1>4. QED
  BY <1>1, <1>3, AttemptMoves DEF FindClient, Attempt

(* The group in Kong, or the client at the issuer, is enabled.              *)
LEMMA EnableMoves ==
    ASSUME Typed, NEW w \in Workers, Enable(w)
    PROVE  /\ Step(w) = "enable" /\ UNCHANGED <<env, feed, nextId, request>>
           /\ \/ /\ IF OAuth THEN stores.client # None
                    ELSE stores.kong # None /\ stores.kong = worker[w].consumer
                 /\ stores' = IF OAuth THEN [stores EXCEPT !.enabled = TRUE]
                                       ELSE [stores EXCEPT !.acl = TRUE]
                 /\ history' = [history EXCEPT !.astray = @ \/ (OAuth /\ stores.client # Own(w))]
                 /\ Went(w, worker[w], "enable")
              \/ Throws(w, "enable")
<1>1. /\ Doing(w, "enable") /\ Step(w) = "enable" /\ UNCHANGED <<env, feed, nextId>>
      /\ "enable" \in Attempted
  BY DoingStep DEF Enable, Attempt, Attempted
<1>2. QED
  BY <1>1, Proceeds, AttemptMoves DEF Enable, Attempt

(* The mark of issuance is taken back.                                      *)
LEMMA UnissueMoves ==
    ASSUME Typed, CredentialAssumption, NEW w \in Workers, Unissue(w)
    PROVE  /\ Step(w) = "unissue" /\ UNCHANGED <<env, feed, nextId, stores>>
           /\ worker[w].req \in Requests /\ Went(w, worker[w], "unissue")
           /\ \/ /\ request[worker[w].req].made /\ UNCHANGED history
                 /\ request' = [request EXCEPT ![worker[w].req] =
                                   [@ EXCEPT !.issued = FALSE, !.complete = FALSE]]
              \/ UNCHANGED request /\ Unnoticed(request[worker[w].req].made)
<1>1. Doing(w, "unissue") /\ Step(w) = "unissue" /\ UNCHANGED <<env, feed, nextId, stores>>
  BY DoingStep DEF Unissue
<1>2. worker[w].req \in Requests
  BY <1>1, AtStep DEF Carries, Follows
<1>3. QED
  BY <1>1, <1>2, Proceeds, FailsUnnoticed DEF Unissue

(* The ServiceAccess that is to be deleted, with its consumer.              *)
LEMMA AccessMoves ==
    ASSUME Typed, CredentialAssumption, NEW w \in Workers, LookUpAccess(w)
    PROVE  /\ Step(w) = "svc" /\ UNCHANGED <<env, feed, nextId, request, stores>>
           /\ worker[w].kind \in {"issue", "reject", "revoke"} /\ Own(w) \in Ids
           /\ \/ /\ stores.access = Own(w) /\ UNCHANGED history
                 /\ \E rec \in Recs :
                       /\ Notes(w, rec, worker[w].id,
                                IF HasConsumer(Own(w)) THEN stores.row ELSE None,
                                worker[w].key, worker[w].seen)
                       /\ rec.consumer # None <=> HasConsumer(Own(w))
                       /\ Moves(w, rec, "unrequest")
              \/ Unnoticed(stores.access = Own(w)) /\ Went(w, worker[w], "svc")
<1>1. Doing(w, "svc") /\ Step(w) = "svc" /\ UNCHANGED <<env, feed, nextId, request, stores>>
  BY DoingStep DEF LookUpAccess
<1>2. worker[w].kind \in {"issue", "reject", "revoke"} /\ Own(w) \in Ids
  BY <1>1, AtStep DEF Carries, Follows, Own, Deleting
<1>3. CASE /\ stores.access = Own(w) /\ UNCHANGED history
           /\ Continue(w, [worker[w] EXCEPT !.consumer =
                              IF HasConsumer(Own(w)) THEN stores.row ELSE None],
                       DeleteSteps(HasConsumer(Own(w))) \o Rest(w))
  <2>1. PICK has \in BOOLEAN : has = HasConsumer(Own(w))
    BY DEF HasConsumer
  <2>2. PICK rec \in Recs :
           /\ Moves(w, rec, "unrequest") /\ rec.kind = worker[w].kind
           /\ rec = [worker[w] EXCEPT !.consumer = IF has THEN stores.row ELSE None]
           /\ rec.req = worker[w].req /\ rec.id = worker[w].id /\ rec.key = worker[w].key
           /\ rec.consumer = (IF has THEN stores.row ELSE None)
           /\ rec.consumer # None <=> has
    BY <1>1, <1>3, <2>1, Deletes
  <2>3. rec.seen = worker[w].seen
    BY <2>2, TypedParts DEF Recs
  <2>4. QED
    BY <1>1, <1>2, <1>3, <2>1, <2>2, <2>3 DEF Notes
<1>4. CASE Fails(stores.access = Own(w)) /\ Continue(w, worker[w], Rest(w))
           /\ history' = [history EXCEPT !.dirty = @ \/ faults' # faults]
  BY <1>1, <1>2, <1>4, GoesOn, FailsUnnoticed
<1>5. QED
  BY <1>3, <1>4 DEF LookUpAccess

-----------------------------------------------------------------------------
(***************************************************************************)
(* Access is justified.  What a worker is about to enable, or to put back as   *)
(* enabled, was justified before it got there, and what is approved stays so.  *)
(***************************************************************************)

WorkerJustified(rec, s) ==
    /\ rec.kind = "issue" => rec.id \in history.justified
    /\ rec.kind = "approve" /\ s = "details" =>
          request[rec.req].access \in history.justified
    /\ s = "enable" => /\ rec.id \in history.justified
                       /\ history.astray \/ OAuth \/ rec.consumer = rec.id
    /\ s = "put" /\ rec.seen /\ ~history.astray => rec.consumer \in history.justified

RequestsJustified ==
    \A r \in Requests : request[r].approved \/ ~env.approval =>
                          request[r].access \in history.justified

Justified ==
    /\ None \in history.justified
    /\ RequestsJustified
    /\ AccessIsJustified
    /\ \A w \in Workers : WorkerJustified(worker[w], Step(w))

(* A worker has moved: what is to be seen is that it, the requests and the    *)
(* stores are justified, and that a request somebody is approving stays so.    *)
LEMMA JustifiedAfter ==
    ASSUME Typed, Justified, NEW w \in Workers, NEW rec \in Recs, NEW t, Moves(w, rec, t),
           UNCHANGED env, history.justified \subseteq history'.justified,
           history.astray => history'.astray,
           RequestsJustified', AccessIsJustified',
           \A r \in Requests : Approving(r) /\ request[r].access \in history.justified =>
                                request'[r].access \in history'.justified,
           t # "rest" => WorkerJustified(rec, t)'
    PROVE  Justified'
<1>1. worker \in [Workers -> Recs]
  BY TypedParts
<1>2. ASSUME NEW v \in Workers, v # w PROVE WorkerJustified(worker[v], Step(v))'
  <2>1. worker'[v] = worker[v] /\ Step(v)' = Step(v)
    BY <1>1, <1>2, MovesTo
  <2>2. WorkerJustified(worker[v], Step(v)) /\ Carries(worker[v], Step(v))
    BY TypedParts DEF Justified, Programmed
  <2>3. worker[v].kind = "approve" => worker[v].req \in Requests /\ Approving(worker[v].req)
    BY <2>2 DEF Carries, Approving
  <2>4. OAuth' = OAuth
    BY DEF OAuth
  <2>5. QED
    BY <2>1, <2>2, <2>3, <2>4 DEF WorkerJustified
<1>3. WorkerJustified(worker[w], Step(w))'
  <2>1. Step(w)' = t
    BY <1>1, MovesTo
  <2>2. CASE t = "rest"
    <3>1. worker'[w].kind = "idle"
      BY <1>1, <2>2, MovesTo DEF Idle
    <3>2. QED
      BY <2>1, <2>2, <3>1 DEF WorkerJustified
  <2>3. CASE t # "rest"
    <3>1. /\ worker'[w].kind = rec.kind /\ worker'[w].req = rec.req
          /\ worker'[w].id = rec.id /\ worker'[w].consumer = rec.consumer
          /\ worker'[w].seen = rec.seen
      BY <1>1, <2>3, MovesTo
    <3>2. QED
      BY <2>1, <2>3, <3>1 DEF WorkerJustified
  <2>4. QED
    BY <2>2, <2>3
<1>4. QED
  BY <1>2, <1>3 DEF Justified

(* A step that grants nothing.                                              *)
LEMMA JustifiedStill ==
    ASSUME Typed, Justified, NEW w \in Workers, NEW rec \in Recs, NEW t, Moves(w, rec, t),
           UNCHANGED env, history'.justified = history.justified,
           history.astray => history'.astray,
           \A r \in Requests : /\ request'[r].access \in {request[r].access, None}
                               /\ request'[r].approved =>
                                     request[r].approved /\ request'[r].access = request[r].access,
           stores'.acl => stores.acl /\ stores'.kong = stores.kong,
           stores'.enabled => stores.enabled /\ stores'.client = stores.client,
           rec.kind = worker[w].kind, rec.kind = "issue" => rec.id = worker[w].id,
           t \notin {"details", "enable", "put"}
    PROVE  Justified'
<1>1. RequestsJustified'
  BY DEF Justified, RequestsJustified
<1>2. AccessIsJustified'
  BY DEF Justified, AccessIsJustified
<1>3. WorkerJustified(worker[w], Step(w))
  BY DEF Justified
<1>4. WorkerJustified(rec, t)'
  BY <1>3 DEF WorkerJustified
<1>5. \A r \in Requests : Approving(r) /\ request[r].access \in history.justified =>
                           request'[r].access \in history'.justified
  BY DEF Justified
<1>6. QED
  BY <1>1, <1>2, <1>4, <1>5, JustifiedAfter

(* A step that throws gives nobody access;                                  *)
LEMMA JustifiedThrows ==
    ASSUME Typed, Justified, NEW w \in Workers, NEW s, Throws(w, s), UNCHANGED env
    PROVE  Justified'
<1>1. FirstOfRecovery(worker[w].kind, s) \notin {"details", "enable", "put"}
  BY DEF FirstOfRecovery
<1>2. worker[w] \in Recs /\ UNCHANGED <<request, stores, history>>
  BY TypedParts DEF Throws
<1>3. QED
  BY <1>1, <1>2, JustifiedStill DEF Throws

(* nor does one that enables nothing and approves nothing new,              *)
LEMMA JustifiedWent ==
    ASSUME Typed, Justified, NEW w \in Workers, NEW rec \in Recs, NEW s, Went(w, rec, s),
           UNCHANGED env, history'.justified = history.justified,
           history.astray => history'.astray,
           \A r \in Requests : /\ request'[r].access \in {request[r].access, None}
                               /\ request'[r].approved =>
                                     request[r].approved /\ request'[r].access = request[r].access,
           stores'.acl => stores.acl /\ stores'.kong = stores.kong,
           stores'.enabled => stores.enabled /\ stores'.client = stores.client,
           rec.kind = worker[w].kind, rec.kind = "issue" => rec.id = worker[w].id,
           s \notin {"link", "write", "details", "consult", "find"}
    PROVE  Justified'
<1>1. PICK t : Follows(worker[w], s, t) /\ Moves(w, rec, t)
  BY DEF Went
<1>2. t \notin {"details", "enable", "put"}
  BY <1>1 DEF Follows
<1>3. QED
  BY <1>1, <1>2, JustifiedStill

(* made as a call that may throw                                            *)
LEMMA JustifiedCalled ==
    ASSUME Typed, Justified, NEW w \in Workers, NEW s, NEW able, NEW new,
           Called(w, s, able, new), s \notin {"link", "write", "details", "consult", "find"},
           stores' = new /\ able =>
              /\ stores'.acl => stores.acl /\ stores'.kong = stores.kong
              /\ stores'.enabled => stores.enabled /\ stores'.client = stores.client
    PROVE  Justified'
<1>1. CASE able /\ stores' = new /\ Went(w, worker[w], s) /\ UNCHANGED <<request, history>>
  <2>1. worker[w] \in Recs /\ UNCHANGED env
    BY TypedParts DEF Called
  <2>2. QED
    BY <1>1, <2>1, JustifiedWent
<1>2. CASE Throws(w, s)
  BY <1>2, JustifiedThrows DEF Called
<1>3. QED
  BY <1>1, <1>2 DEF Called

(* or as one that may fail unnoticed.                                       *)
LEMMA JustifiedTried ==
    ASSUME Typed, Justified, NEW w \in Workers, NEW s, NEW able, NEW new,
           Tried(w, s, able, new), s \notin {"link", "write", "details", "consult", "find"},
           stores' = new =>
              /\ stores'.acl => stores.acl /\ stores'.kong = stores.kong
              /\ stores'.enabled => stores.enabled /\ stores'.client = stores.client
    PROVE  Justified'
<1>1. Went(w, worker[w], s) /\ worker[w] \in Recs /\ UNCHANGED <<env, request>>
  BY TypedParts DEF Tried
<1>2. history'.justified = history.justified /\ history'.astray = history.astray
  BY TypedParts DEF Tried, Unnoticed, Remembered
<1>3. /\ stores'.acl => stores.acl /\ stores'.kong = stores.kong
      /\ stores'.enabled => stores.enabled /\ stores'.client = stores.client
  BY DEF Tried
<1>4. QED
  BY <1>1, <1>2, <1>3, JustifiedWent

(* Making a credential gives no access yet,                                 *)
LEMMA JustifiedMaking ==
    ASSUME Typed, CredentialAssumption, Justified, NEW w \in Workers,
           \/ RegisterClient(w) \/ CreateKongConsumer(w) \/ AddConsumerRow(w)
           \/ ForceSync(w) \/ AddServiceAccess(w) \/ AddKeyAuth(w)
    PROVE  Justified'
<1>0. StoresTyped
  BY TypedParts
<1>1. CASE RegisterClient(w)
  <2> DEFINE able == stores.client = None
             new == [stores EXCEPT !.client = Own(w), !.enabled = FALSE]
  <2>1. Called(w, "client", able, new)
    BY <1>1, CallsMove
  <2>2. able /\ stores' = new =>
           /\ stores'.acl => stores.acl /\ stores'.kong = stores.kong
           /\ stores'.enabled => stores.enabled /\ stores'.client = stores.client
    BY <1>0 DEF StoresTyped
  <2> HIDE DEF able, new
  <2>3. QED
    BY <2>1, <2>2, JustifiedCalled
<1>2. CASE CreateKongConsumer(w)
  <2> DEFINE able == stores.kong = None
             new == [stores EXCEPT !.kong = Own(w), !.acl = FALSE]
  <2>1. Called(w, "consumer", able, new)
    BY <1>2, CallsMove
  <2>2. able /\ stores' = new =>
           /\ stores'.acl => stores.acl /\ stores'.kong = stores.kong
           /\ stores'.enabled => stores.enabled /\ stores'.client = stores.client
    BY <1>0 DEF StoresTyped
  <2> HIDE DEF able, new
  <2>3. QED
    BY <2>1, <2>2, JustifiedCalled
<1>3. CASE AddConsumerRow(w)
  <2> DEFINE able == stores.row = None
             new == [stores EXCEPT !.row = Own(w), !.own = Own(w)]
  <2>1. Called(w, "row", able, new)
    BY <1>3, CallsMove
  <2>2. able /\ stores' = new =>
           /\ stores'.acl => stores.acl /\ stores'.kong = stores.kong
           /\ stores'.enabled => stores.enabled /\ stores'.client = stores.client
    BY <1>0 DEF StoresTyped
  <2> HIDE DEF able, new
  <2>3. QED
    BY <2>1, <2>2, JustifiedCalled
<1>4. CASE AddServiceAccess(w)
  <2> DEFINE able == stores.access = None /\ stores.own = Own(w)
             new == [stores EXCEPT !.access = Own(w), !.active = FALSE, !.key = worker[w].key]
  <2>1. Called(w, "access", able, new)
    BY <1>4, CallsMove
  <2>2. able /\ stores' = new =>
           /\ stores'.acl => stores.acl /\ stores'.kong = stores.kong
           /\ stores'.enabled => stores.enabled /\ stores'.client = stores.client
    BY <1>0 DEF StoresTyped
  <2> HIDE DEF able, new
  <2>3. QED
    BY <2>1, <2>2, JustifiedCalled
<1>5. CASE ForceSync(w)
  <2>1. ASSUME NEW id, stores' = Synced(Found(id))
        PROVE  /\ stores'.acl => stores.acl /\ stores'.kong = stores.kong
               /\ stores'.enabled => stores.enabled /\ stores'.client = stores.client
    BY <1>0, <2>1 DEF StoresTyped, Synced, Found
  <2>2. ASSUME NEW s, NEW id, Called(w, s, TRUE, Synced(Found(id))), s \in {"sync", "resync"}
        PROVE  Justified'
    BY <2>1, <2>2, JustifiedCalled
  <2>3. QED
    BY <1>5, <2>2, CallsMove
<1>6. CASE AddKeyAuth(w)
  <2>1. PICK s \in {"key", "newkey"} :
           /\ UNCHANGED env
           /\ \/ /\ UNCHANGED <<request, history>>
                 /\ \E k \in UnusedKeys, rec \in Recs :
                       /\ stores' = [stores EXCEPT !.keys = @ \cup {k}]
                       /\ Notes(w, rec, worker[w].id, worker[w].consumer, k, worker[w].seen)
                       /\ Went(w, rec, s)
              \/ Throws(w, s)
    BY <1>6, AddKeyMoves
  <2>2. CASE Throws(w, s)
    BY <2>1, <2>2, JustifiedThrows
  <2>3. CASE /\ UNCHANGED <<request, history>>
             /\ \E k \in UnusedKeys, rec \in Recs :
                   /\ stores' = [stores EXCEPT !.keys = @ \cup {k}]
                   /\ Notes(w, rec, worker[w].id, worker[w].consumer, k, worker[w].seen)
                   /\ Went(w, rec, s)
    <3>1. PICK k \in UnusedKeys, rec \in Recs :
             /\ stores' = [stores EXCEPT !.keys = @ \cup {k}]
             /\ Notes(w, rec, worker[w].id, worker[w].consumer, k, worker[w].seen)
             /\ Went(w, rec, s)
      BY <2>3
    <3>2. /\ stores'.acl => stores.acl /\ stores'.kong = stores.kong
          /\ stores'.enabled => stores.enabled /\ stores'.client = stores.client
      BY <1>0, <3>1 DEF StoresTyped
    <3>3. rec.kind = worker[w].kind /\ rec.id = worker[w].id
      BY <3>1 DEF Notes
    <3>4. QED
      BY <2>1, <2>3, <3>1, <3>2, <3>3, JustifiedWent
  <2>4. QED
    BY <2>1, <2>2, <2>3
<1>7. QED
  BY <1>1, <1>2, <1>3, <1>4, <1>5, <1>6

(* nor does cleaning up, renewing or deleting at Kong or the issuer,        *)
LEMMA JustifiedTrying ==
    ASSUME Typed, CredentialAssumption, Justified, NEW w \in Workers,
           \/ Activate(w) \/ DeleteKeyAuth(w) \/ CleanRow(w) \/ CleanKong(w)
           \/ CleanClient(w) \/ DeleteClient(w) \/ DeleteServiceAccess(w) \/ Relink(w)
    PROVE  Justified'
<1>0. StoresTyped
  BY TypedParts
<1>a. ASSUME \/ stores' = WithoutRow \/ stores' = WithoutKong \/ stores' = WithoutClient
             \/ stores' = stores
      PROVE  /\ stores'.acl => stores.acl /\ stores'.kong = stores.kong
             /\ stores'.enabled => stores.enabled /\ stores'.client = stores.client
  BY <1>0, <1>a DEF StoresTyped, WithoutRow, WithoutKong, WithoutClient
<1>1. CASE Activate(w)
  <2> DEFINE able == TRUE
             new == [stores EXCEPT !.active = @ \/ stores.access = Own(w)]
  <2>1. Tried(w, "activate", able, new)
    BY <1>1, TriesMove
  <2>2. stores' = new =>
           /\ stores'.acl => stores.acl /\ stores'.kong = stores.kong
           /\ stores'.enabled => stores.enabled /\ stores'.client = stores.client
    BY <1>0, <1>a DEF StoresTyped
  <2> HIDE DEF able, new
  <2>3. QED
    BY <2>1, <2>2, JustifiedTried
<1>2. CASE DeleteKeyAuth(w)
  <2> DEFINE able == stores.kong = worker[w].consumer /\ worker[w].key \in stores.keys
             new == [stores EXCEPT !.keys = @ \ {worker[w].key}]
  <2>1. Tried(w, "unkey", able, new) \/ (Throws(w, "unkey") /\ UNCHANGED env)
    BY <1>2, TriesMove DEF Called
  <2>2. stores' = new =>
           /\ stores'.acl => stores.acl /\ stores'.kong = stores.kong
           /\ stores'.enabled => stores.enabled /\ stores'.client = stores.client
    BY <1>0, <1>a DEF StoresTyped
  <2> HIDE DEF able, new
  <2>3. QED
    BY <2>1, <2>2, JustifiedTried, JustifiedThrows
<1>3. CASE CleanKong(w)
  <2> DEFINE able == TRUE
             new == IF stores.kong = Own(w) THEN WithoutKong ELSE stores
  <2>1. Tried(w, "cleanKong", able, new)
    BY <1>3, TriesMove
  <2>2. stores' = new =>
           /\ stores'.acl => stores.acl /\ stores'.kong = stores.kong
           /\ stores'.enabled => stores.enabled /\ stores'.client = stores.client
    BY <1>0, <1>a DEF StoresTyped
  <2> HIDE DEF able, new
  <2>3. QED
    BY <2>1, <2>2, JustifiedTried
<1>4. CASE CleanClient(w)
  <2> DEFINE able == TRUE
             new == WithoutClient
  <2>1. Tried(w, "cleanClient", able, new)
    BY <1>4, TriesMove
  <2>2. stores' = new =>
           /\ stores'.acl => stores.acl /\ stores'.kong = stores.kong
           /\ stores'.enabled => stores.enabled /\ stores'.client = stores.client
    BY <1>0, <1>a DEF StoresTyped
  <2> HIDE DEF able, new
  <2>3. QED
    BY <2>1, <2>2, JustifiedTried
<1>5. CASE DeleteClient(w)
  <2> DEFINE able == stores.client # None
             new == WithoutClient
  <2>1. Tried(w, "unclient", able, new)
    BY <1>5, TriesMove
  <2>2. stores' = new =>
           /\ stores'.acl => stores.acl /\ stores'.kong = stores.kong
           /\ stores'.enabled => stores.enabled /\ stores'.client = stores.client
    BY <1>0, <1>a DEF StoresTyped
  <2> HIDE DEF able, new
  <2>3. QED
    BY <2>1, <2>2, JustifiedTried
<1>6. CASE DeleteServiceAccess(w)
  <2> DEFINE able == TRUE
             new == IF stores.access = Own(w)
                    THEN [stores EXCEPT !.access = None, !.active = FALSE, !.key = None]
                    ELSE stores
  <2>1. Tried(w, "unaccess", able, new)
    BY <1>6, TriesMove
  <2>2. stores' = new =>
           /\ stores'.acl => stores.acl /\ stores'.kong = stores.kong
           /\ stores'.enabled => stores.enabled /\ stores'.client = stores.client
    BY <1>0, <1>a DEF StoresTyped
  <2> HIDE DEF able, new
  <2>3. QED
    BY <2>1, <2>2, JustifiedTried
<1>7. CASE Relink(w)
  <2> DEFINE able == stores.access = Own(w)
             new == [stores EXCEPT !.active = TRUE, !.key = worker[w].key]
  <2>1. Tried(w, "relink", able, new)
    BY <1>7, RelinkMoves
  <2>2. stores' = new =>
           /\ stores'.acl => stores.acl /\ stores'.kong = stores.kong
           /\ stores'.enabled => stores.enabled /\ stores'.client = stores.client
    BY <1>0, <1>a DEF StoresTyped
  <2> HIDE DEF able, new
  <2>3. QED
    BY <2>1, <2>2, JustifiedTried
<1>8. CASE CleanRow(w)
  <2>1. ASSUME NEW s \in {"cleanRow", "cleanOwn"}, NEW new \in {WithoutRow, stores},
               Tried(w, s, TRUE, new)
        PROVE  Justified'
    BY <1>a, <2>1, JustifiedTried
  <2>2. QED
    BY <1>8, <2>1, TriesMove
<1>9. QED
  BY <1>1, <1>2, <1>3, <1>4, <1>5, <1>6, <1>7, <1>8

(* nor deleting in the Portal;                                              *)
LEMMA JustifiedDeleting ==
    ASSUME Typed, CredentialAssumption, Justified, NEW w \in Workers,
           \/ DeleteRow(w) \/ DeleteKongConsumer(w) \/ DeleteRequest(w)
           \/ LookUpAccess(w) \/ Unissue(w)
    PROVE  Justified'
<1>0. StoresTyped /\ worker[w] \in Recs /\ RequestsTyped
  BY TypedParts
<1> DEFINE Taken == [r \in Requests |->
               IF request[r].made /\ request[r].access = Own(w) THEN Gone ELSE request[r]]
           Marked == [request EXCEPT ![worker[w].req] =
                          [@ EXCEPT !.issued = FALSE, !.complete = FALSE]]
<1>a. /\ UNCHANGED env
      /\ UNCHANGED history \/ history' = [history EXCEPT !.dirty = TRUE]
      /\ stores' = WithoutRow \/ stores' = WithoutKong \/ stores' = stores
      /\ \/ UNCHANGED request \/ request' = Taken
         \/ worker[w].req \in Requests /\ request' = Marked
  <2> HIDE DEF Marked, Taken
  <2>1. CASE DeleteRow(w)
    BY <2>1, DeletesMove, Zenon
  <2>2. CASE DeleteKongConsumer(w)
    BY <2>2, DeletesMove, Zenon DEF Unnoticed
  <2>3. CASE DeleteRequest(w)
    BY <2>3, DeletesMove, Zenon DEF Taken
  <2>4. CASE LookUpAccess(w)
    BY <2>4, AccessMoves, Zenon DEF Unnoticed
  <2>5. CASE Unissue(w)
    BY <2>5, UnissueMoves, Zenon DEF Unnoticed, Marked
  <2>6. QED
    BY <2>1, <2>2, <2>3, <2>4, <2>5
<1>1. UNCHANGED env /\ history'.justified = history.justified /\ history'.astray = history.astray
  <2>1. UNCHANGED history \/ history' = [history EXCEPT !.dirty = TRUE]
    BY <1>a
  <2>2. UNCHANGED env
    BY <1>a
  <2>3. QED
    BY <2>1, <2>2, TypedParts DEF Remembered
<1>2. /\ stores'.acl => stores.acl /\ stores'.kong = stores.kong
      /\ stores'.enabled => stores.enabled /\ stores'.client = stores.client
  <2>1. \/ stores' = WithoutRow \/ stores' = WithoutKong \/ stores' = stores
    BY <1>a
  <2>2. QED
    BY <1>0, <2>1 DEF StoresTyped, WithoutRow, WithoutKong
<1>3. \A r \in Requests :
         /\ request'[r].access \in {request[r].access, None}
         /\ request'[r].approved =>
               request[r].approved /\ request'[r].access = request[r].access
  <2>1. CASE UNCHANGED request
    BY <2>1
  <2>2. CASE request' = [r \in Requests |->
               IF request[r].made /\ request[r].access = Own(w) THEN Gone ELSE request[r]]
    BY <2>2 DEF Gone, NotMade
  <2>3. CASE /\ worker[w].req \in Requests
             /\ request' = [request EXCEPT ![worker[w].req] =
                                [@ EXCEPT !.issued = FALSE, !.complete = FALSE]]
    <3>1. PICK q, was : q \in Requests /\ q = worker[w].req /\ was = request[q]
      BY <2>3
    <3>2. /\ [was EXCEPT !.issued = FALSE, !.complete = FALSE].access = was.access
          /\ [was EXCEPT !.issued = FALSE, !.complete = FALSE].approved = was.approved
      BY <1>0, <3>1 DEF RequestsTyped
    <3>3. \A r \in Requests : request'[r] = IF r = q
               THEN [was EXCEPT !.issued = FALSE, !.complete = FALSE] ELSE request[r]
      BY <1>0, <2>3, <3>1 DEF RequestsTyped
    <3>4. QED
      BY <3>1, <3>2, <3>3
  <2>4. QED
    BY <1>a, <2>1, <2>2, <2>3
<1>4. ASSUME NEW s, Went(w, worker[w], s), s \in {"unrow", "unkong", "unrequest", "svc", "unissue"}
      PROVE  Justified'
  BY <1>0, <1>1, <1>2, <1>3, <1>4, JustifiedWent
<1>5. ASSUME NEW rec \in Recs, NEW t, Moves(w, rec, t), rec.kind = worker[w].kind,
             rec.id = worker[w].id, t \in {"rest", "unissue", "unaccess", "unrequest"}
      PROVE  Justified'
  BY <1>0, <1>1, <1>2, <1>3, <1>5, JustifiedStill
<1>6. CASE DeleteRow(w) \/ DeleteKongConsumer(w) \/ DeleteRequest(w)
  <2>1. \/ \E q \in {"unrow", "unkong", "unrequest"} : Went(w, worker[w], q)
        \/ \E t \in {"rest", "unissue", "unaccess"} : Moves(w, worker[w], t)
    <3>1. CASE DeleteRow(w)
      BY <3>1, DeletesMove, Zenon
    <3>2. CASE DeleteKongConsumer(w)
      BY <3>2, DeletesMove, Zenon
    <3>3. CASE DeleteRequest(w)
      BY <3>3, DeletesMove, Zenon
    <3>4. QED
      BY <1>6, <3>1, <3>2, <3>3
  <2>2. QED
    BY <1>0, <1>4, <1>5, <2>1
<1>7. CASE LookUpAccess(w)
  <2>1. \/ Went(w, worker[w], "svc")
        \/ \E rec \in Recs : /\ rec.kind = worker[w].kind /\ rec.id = worker[w].id
                            /\ Moves(w, rec, "unrequest")
    BY <1>7, AccessMoves, Zenon DEF Notes
  <2>2. QED
    BY <1>4, <1>5, <2>1
<1>8. CASE Unissue(w)
  <2>1. Went(w, worker[w], "unissue")
    BY <1>8, UnissueMoves, Zenon
  <2>2. QED
    BY <1>4, <2>1
<1>9. QED
  BY <1>6, <1>7, <1>8

(* What no request decides on, and no store is changed by, is as before.      *)
LEMMA JustifiedLooking ==
    ASSUME Typed, Justified, NEW w \in Workers, NEW rec \in Recs, NEW t, Moves(w, rec, t),
           UNCHANGED <<env, request, stores>>, history'.justified = history.justified,
           history.astray => history'.astray, t # "rest" => WorkerJustified(rec, t)'
    PROVE  Justified'
<1>1. RequestsJustified' /\ AccessIsJustified'
  BY DEF Justified, RequestsJustified, AccessIsJustified
<1>2. \A r \in Requests : Approving(r) /\ request[r].access \in history.justified =>
                           request'[r].access \in history'.justified
  OBVIOUS
<1>3. QED
  BY <1>1, <1>2, JustifiedAfter

(* a look-up finds a credential that is justified, or is recorded as astray. *)
LEMMA JustifiedLookUp ==
    ASSUME Typed, Justified, NEW w \in Workers,
           LookUpDetails(w) \/ Consult(w) \/ Locate(w) \/ FindClient(w)
    PROVE  Justified'
<1>0. WorkerJustified(worker[w], Step(w)) /\ worker[w] \in Recs /\ StoresTyped /\ Remembered
  BY TypedParts DEF Justified
<1>1. CASE LookUpDetails(w)
  <2> DEFINE id == request[worker[w].req].access
  <2>1. /\ Step(w) = "details" /\ UNCHANGED env /\ worker[w].req \in Requests
        /\ worker[w].kind \in {"collect", "nested", "approve", "reject"}
        /\ worker[w].kind \in {"collect", "nested"} => ~env.approval
    BY <1>1, DetailsMove
  <2>2. CASE Throws(w, "details")
    BY <2>1, <2>2, JustifiedThrows
  <2>3. ASSUME NEW rec \in Recs, UNCHANGED <<request, stores>>,
               Notes(w, rec, id, stores.row, worker[w].key, worker[w].seen),
               worker[w].kind = "reject", UNCHANGED history, Moves(w, rec, "svc")
        PROVE  Justified'
    <3>1. WorkerJustified(rec, "svc")'
      BY <2>3 DEF WorkerJustified, Notes
    <3>2. QED
      BY <2>1, <2>3, <3>1, JustifiedLooking
  <2>4. ASSUME NEW rec \in Recs, UNCHANGED <<request, stores>>,
               Notes(w, rec, id, stores.row, worker[w].key, worker[w].seen),
               worker[w].kind # "reject", Went(w, rec, "details"),
               history' = [history EXCEPT !.astray = @ \/ stores.row # id]
        PROVE  Justified'
    <3>1. PICK t : Follows(worker[w], "details", t) /\ Moves(w, rec, t)
      BY <2>4 DEF Went
    <3>2. id \in history.justified
      <4>1. worker[w].kind = "approve" => id \in history.justified
        BY <1>0, <2>1 DEF WorkerJustified
      <4>2. worker[w].kind \in {"collect", "nested"} => id \in history.justified
        BY <2>1 DEF Justified, RequestsJustified
      <4>3. QED
        BY <2>1, <2>4, <4>1, <4>2
    <3>3. /\ history'.justified = history.justified
          /\ history'.astray <=> history.astray \/ stores.row # id
      BY <1>0, <2>4 DEF Remembered
    <3>4. t \in {"enable", "activate"}
      BY <2>4, <3>1 DEF Follows
    <3>5. rec.kind # "issue" /\ rec.id = id /\ rec.consumer = stores.row
      BY <2>1, <2>4 DEF Notes
    <3> HIDE DEF id
    <3>6. WorkerJustified(rec, t)'
      BY <3>2, <3>3, <3>4, <3>5 DEF WorkerJustified
    <3>7. QED
      BY <2>1, <2>4, <3>1, <3>3, <3>6, JustifiedLooking
  <2>5. QED
    BY <1>1, <2>1, <2>2, <2>3, <2>4, DetailsMove
<1>2. CASE Consult(w)
  <2>1. Step(w) = "consult" /\ UNCHANGED env /\ worker[w].kind = "issue"
    BY <1>2, ConsultMoves
  <2>2. CASE Throws(w, "consult")
    BY <2>1, <2>2, JustifiedThrows
  <2>3. ASSUME NEW rec \in Recs, UNCHANGED <<request, stores>>,
               history' = [history EXCEPT !.astray = @ \/ stores.row # Own(w)],
               Notes(w, rec, worker[w].id, stores.row, worker[w].key, worker[w].seen),
               Went(w, rec, "consult")
        PROVE  Justified'
    <3>1. PICK t : Follows(worker[w], "consult", t) /\ Moves(w, rec, t)
      BY <2>3 DEF Went
    <3>2. /\ history'.justified = history.justified
          /\ history'.astray <=> history.astray \/ stores.row # worker[w].id
      BY <1>0, <2>3 DEF Remembered, Own
    <3>3. t \in {"enable", "activate"} /\ worker[w].id \in history.justified
      BY <1>0, <2>1, <3>1 DEF Follows, WorkerJustified
    <3>4. rec.kind = "issue" /\ rec.id = worker[w].id /\ rec.consumer = stores.row
      BY <2>1, <2>3 DEF Notes
    <3>5. WorkerJustified(rec, t)'
      BY <3>2, <3>3, <3>4 DEF WorkerJustified
    <3>6. QED
      BY <2>1, <2>3, <3>1, <3>2, <3>5, JustifiedLooking
  <2>4. QED
    BY <1>2, <2>1, <2>2, <2>3, ConsultMoves
<1>3. CASE Locate(w)
  <2>1. UNCHANGED <<env, request, stores, history>>
    BY <1>3, LocateMoves
  <2>2. ASSUME NEW rec \in Recs, Went(w, rec, "locate"),
               Notes(w, rec, worker[w].id, stores.kong, worker[w].key, worker[w].seen)
        PROVE  Justified'
    <3>1. rec.kind = worker[w].kind /\ rec.id = worker[w].id
      BY <2>2 DEF Notes
    <3>2. QED
      BY <2>1, <2>2, <3>1, JustifiedWent
  <2>3. QED
    BY <1>3, <2>1, <2>2, JustifiedThrows, LocateMoves
<1>4. CASE FindClient(w)
  <2>1. UNCHANGED <<env, request, stores, history>>
    BY <1>4, FindMoves
  <2>2. ASSUME NEW rec \in Recs, Went(w, rec, "find"),
               Notes(w, rec, worker[w].id, stores.client, worker[w].key, stores.enabled)
        PROVE  Justified'
    <3>1. PICK t : Follows(worker[w], "find", t) /\ Moves(w, rec, t)
      BY <2>2 DEF Went
    <3>2. t = "put" /\ worker[w].kind = "renew"
      BY <3>1 DEF Follows
    <3>3. WorkerJustified(rec, t)'
      BY <2>1, <2>2, <3>2 DEF WorkerJustified, Notes, Justified, AccessIsJustified
    <3>4. QED
      BY <2>1, <2>2, <3>1, <3>3, JustifiedLooking
  <2>3. QED
    BY <1>4, <2>1, <2>2, JustifiedThrows, FindMoves
<1>5. QED
  BY <1>1, <1>2, <1>3, <1>4

(* What grants access.                                                      *)
LEMMA JustifiedEnabling ==
    ASSUME Typed, Justified, NEW w \in Workers, Enable(w) \/ PutClient(w)
    PROVE  Justified'
<1>0. /\ WorkerJustified(worker[w], Step(w)) /\ worker[w] \in Recs /\ StoresTyped /\ Remembered
      /\ AccessIsJustified
  BY TypedParts DEF Justified
<1>1. ASSUME NEW s \in {"enable", "put"}, Went(w, worker[w], s), UNCHANGED <<env, request>>,
             history'.justified = history.justified, history.astray => history'.astray,
             AccessIsJustified'
      PROVE  Justified'
  <2>0. PICK rec \in Recs : rec = worker[w]
    BY <1>0
  <2>1. PICK t : Follows(rec, s, t) /\ Moves(w, rec, t)
    BY <1>1, <2>0 DEF Went
  <2>2. t \notin {"details", "enable", "put"}
    BY <1>1, <2>1 DEF Follows
  <2>3. WorkerJustified(rec, t)'
    BY <1>0, <1>1, <2>0, <2>2 DEF WorkerJustified
  <2>4. RequestsJustified'
    BY <1>1 DEF Justified, RequestsJustified
  <2>5. \A r \in Requests : Approving(r) /\ request[r].access \in history.justified =>
                             request'[r].access \in history'.justified
    BY <1>1
  <2>6. QED
    BY <1>1, <2>1, <2>3, <2>4, <2>5, JustifiedAfter
<1>2. CASE Enable(w)
  <2>1. Step(w) = "enable" /\ UNCHANGED <<env, request>>
    BY <1>2, EnableMoves
  <2>2. CASE /\ IF OAuth THEN stores.client # None
                ELSE stores.kong # None /\ stores.kong = worker[w].consumer
             /\ stores' = IF OAuth THEN [stores EXCEPT !.enabled = TRUE]
                                   ELSE [stores EXCEPT !.acl = TRUE]
             /\ history' = [history EXCEPT !.astray = @ \/ (OAuth /\ stores.client # Own(w))]
             /\ Went(w, worker[w], "enable")
    <3>1. /\ history'.justified = history.justified
          /\ history'.astray <=> history.astray \/ (OAuth /\ stores.client # worker[w].id)
      BY <1>0, <2>2 DEF Remembered, Own
    <3>2. /\ worker[w].id \in history.justified
          /\ history.astray \/ OAuth \/ worker[w].consumer = worker[w].id
      BY <1>0, <2>1 DEF WorkerJustified
    <3>3. AccessIsJustified'
      <4>1. CASE OAuth
        BY <1>0, <2>2, <3>1, <3>2, <4>1 DEF AccessIsJustified, StoresTyped
      <4>2. CASE ~OAuth
        BY <1>0, <2>2, <3>1, <3>2, <4>2 DEF AccessIsJustified, StoresTyped
      <4>3. QED
        BY <4>1, <4>2
    <3>4. QED
      BY <1>1, <2>1, <2>2, <3>1, <3>3
  <2>3. QED
    BY <1>2, <2>1, <2>2, JustifiedThrows, EnableMoves
<1>3. CASE PutClient(w)
  <2> DEFINE able == stores.client = worker[w].consumer
             new == [stores EXCEPT !.enabled = worker[w].seen]
  <2>1. Called(w, "put", able, new)
    BY <1>3, CallsMove
  <2>2. CASE able /\ stores' = new /\ Went(w, worker[w], "put") /\ UNCHANGED <<request, history>>
    <3>1. AccessIsJustified'
      BY <1>0, <2>1, <2>2 DEF AccessIsJustified, StoresTyped, WorkerJustified, Called
    <3> HIDE DEF able, new
    <3>2. QED
      BY <1>1, <2>1, <2>2, <3>1 DEF Called
  <2> HIDE DEF able, new
  <2>3. QED
    BY <2>1, <2>2, JustifiedThrows DEF Called
<1>4. QED
  BY <1>2, <1>3

(* What decides on requests.                                                *)
LEMMA JustifiedDeciding ==
    ASSUME Typed, Justified, NEW w \in Workers, LinkServiceAccess(w) \/ Write(w) \/ Complete(w)
    PROVE  Justified'
<1>0. WorkerJustified(worker[w], Step(w)) /\ StoresTyped /\ RequestsTyped /\ Remembered
  BY TypedParts DEF Justified
<1>a. PICK was \in Recs : was = worker[w]
  BY TypedParts
<1>1. CASE LinkServiceAccess(w)
  <2>1. /\ Step(w) = "link" /\ UNCHANGED env /\ was.req \in Requests /\ was.id \in Ids
        /\ was.kind = "collect"
    BY <1>1, <1>a, LinkMoves, AtStep DEF Own, LinkServiceAccess, Attempt, Follows
  <2>2. CASE /\ request' = [request EXCEPT ![was.req].access = was.id]
             /\ history' = [history EXCEPT !.justified =
                    IF Approving(was.req) \/ ~env.approval THEN @ \cup {was.id} ELSE @]
             /\ Went(w, was, "link") /\ UNCHANGED stores
    <3>1. PICK t : Follows(was, "link", t) /\ Moves(w, was, t)
      BY <1>a, <2>2 DEF Went
    <3>2. /\ history'.justified = IF Approving(was.req) \/ ~env.approval
                                  THEN history.justified \cup {was.id} ELSE history.justified
          /\ history'.astray = history.astray
      BY <1>0, <2>2 DEF Remembered
    <3>3. \A r \in Requests :
             /\ request'[r].access = IF r = was.req THEN was.id ELSE request[r].access
             /\ request'[r].approved = request[r].approved
      BY <1>0, <2>1, <2>2 DEF RequestsTyped
    <3>4. RequestsJustified'
      BY <2>1, <3>2, <3>3 DEF RequestsJustified, Justified, Approving
    <3>5. AccessIsJustified'
      BY <2>2, <3>2 DEF AccessIsJustified, Justified
    <3>6. \A r \in Requests : Approving(r) /\ request[r].access \in history.justified =>
                               request'[r].access \in history'.justified
      BY <3>2, <3>3
    <3>7. WorkerJustified(was, t)'
      BY <2>1, <3>1 DEF WorkerJustified, Follows
    <3>8. history.justified \subseteq history'.justified
      BY <3>2
    <3>9. QED
      BY <2>1, <3>1, <3>2, <3>4, <3>5, <3>6, <3>7, <3>8, JustifiedAfter
  <2>3. QED
    BY <1>1, <1>a, <2>1, <2>2, JustifiedThrows, LinkMoves DEF Own
<1>2. CASE Write(w)
  <2>1. /\ Step(w) = "write" /\ UNCHANGED env /\ was.req \in Requests
        /\ was.kind \in {"approve", "reject"}
    BY <1>2, <1>a, WriteMoves
  <2>2. CASE /\ request' = [request EXCEPT ![was.req] =
                    IF was.kind = "reject"
                    THEN [@ EXCEPT !.approved = FALSE, !.complete = TRUE]
                    ELSE [@ EXCEPT !.approved = TRUE, !.issued = TRUE, !.complete = TRUE]]
             /\ history' = [history EXCEPT !.justified = @ \cup
                    (IF was.kind = "approve" THEN {request[was.req].access} ELSE {})]
             /\ Went(w, was, "write") /\ UNCHANGED stores
    <3>1. PICK t : Follows(was, "write", t) /\ Moves(w, was, t)
      BY <1>a, <2>2 DEF Went
    <3>2. /\ history'.justified = history.justified \cup
                 (IF was.kind = "approve" THEN {request[was.req].access} ELSE {})
          /\ history'.astray = history.astray
      BY <1>0, <2>2 DEF Remembered
    <3>3. \A r \in Requests :
             /\ request'[r].access = request[r].access
             /\ r # was.req => request'[r].approved = request[r].approved
             /\ r = was.req => request'[r].approved = (was.kind = "approve")
      <4>1. PICK req \in RequestRecs : req = request[was.req]
        BY <1>0, <2>1 DEF RequestsTyped, RequestRecs
      <4>2. PICK new \in RequestRecs :
               /\ new = IF was.kind = "reject"
                        THEN [req EXCEPT !.approved = FALSE, !.complete = TRUE]
                        ELSE [req EXCEPT !.approved = TRUE, !.issued = TRUE, !.complete = TRUE]
               /\ new.access = req.access /\ new.approved = (was.kind = "approve")
        <5>1. PICK refused : refused = [req EXCEPT !.approved = FALSE, !.complete = TRUE]
          OBVIOUS
        <5>2. PICK some : some = [req EXCEPT !.approved = TRUE, !.issued = TRUE]
          OBVIOUS
        <5>3. PICK all : all = [some EXCEPT !.complete = TRUE]
          OBVIOUS
        <5>4. /\ refused \in RequestRecs /\ refused.access = req.access /\ refused.approved = FALSE
              /\ some \in RequestRecs /\ some.access = req.access /\ some.approved = TRUE
          BY <5>1, <5>2 DEF RequestRecs
        <5>5. all \in RequestRecs /\ all.access = req.access /\ all.approved = TRUE
          BY <5>3, <5>4 DEF RequestRecs
        <5>6. all = [req EXCEPT !.approved = TRUE, !.issued = TRUE, !.complete = TRUE]
          BY <5>2, <5>3
        <5>7. CASE was.kind = "reject"
          BY <5>1, <5>4, <5>7
        <5>8. CASE was.kind = "approve"
          BY <5>5, <5>6, <5>8
        <5>9. QED
          BY <2>1, <5>7, <5>8
      <4>3. request' = [request EXCEPT ![was.req] = new]
        BY <2>2, <4>1, <4>2
      <4>4. QED
        BY <1>0, <2>1, <4>1, <4>2, <4>3 DEF RequestsTyped
    <3>4. RequestsJustified'
      BY <2>1, <3>2, <3>3 DEF RequestsJustified, Justified
    <3>5. AccessIsJustified'
      BY <2>2, <3>2 DEF AccessIsJustified, Justified
    <3>6. \A r \in Requests : Approving(r) /\ request[r].access \in history.justified =>
                               request'[r].access \in history'.justified
      BY <3>2, <3>3
    <3>7. WorkerJustified(was, t)'
      BY <2>1, <3>1, <3>2, <3>3 DEF WorkerJustified, Follows
    <3>8. history.justified \subseteq history'.justified
      BY <3>2
    <3>9. QED
      BY <2>1, <3>1, <3>2, <3>4, <3>5, <3>6, <3>7, <3>8, JustifiedAfter
  <2>3. QED
    BY <1>2, <1>a, <2>1, <2>2, JustifiedThrows, WriteMoves
<1>3. CASE Complete(w)
  <2>1. /\ Step(w) = "complete" /\ UNCHANGED env /\ was.req \in Requests
        /\ was.kind = "collect" /\ ~env.approval
    BY <1>3, <1>a, CompleteMoves
  <2>2. ASSUME NEW rec \in Recs, NEW t, Moves(w, rec, t), t \in {"details", "rest"},
               rec.kind = "nested", UNCHANGED <<stores, history>>,
               request' = [request EXCEPT ![was.req] =
                        [@ EXCEPT !.approved = TRUE, !.issued = TRUE, !.complete = TRUE]]
        PROVE  Justified'
    <3>1. PICK req \in RequestRecs : req = request[was.req]
      BY <1>0, <2>1 DEF RequestsTyped, RequestRecs
    <3>2. PICK new \in RequestRecs :
             /\ new = [req EXCEPT !.approved = TRUE, !.issued = TRUE, !.complete = TRUE]
             /\ new.access = req.access
      <4>1. PICK some : some = [req EXCEPT !.approved = TRUE, !.issued = TRUE]
        OBVIOUS
      <4>2. PICK all : all = [some EXCEPT !.complete = TRUE]
        OBVIOUS
      <4>3. some \in RequestRecs /\ some.access = req.access
        BY <4>1 DEF RequestRecs
      <4>4. all \in RequestRecs /\ all.access = req.access
        BY <4>2, <4>3 DEF RequestRecs
      <4>5. all = [req EXCEPT !.approved = TRUE, !.issued = TRUE, !.complete = TRUE]
        BY <4>1, <4>2
      <4>6. QED
        BY <4>4, <4>5
    <3>3. request' = [request EXCEPT ![was.req] = new]
      BY <2>2, <3>1, <3>2
    <3>4. \A r \in Requests : request'[r].access = request[r].access
      BY <1>0, <2>1, <3>1, <3>2, <3>3 DEF RequestsTyped
    <3>5. RequestsJustified'
      BY <2>1, <2>2, <3>4 DEF RequestsJustified, Justified
    <3>6. AccessIsJustified'
      BY <2>2 DEF AccessIsJustified, Justified
    <3>7. WorkerJustified(rec, t)'
      BY <2>2 DEF WorkerJustified
    <3>8. \A r \in Requests : Approving(r) /\ request[r].access \in history.justified =>
                               request'[r].access \in history'.justified
      BY <2>2, <3>4
    <3>9. QED
      BY <2>1, <2>2, <3>5, <3>6, <3>7, <3>8, JustifiedAfter
  <2>3. QED
    BY <1>3, <1>a, <2>1, <2>2, JustifiedThrows, CompleteMoves
<1>4. QED
  BY <1>1, <1>2, <1>3

(* What starts has nothing to enable yet, or was approved before.           *)
LEMMA JustifiedStarting ==
    ASSUME Typed, Justified, NEW w \in Workers,
           \/ \E r \in Requests : Collect(w, r) \/ Approve(w, r) \/ Reject(w, r)
           \/ Issue(w) \/ Renew(w) \/ Revoke(w)
    PROVE  Justified'
<1>1. UNCHANGED <<env, request, stores>>
  BY DEF Collect, Approve, Reject, Issue, Renew, Revoke
<1>2. ASSUME NEW kind, NEW req, NEW id, NEW key, NEW s, Enters(w, kind, req, id, key, s),
             s \notin {"details", "enable", "put"}, kind = "issue" => id \in history'.justified,
             history.justified \subseteq history'.justified, history'.astray = history.astray
      PROVE  Justified'
  <2>1. PICK rec \in Recs : Fresh(rec, kind, req, id, key) /\ Moves(w, rec, s)
    BY <1>2 DEF Enters
  <2>2. RequestsJustified' /\ AccessIsJustified'
    BY <1>1, <1>2 DEF Justified, RequestsJustified, AccessIsJustified
  <2>3. WorkerJustified(rec, s)'
    BY <1>2, <2>1 DEF WorkerJustified, Fresh
  <2>4. \A r \in Requests : Approving(r) /\ request[r].access \in history.justified =>
                             request'[r].access \in history'.justified
    BY <1>1, <1>2
  <2>5. QED
    BY <1>1, <1>2, <2>1, <2>2, <2>3, <2>4, JustifiedAfter
<1>3. ASSUME NEW activity, NEW rec, activity # "issue", Start(w, activity, rec)
      PROVE  history'.justified = history.justified /\ history'.astray = history.astray
  BY <1>3, TypedParts DEF Start, Overlapping, Remembered
<1>4. CASE Issue(w)
  <2>1. Enters(w, "issue", None, nextId, None, FirstOfMaking)
    BY <1>4, IssueStarts
  <2>2. PICK rec : rec = [Idle EXCEPT !.kind = "issue", !.id = nextId, !.todo = IssueSteps]
    OBVIOUS
  <2>3. rec.id = nextId /\ Start(w, "issue", rec)
    BY <1>4, <2>2 DEF Idle, Issue
  <2>4. /\ history'.justified = history.justified \cup {nextId}
        /\ history'.astray = history.astray
    BY <2>3, TypedParts DEF Start, Overlapping, Remembered
  <2>5. FirstOfMaking \notin {"details", "enable", "put"}
    BY DEF FirstOfMaking
  <2>6. QED
    BY <1>2, <2>1, <2>4, <2>5
<1>5. CASE Renew(w)
  <2>1. Enters(w, "renew", None, stores.access, stores.key, FirstOfRenewal)
    BY <1>5, RenewStarts
  <2>2. history'.justified = history.justified /\ history'.astray = history.astray
    BY <1>3, <1>5 DEF Renew
  <2>3. QED
    BY <1>2, <2>1, <2>2 DEF FirstOfRenewal
<1>6. CASE Revoke(w)
  <2>1. Enters(w, "revoke", None, stores.access, None, "svc")
    BY <1>6, RevokeStarts
  <2>2. history'.justified = history.justified /\ history'.astray = history.astray
    BY <1>3, <1>6 DEF Revoke
  <2>3. QED
    BY <1>2, <2>1, <2>2
<1>7. ASSUME NEW r \in Requests, Collect(w, r) PROVE Justified'
  <2>1. Enters(w, "collect", r, nextId, None, FirstOfMaking)
    BY <1>7, CollectStarts
  <2>2. history'.justified = history.justified /\ history'.astray = history.astray
    BY <1>3, <1>7 DEF Collect
  <2>3. QED
    BY <1>2, <2>1, <2>2 DEF FirstOfMaking
<1>8. ASSUME NEW r \in Requests, NEW kind \in {"approve", "reject"},
             IF kind = "approve" THEN Approve(w, r) ELSE Reject(w, r)
      PROVE  Justified'
  <2>1. Enters(w, kind, r, None, None, "write")
    BY <1>8, UpdateStarts
  <2>2. history'.justified = history.justified /\ history'.astray = history.astray
    BY <1>3, <1>8 DEF Approve, Reject
  <2>3. QED
    BY <1>2, <2>1, <2>2
<1>9. QED
  BY <1>4, <1>5, <1>6, <1>7, <1>8

(* A restart neither.                                                       *)
LEMMA JustifiedStop ==
    ASSUME Typed, CredentialAssumption, Justified, NEW w \in Workers, Stop(w)
    PROVE  Justified'
<1>1. /\ Moves(w, worker[w], "rest") /\ worker[w] \in Recs
      /\ UNCHANGED <<env, request, stores>>
  BY StopMoves, TypedParts
<1>2. history'.justified = history.justified /\ history'.astray = history.astray
  BY TypedParts DEF Stop, Remembered
<1>3. PICK rec, t : rec \in Recs /\ rec = worker[w] /\ t = "rest" /\ Moves(w, rec, t)
  BY <1>1
<1>4. QED
  BY <1>1, <1>2, <1>3, JustifiedStill

(* The steps of no worker leave everything justified.                       *)
LEMMA JustifiedOthers ==
    ASSUME Typed, Justified,
           \/ \E r \in Requests : CreateRequest(r) \/ Cancel(r)
           \/ FeedRead \/ FeedWrite \/ UNCHANGED vars
    PROVE  Justified'
<1>0. StoresTyped /\ RequestsTyped /\ Remembered
  BY TypedParts
<1>1. UNCHANGED <<env, worker>> /\ history'.justified = history.justified
      /\ (history.astray => history'.astray)
  BY <1>0 DEF CreateRequest, Cancel, FeedRead, FeedWrite, vars, Overlapping, Remembered
<1>2. stores'.acl = stores.acl /\ stores'.kong = stores.kong
      /\ stores'.enabled = stores.enabled /\ stores'.client = stores.client
  BY <1>0 DEF CreateRequest, Cancel, FeedRead, FeedWrite, vars, Synced, StoresTyped
<1>3. \A r \in Requests :
         \/ request'[r].access = request[r].access /\ request'[r].approved = request[r].approved
         \/ request'[r].access = None
  BY <1>0 DEF CreateRequest, Cancel, FeedRead, FeedWrite, vars, Gone, NotMade, RequestsTyped
<1>4. RequestsJustified' /\ AccessIsJustified'
  BY <1>1, <1>2, <1>3 DEF Justified, RequestsJustified, AccessIsJustified
<1>5. ASSUME NEW v \in Workers PROVE WorkerJustified(worker[v], Step(v))'
  <2>1. WorkerJustified(worker[v], Step(v)) /\ Carries(worker[v], Step(v))
    BY TypedParts DEF Justified, Programmed
  <2>2. worker[v].kind = "approve" => worker[v].req \in Requests
    BY <2>1 DEF Carries
  <2>3. OAuth' = OAuth /\ worker'[v] = worker[v] /\ Step(v)' = Step(v)
    BY <1>1 DEF OAuth, Step
  <2>4. QED
    BY <1>1, <1>3, <2>1, <2>2, <2>3 DEF WorkerJustified, Justified
<1>6. QED
  BY <1>1, <1>4, <1>5 DEF Justified

(* Access is only given to what the gateway issued, what needs no approval,  *)
(* or what somebody approved, whatever overlaps, fails or stops half way;      *)
(* unless a handler that acts by the name met another one's credential.       *)
THEOREM AccessJustified == Spec => []AccessIsJustified
<1>1. Init => Typed /\ Justified
  <2> SUFFICES ASSUME Init PROVE Typed /\ Justified
    OBVIOUS
  <2>1. Typed
    BY TypedInit, CredentialAssumption
  <2>2. \A w \in Workers : worker[w].kind = "idle" /\ Step(w) = "rest"
    BY DEF Init, Idle, Step, First
  <2>3. \A w \in Workers : WorkerJustified(worker[w], Step(w))
    BY <2>2 DEF WorkerJustified
  <2>4. RequestsJustified /\ AccessIsJustified /\ None \in history.justified
    BY DEF Init, RequestsJustified, AccessIsJustified, NotMade, Empty
  <2>5. QED
    BY <2>1, <2>3, <2>4 DEF Justified
<1>2. Typed /\ Justified /\ [Next]_vars => Typed' /\ Justified'
  <2> SUFFICES ASSUME Typed, Justified, [Next]_vars PROVE Typed' /\ Justified'
    OBVIOUS
  <2>1. ASSUME NEW w \in Workers, Work(w) PROVE Justified'
    BY <2>1, CredentialAssumption, JustifiedMaking, JustifiedTrying, JustifiedDeleting,
       JustifiedLookUp, JustifiedEnabling, JustifiedDeciding DEF Work
  <2>2. Justified'
    BY <2>1, CredentialAssumption, JustifiedStarting, JustifiedStop, JustifiedOthers DEF Next
  <2>3. QED
    BY <2>2, TypedNext, CredentialAssumption
<1>3. Justified => AccessIsJustified
  BY DEF Justified
<1>4. QED
  BY <1>1, <1>2, <1>3, PTL DEF Spec

-----------------------------------------------------------------------------
(***************************************************************************)
(* What a step of a worker changes, when no failure goes unnoticed.          *)
(***************************************************************************)

Making == {"client", "consumer", "key", "row", "sync", "access",
           "cleanRow", "cleanOwn", "cleanKong", "cleanClient"}
Renewing == {"locate", "unkey", "newkey", "find", "put", "relink"}

(* Which step may come before t, in a program or when it throws.              *)
Order(rec, s, t) ==
    /\ t \notin {"client", "locate", "find", "write"}
    /\ t = "consumer" => s = "client"
    /\ t = "key" => s = "consumer"
    /\ t = "row" => s \in {"consumer", "key"}
    /\ t = "sync" => s = "row"
    /\ t = "access" => s = "sync"
    /\ t = "link" => s = "access"
    /\ t = "consult" => s = "access"
    /\ t = "cleanRow" => s \in {"key", "row"}
    /\ t = "cleanOwn" => s \in {"sync", "access"}
    /\ t = "cleanKong" => s \in {"cleanRow", "cleanOwn"}
    /\ t = "cleanClient" => s \in {"consumer", "cleanKong"}
    /\ t = "unkey" => s = "locate"
    /\ t = "newkey" => s = "unkey"
    /\ t = "put" => s = "find"
    /\ t = "relink" => s \in {"newkey", "put"}
    /\ t = "svc" => s \notin Making \cup Renewing \cup Deleting
    /\ t = "unrequest" => s = "svc"
    /\ t = "unrow" => s = "unrequest" /\ rec.consumer # None
    /\ t = "unkong" => s = "unrow"
    /\ t = "unclient" => s = "unkong"
    /\ t = "unaccess" => s \in {"unkong", "unclient"} \/ (s = "unrequest" /\ rec.consumer = None)
    /\ s = "unrow" => t = "unkong"
    /\ s = "unkong" => t \in {"unclient", "unaccess"}
    /\ s = "unclient" => t = "unaccess"

(* What follows a step that went well keeps to that order.                 *)
LEMMA FollowsOrder ==
    ASSUME NEW rec, NEW s, NEW t, Follows(rec, s, t)
    PROVE  Order(rec, s, t)
<1>1. CASE s \in {"client", "consumer", "key", "row", "sync", "access"}
  BY <1>1 DEF Follows, Order, Making, Renewing, Deleting
<1>2. CASE s \in {"cleanRow", "cleanOwn", "cleanKong", "cleanClient"}
  BY <1>2 DEF Follows, Order, Making, Renewing, Deleting
<1>3. CASE s \in {"link", "complete", "details", "consult", "enable", "activate", "resync"}
  BY <1>3 DEF Follows, Order, Making, Renewing, Deleting
<1>4. CASE s \in {"write", "unissue"} \cup Renewing
  BY <1>4 DEF Follows, Order, Making, Renewing, Deleting
<1>5. CASE s \in Deleting
  <2>1. \/ s \in {"svc", "unaccess"} /\ t \in {"rest", "unissue"}
        \/ s = "unrequest" /\ t = (IF rec.consumer # None THEN "unrow" ELSE "unaccess")
        \/ s = "unrow" /\ t = "unkong"
        \/ s = "unkong" /\ t \in {"unclient", "unaccess"}
        \/ s = "unclient" /\ t = "unaccess"
    BY <1>5 DEF Follows, Deleting
  <2>2. QED
    BY <2>1 DEF Order
<1>6. QED
  BY <1>1, <1>2, <1>3, <1>4, <1>5 DEF Follows, Renewing, Deleting

(* So does what the catch of a step puts there.                            *)
LEMMA RecoveryOrder ==
    ASSUME NEW rec, NEW s \in Attempted, NEW u, Follows(rec, s, u)
    PROVE  Order(rec, s, FirstOfRecovery(rec.kind, s))
BY DEF Follows, Order, Making, Renewing, Deleting, Attempted, FirstOfRecovery

(* What it may write to Kong, to the Portal and to the requests.             *)
KongChanges(w, rec, t) ==
    LET s == Step(w) IN
    /\ s \notin {"consumer", "key", "newkey", "unkey", "cleanKong", "unkong"} =>
          stores'.kong = stores.kong /\ stores'.keys = stores.keys
    /\ s = "consumer" =>
          /\ stores'.keys = stores.keys
          /\ IF t \in {"key", "row"} THEN stores.kong = None /\ stores'.kong = Own(w)
             ELSE stores'.kong = stores.kong
    /\ s \in {"key", "newkey"} =>
          /\ stores'.kong = stores.kong
          /\ IF t \in {"row", "relink"}
             THEN /\ stores.kong = IF s = "key" THEN Own(w) ELSE worker[w].consumer
                  /\ stores'.keys = stores.keys \cup {rec.key}
             ELSE stores'.keys = stores.keys
    /\ s = "unkey" =>
          /\ stores'.kong = stores.kong
          /\ stores'.keys = IF t = "newkey" /\ stores.kong = worker[w].consumer
                            THEN stores.keys \ {worker[w].key} ELSE stores.keys
    /\ s \in {"cleanKong", "unkong"} =>
          IF stores.kong = IF s = "unkong" THEN worker[w].consumer ELSE Own(w)
          THEN stores'.kong = None /\ stores'.keys = {}
          ELSE stores'.kong = stores.kong /\ stores'.keys = stores.keys

PortalChanges(w, t) ==
    LET s == Step(w) IN
    /\ s \notin {"row", "cleanRow", "cleanOwn", "unrow"} =>
          /\ stores'.own = stores.own
          /\ stores'.row = stores.row \/ stores'.row = stores.kong
    /\ s = "row" =>
          IF t = "sync" THEN stores.row = None /\ stores'.own = Own(w) /\ stores'.row = Own(w)
          ELSE stores'.own = stores.own /\ stores'.row = stores.row
    /\ s \in {"cleanRow", "cleanOwn", "unrow"} =>
          IF Own(w) = IF s = "cleanRow" THEN stores.row ELSE stores.own
          THEN stores'.own = None /\ stores'.row = None
          ELSE stores'.own = stores.own /\ stores'.row = stores.row
    /\ s \notin {"access", "unaccess"} => stores'.access = stores.access
    /\ s \notin {"access", "unaccess", "relink"} => stores'.key = stores.key
    /\ s = "access" =>
          IF t \in {"link", "consult"}
          THEN /\ stores.access = None /\ stores.own = Own(w) /\ stores'.access = Own(w)
               /\ stores'.key = worker[w].key
          ELSE stores'.access = stores.access /\ stores'.key = stores.key
    /\ s = "unaccess" =>
          IF stores.access = Own(w) THEN stores'.access = None /\ stores'.key = None
          ELSE stores'.access = stores.access /\ stores'.key = stores.key
    /\ s = "svc" /\ t = "unrequest" => stores.access = Own(w)
    /\ s = "relink" =>
          stores'.key = IF stores.access = Own(w) THEN worker[w].key ELSE stores.key

RequestsChange(w) ==
    \A r \in Requests :
        \/ request'[r].access \in {request[r].access, None}
        \/ Step(w) = "link" /\ request'[r].access = Own(w) /\ stores.access = Own(w)

(* What it remembers.                                                        *)
WorkerChanges(w, rec) ==
    LET s == Step(w) IN
    /\ \/ rec.kind = worker[w].kind
       \/ s = "complete" /\ worker[w].kind = "collect" /\ rec.kind = "nested"
    /\ rec.id = worker[w].id \/ (s = "details" /\ rec.id = stores.access)
    /\ \/ rec.consumer = worker[w].consumer /\ s # "svc"
       \/ s \in {"details", "consult"} /\ rec.consumer = stores.row
       \/ s = "locate" /\ rec.consumer = stores.kong
       \/ s = "find" /\ rec.consumer = stores.client
       \/ /\ s = "svc" /\ stores.access = Own(w)
          /\ rec.consumer = IF HasConsumer(Own(w)) THEN stores.row ELSE None
       \/ s = "svc" /\ stores.access # Own(w) /\ rec.consumer = worker[w].consumer
    /\ rec.key = worker[w].key \/ s \in {"key", "newkey"}

Changes(w, rec, t) ==
    /\ rec \in Recs /\ Moves(w, rec, t) /\ Order(rec, Step(w), t)
    /\ KongChanges(w, rec, t) /\ PortalChanges(w, t) /\ RequestsChange(w)
    /\ WorkerChanges(w, rec) /\ UNCHANGED <<env, feed, nextId>>

(* Some step follows the one that a worker is at, if only its rest.        *)
LEMMA StepFollows ==
    ASSUME Typed, NEW w \in Workers, Step(w) # "rest"
    PROVE  \E t : Follows(worker[w], Step(w), t)
<1>1. PICK r : r = worker[w]
  OBVIOUS
<1>2. Chained(r, r.todo) /\ r.todo # <<>> /\ Head(r.todo) = Step(w)
  BY <1>1, TypedParts DEF Programmed, Step, First
<1>3. QED
  BY <1>1, <1>2, TailChained

(* It may also be that a call fails and nobody hears of it, or that the Portal *)
(* restarts: what it went over is not done.                                 *)
Unthrown == {"activate", "unkey", "relink", "cleanRow", "cleanOwn", "cleanKong", "cleanClient",
             "unissue", "svc", "unrequest", "unrow", "unkong", "unclient", "unaccess"}

Silent(w) ==
    /\ UNCHANGED <<env, stores, nextId>> /\ faults' = faults + 1
    /\ \E t : /\ Moves(w, worker[w], t)
             /\ \/ t \in {"rest", "unissue", "unaccess"}
                \/ Step(w) \in Unthrown /\ Order(worker[w], Step(w), t)

Goes(w) == (history'.dirty /\ Silent(w)) \/ \E rec, t : Changes(w, rec, t)

(* A step that throws changes no more than that.                           *)
LEMMA GoesThrowing ==
    ASSUME Typed, NEW w \in Workers, NEW s \in Attempted, Step(w) = s, Throws(w, s),
           UNCHANGED <<env, feed, nextId>>
    PROVE  Goes(w)
<1> DEFINE t == FirstOfRecovery(worker[w].kind, s)
<1>1. PICK rec \in Recs : rec = worker[w]
  BY TypedParts
<1>2. PICK u : Follows(rec, s, u)
  BY <1>1, StepFollows DEF Attempted
<1>3. Order(rec, s, t)
  BY <1>1, <1>2, RecoveryOrder
<1>4. t \notin {"key", "row", "newkey", "relink", "sync", "link", "consult"}
  BY DEF FirstOfRecovery
<1> HIDE DEF t
<1>5. KongChanges(w, rec, t) /\ PortalChanges(w, t) /\ RequestsChange(w) /\ WorkerChanges(w, rec)
  BY <1>1, <1>4 DEF KongChanges, PortalChanges, RequestsChange, WorkerChanges, Throws, Attempted
<1>6. Moves(w, rec, t)
  BY <1>1 DEF Throws, t
<1>7. QED
  BY <1>1, <1>3, <1>5, <1>6 DEF Changes, Goes

(* Nor does one that goes well, when what it writes is within bounds.      *)
LEMMA GoesOnward ==
    ASSUME Typed, NEW w \in Workers, NEW s, Step(w) = s, NEW rec \in Recs, Went(w, rec, s),
           UNCHANGED <<env, feed, nextId>>, rec.kind = worker[w].kind,
           s \notin {"svc", "unrequest"} \/ rec.consumer = worker[w].consumer,
           \A t : Follows(worker[w], s, t) => KongChanges(w, rec, t) /\ PortalChanges(w, t),
           RequestsChange(w), WorkerChanges(w, rec)
    PROVE  Goes(w)
<1>1. PICK t : Follows(worker[w], s, t) /\ Moves(w, rec, t)
  BY DEF Went
<1>2. Order(worker[w], s, t)
  BY <1>1, FollowsOrder
<1>3. Order(rec, s, t)
  BY <1>2 DEF Order
<1>4. QED
  BY <1>1, <1>3 DEF Changes, Goes

(* A failure that nobody hears of is noted.                                *)
LEMMA DirtyNow ==
    ASSUME Typed, history' = [history EXCEPT !.dirty = TRUE]
    PROVE  history'.dirty
BY TypedParts DEF Remembered

LEMMA SilentMoves ==
    ASSUME Typed, NEW w \in Workers, UNCHANGED <<env, stores, nextId>>, faults' = faults + 1,
           history' = [history EXCEPT !.dirty = TRUE],
           \/ Step(w) \in Unthrown /\ Went(w, worker[w], Step(w))
           \/ \E t \in {"rest", "unissue", "unaccess"} : Moves(w, worker[w], t)
    PROVE  Goes(w)
<1>1. PICK rec : rec = worker[w]
  OBVIOUS
<1>2. \E t : /\ Moves(w, rec, t)
            /\ \/ t \in {"rest", "unissue", "unaccess"}
               \/ Step(w) \in Unthrown /\ Order(rec, Step(w), t)
  BY <1>1, FollowsOrder DEF Went
<1>3. QED
  BY <1>1, <1>2, DirtyNow DEF Goes, Silent

(* The calls whose failure is thrown.                                      *)
LEMMA GoesCalled ==
    ASSUME Typed, NEW w \in Workers, NEW s \in Attempted, NEW able, NEW new,
           Called(w, s, able, new),
           ASSUME able, stores' = new, NEW t, Follows(worker[w], s, t)
           PROVE  KongChanges(w, worker[w], t) /\ PortalChanges(w, t)
    PROVE  Goes(w)
<1>1. PICK rec \in Recs : rec = worker[w]
  BY TypedParts
<1>2. s # "svc" /\ Step(w) = s /\ UNCHANGED <<env, feed, nextId>>
  BY DEF Attempted, Called
<1>3. CASE Throws(w, s)
  BY <1>2, <1>3, GoesThrowing
<1>4. CASE /\ able /\ stores' = new /\ Went(w, worker[w], s) /\ UNCHANGED request
  <2>1. RequestsChange(w) /\ WorkerChanges(w, rec)
    BY <1>1, <1>2, <1>4 DEF RequestsChange, WorkerChanges
  <2>2. \A t : Follows(worker[w], s, t) => KongChanges(w, rec, t) /\ PortalChanges(w, t)
    BY <1>1, <1>4
  <2>3. QED
    BY <1>1, <1>2, <1>4, <2>1, <2>2, GoesOnward
<1>5. QED
  BY <1>3, <1>4 DEF Called

(* The calls whose failure is logged and not thrown.                       *)
LEMMA GoesTried ==
    ASSUME Typed, NEW w \in Workers, NEW s \in Unthrown \ {"svc"}, NEW able, NEW new,
           Tried(w, s, able, new),
           ASSUME (able /\ stores' = new) \/ (~able /\ stores' = stores),
                  NEW t, Follows(worker[w], s, t)
           PROVE  KongChanges(w, worker[w], t) /\ PortalChanges(w, t)
    PROVE  Goes(w)
<1>1. PICK rec \in Recs : rec = worker[w]
  BY TypedParts
<1>2. Step(w) = s /\ UNCHANGED <<env, feed, nextId, request>> /\ Went(w, rec, s)
  BY <1>1 DEF Tried
<1>3. RequestsChange(w) /\ WorkerChanges(w, rec)
  BY <1>1, <1>2 DEF RequestsChange, WorkerChanges
<1>4. CASE /\ history' = [history EXCEPT !.dirty = TRUE] /\ faults' = faults + 1
           /\ UNCHANGED stores
  BY <1>1, <1>2, <1>4, SilentMoves
<1>5. CASE (able /\ stores' = new) \/ (~able /\ stores' = stores)
  <2>1. \A t : Follows(worker[w], s, t) => KongChanges(w, rec, t) /\ PortalChanges(w, t)
    BY <1>1, <1>5
  <2>2. QED
    BY <1>1, <1>2, <1>3, <2>1, GoesOnward
<1>6. QED
  BY <1>4, <1>5 DEF Tried, Unnoticed

(* The calls that make a credential.                                         *)
LEMMA GoesMaking ==
    ASSUME Typed, CredentialAssumption, NEW w \in Workers,
           \/ RegisterClient(w) \/ CreateKongConsumer(w) \/ AddConsumerRow(w)
           \/ ForceSync(w) \/ AddServiceAccess(w) \/ PutClient(w)
    PROVE  Goes(w)
<1>0. StoresTyped
  BY TypedParts
<1>1. CASE RegisterClient(w)
  <2> DEFINE able == stores.client = None
             new == [stores EXCEPT !.client = Own(w), !.enabled = FALSE]
  <2>1. Called(w, "client", able, new) /\ "client" \in Attempted
    BY <1>1, CallsMove DEF Attempted
  <2>2. ASSUME able, stores' = new, NEW t, Follows(worker[w], "client", t)
        PROVE  KongChanges(w, worker[w], t) /\ PortalChanges(w, t)
    <3>1. Step(w) = "client"
      BY <2>1 DEF Called
    <3>2. QED
      BY <1>0, <2>2, <3>1 DEF StoresTyped, KongChanges, PortalChanges, Follows
  <2> HIDE DEF able, new
  <2>3. QED
    BY <2>1, <2>2, GoesCalled
<1>2. CASE CreateKongConsumer(w)
  <2> DEFINE able == stores.kong = None
             new == [stores EXCEPT !.kong = Own(w), !.acl = FALSE]
  <2>1. Called(w, "consumer", able, new) /\ "consumer" \in Attempted
    BY <1>2, CallsMove DEF Attempted
  <2>2. ASSUME able, stores' = new, NEW t, Follows(worker[w], "consumer", t)
        PROVE  KongChanges(w, worker[w], t) /\ PortalChanges(w, t)
    <3>1. Step(w) = "consumer"
      BY <2>1 DEF Called
    <3>2. QED
      BY <1>0, <2>2, <3>1 DEF StoresTyped, KongChanges, PortalChanges, Follows
  <2> HIDE DEF able, new
  <2>3. QED
    BY <2>1, <2>2, GoesCalled
<1>3. CASE AddConsumerRow(w)
  <2> DEFINE able == stores.row = None
             new == [stores EXCEPT !.row = Own(w), !.own = Own(w)]
  <2>1. Called(w, "row", able, new) /\ "row" \in Attempted
    BY <1>3, CallsMove DEF Attempted
  <2>2. ASSUME able, stores' = new, NEW t, Follows(worker[w], "row", t)
        PROVE  KongChanges(w, worker[w], t) /\ PortalChanges(w, t)
    <3>1. Step(w) = "row"
      BY <2>1 DEF Called
    <3>2. QED
      BY <1>0, <2>2, <3>1 DEF StoresTyped, KongChanges, PortalChanges, Follows
  <2> HIDE DEF able, new
  <2>3. QED
    BY <2>1, <2>2, GoesCalled
<1>4. CASE AddServiceAccess(w)
  <2> DEFINE able == stores.access = None /\ stores.own = Own(w)
             new == [stores EXCEPT !.access = Own(w), !.active = FALSE, !.key = worker[w].key]
  <2>1. Called(w, "access", able, new) /\ "access" \in Attempted
    BY <1>4, CallsMove DEF Attempted
  <2>2. ASSUME able, stores' = new, NEW t, Follows(worker[w], "access", t)
        PROVE  KongChanges(w, worker[w], t) /\ PortalChanges(w, t)
    <3>1. Step(w) = "access"
      BY <2>1 DEF Called
    <3>2. QED
      BY <1>0, <2>2, <3>1 DEF StoresTyped, KongChanges, PortalChanges, Follows
  <2> HIDE DEF able, new
  <2>3. QED
    BY <2>1, <2>2, GoesCalled
<1>5. CASE PutClient(w)
  <2> DEFINE able == stores.client = worker[w].consumer
             new == [stores EXCEPT !.enabled = worker[w].seen]
  <2>1. Called(w, "put", able, new) /\ "put" \in Attempted
    BY <1>5, CallsMove DEF Attempted
  <2>2. ASSUME able, stores' = new, NEW t, Follows(worker[w], "put", t)
        PROVE  KongChanges(w, worker[w], t) /\ PortalChanges(w, t)
    <3>1. Step(w) = "put"
      BY <2>1 DEF Called
    <3>2. QED
      BY <1>0, <2>2, <3>1 DEF StoresTyped, KongChanges, PortalChanges, Follows
  <2> HIDE DEF able, new
  <2>3. QED
    BY <2>1, <2>2, GoesCalled
<1>6. CASE ForceSync(w)
  <2>1. CASE Called(w, "sync", TRUE, Synced(Found(Own(w))))
    <3> DEFINE new == Synced(Found(Own(w)))
    <3>1. ASSUME stores' = new, NEW t
          PROVE  KongChanges(w, worker[w], t) /\ PortalChanges(w, t)
      <4>1. Step(w) = "sync"
        BY <2>1 DEF Called
      <4>2. QED
        BY <1>0, <3>1, <4>1 DEF StoresTyped, KongChanges, PortalChanges, Synced, Found
    <3>2. Called(w, "sync", TRUE, new) /\ "sync" \in Attempted
      BY <2>1 DEF Attempted
    <3> HIDE DEF new
    <3>3. QED
      BY <3>1, <3>2, GoesCalled
  <2>2. CASE Called(w, "resync", TRUE, Synced(Found(worker[w].consumer)))
    <3> DEFINE new == Synced(Found(worker[w].consumer))
    <3>1. ASSUME stores' = new, NEW t
          PROVE  KongChanges(w, worker[w], t) /\ PortalChanges(w, t)
      <4>1. Step(w) = "resync"
        BY <2>2 DEF Called
      <4>2. QED
        BY <1>0, <3>1, <4>1 DEF StoresTyped, KongChanges, PortalChanges, Synced, Found
    <3>2. Called(w, "resync", TRUE, new) /\ "resync" \in Attempted
      BY <2>2 DEF Attempted
    <3> HIDE DEF new
    <3>3. QED
      BY <3>1, <3>2, GoesCalled
  <2>3. QED
    BY <1>6, <2>1, <2>2, CallsMove
<1>7. QED
  BY <1>1, <1>2, <1>3, <1>4, <1>5, <1>6

(* The steps whose failure is not thrown.                                    *)
LEMMA GoesTrying ==
    ASSUME Typed, CredentialAssumption, NEW w \in Workers,
           \/ Activate(w) \/ DeleteKeyAuth(w) \/ CleanRow(w) \/ CleanKong(w)
           \/ CleanClient(w) \/ DeleteClient(w) \/ DeleteServiceAccess(w) \/ Relink(w)
    PROVE  Goes(w)
<1>0. StoresTyped
  BY TypedParts
<1>1. CASE Activate(w)
  <2> DEFINE able == TRUE
             new == [stores EXCEPT !.active = @ \/ stores.access = Own(w)]
  <2>1. Tried(w, "activate", able, new)
    BY <1>1, TriesMove
  <2>2. ASSUME (able /\ stores' = new) \/ (~able /\ stores' = stores),
               NEW t, Follows(worker[w], "activate", t)
        PROVE  KongChanges(w, worker[w], t) /\ PortalChanges(w, t)
    <3>1. Step(w) = "activate"
      BY <2>1 DEF Tried
    <3>2. QED
      BY <1>0, <2>2, <3>1
         DEF StoresTyped, KongChanges, PortalChanges, WithoutKong, WithoutClient
  <2> HIDE DEF able, new
  <2>3. QED
    BY <2>1, <2>2, GoesTried DEF Unthrown
<1>2. CASE DeleteKeyAuth(w)
  <2> DEFINE able == stores.kong = worker[w].consumer /\ worker[w].key \in stores.keys
             new == [stores EXCEPT !.keys = @ \ {worker[w].key}]
  <2>1. \/ Tried(w, "unkey", able, new)
        \/ Throws(w, "unkey") /\ Step(w) = "unkey" /\ UNCHANGED <<env, feed, nextId>>
    BY <1>2, TriesMove DEF Called
  <2>2. ASSUME (able /\ stores' = new) \/ (~able /\ stores' = stores),
               NEW t, Follows(worker[w], "unkey", t)
        PROVE  KongChanges(w, worker[w], t) /\ PortalChanges(w, t)
    <3>1. Step(w) = "unkey" /\ t = "newkey"
      BY <2>1, <2>2 DEF Tried, Follows
    <3>2. QED
      BY <1>0, <2>2, <3>1
         DEF StoresTyped, KongChanges, PortalChanges, WithoutKong, WithoutClient
  <2> HIDE DEF able, new
  <2>3. QED
    BY <2>1, <2>2, GoesTried, GoesThrowing DEF Attempted, Unthrown
<1>3. CASE CleanKong(w)
  <2> DEFINE able == TRUE
             new == IF stores.kong = Own(w) THEN WithoutKong ELSE stores
  <2>1. Tried(w, "cleanKong", able, new)
    BY <1>3, TriesMove
  <2>2. ASSUME (able /\ stores' = new) \/ (~able /\ stores' = stores),
               NEW t, Follows(worker[w], "cleanKong", t)
        PROVE  KongChanges(w, worker[w], t) /\ PortalChanges(w, t)
    <3>1. Step(w) = "cleanKong"
      BY <2>1 DEF Tried
    <3>2. QED
      BY <1>0, <2>2, <3>1
         DEF StoresTyped, KongChanges, PortalChanges, WithoutKong, WithoutClient
  <2> HIDE DEF able, new
  <2>3. QED
    BY <2>1, <2>2, GoesTried DEF Unthrown
<1>4. CASE CleanClient(w)
  <2> DEFINE able == TRUE
             new == WithoutClient
  <2>1. Tried(w, "cleanClient", able, new)
    BY <1>4, TriesMove
  <2>2. ASSUME (able /\ stores' = new) \/ (~able /\ stores' = stores),
               NEW t, Follows(worker[w], "cleanClient", t)
        PROVE  KongChanges(w, worker[w], t) /\ PortalChanges(w, t)
    <3>1. Step(w) = "cleanClient"
      BY <2>1 DEF Tried
    <3>2. QED
      BY <1>0, <2>2, <3>1
         DEF StoresTyped, KongChanges, PortalChanges, WithoutKong, WithoutClient
  <2> HIDE DEF able, new
  <2>3. QED
    BY <2>1, <2>2, GoesTried DEF Unthrown
<1>5. CASE DeleteClient(w)
  <2> DEFINE able == stores.client # None
             new == WithoutClient
  <2>1. Tried(w, "unclient", able, new)
    BY <1>5, TriesMove
  <2>2. ASSUME (able /\ stores' = new) \/ (~able /\ stores' = stores),
               NEW t, Follows(worker[w], "unclient", t)
        PROVE  KongChanges(w, worker[w], t) /\ PortalChanges(w, t)
    <3>1. Step(w) = "unclient"
      BY <2>1 DEF Tried
    <3>2. QED
      BY <1>0, <2>2, <3>1
         DEF StoresTyped, KongChanges, PortalChanges, WithoutKong, WithoutClient
  <2> HIDE DEF able, new
  <2>3. QED
    BY <2>1, <2>2, GoesTried DEF Unthrown
<1>6. CASE DeleteServiceAccess(w)
  <2> DEFINE able == TRUE
             new == IF stores.access = Own(w)
                    THEN [stores EXCEPT !.access = None, !.active = FALSE, !.key = None]
                    ELSE stores
  <2>1. Tried(w, "unaccess", able, new)
    BY <1>6, TriesMove
  <2>2. ASSUME (able /\ stores' = new) \/ (~able /\ stores' = stores),
               NEW t, Follows(worker[w], "unaccess", t)
        PROVE  KongChanges(w, worker[w], t) /\ PortalChanges(w, t)
    <3>1. Step(w) = "unaccess"
      BY <2>1 DEF Tried
    <3>2. QED
      BY <1>0, <2>2, <3>1
         DEF StoresTyped, KongChanges, PortalChanges, WithoutKong, WithoutClient
  <2> HIDE DEF able, new
  <2>3. QED
    BY <2>1, <2>2, GoesTried DEF Unthrown
<1>7. CASE Relink(w)
  <2> DEFINE able == stores.access = Own(w)
             new == [stores EXCEPT !.active = TRUE, !.key = worker[w].key]
  <2>1. Tried(w, "relink", able, new)
    BY <1>7, RelinkMoves
  <2>2. ASSUME (able /\ stores' = new) \/ (~able /\ stores' = stores),
               NEW t, Follows(worker[w], "relink", t)
        PROVE  KongChanges(w, worker[w], t) /\ PortalChanges(w, t)
    <3>1. Step(w) = "relink"
      BY <2>1 DEF Tried
    <3>2. QED
      BY <1>0, <2>2, <3>1
         DEF StoresTyped, KongChanges, PortalChanges, WithoutKong, WithoutClient
  <2> HIDE DEF able, new
  <2>3. QED
    BY <2>1, <2>2, GoesTried DEF Unthrown
<1>8. CASE CleanRow(w)
  <2>1. PICK s : /\ s \in {"cleanRow", "cleanOwn"}
                 /\ Tried(w, s, TRUE,
                          IF (IF s = "cleanRow" THEN stores.row ELSE stores.own) = Own(w)
                                      THEN WithoutRow ELSE stores)
    BY <1>8, TriesMove
  <2> DEFINE new == IF (IF s = "cleanRow" THEN stores.row ELSE stores.own) = Own(w)
                    THEN WithoutRow ELSE stores
  <2>2. ASSUME stores' = new, NEW t
        PROVE  KongChanges(w, worker[w], t) /\ PortalChanges(w, t)
    <3>1. Step(w) = s
      BY <2>1 DEF Tried
    <3>2. QED
      BY <1>0, <2>1, <2>2, <3>1
         DEF StoresTyped, KongChanges, PortalChanges, WithoutRow
  <2> HIDE DEF new
  <2>3. Tried(w, s, TRUE, new) /\ s \in Unthrown \ {"svc"}
    BY <2>1 DEF new, Unthrown
  <2>4. QED
    BY <2>2, <2>3, GoesTried
<1>9. QED
  BY <1>1, <1>2, <1>3, <1>4, <1>5, <1>6, <1>7, <1>8

(* The deletions of the Portal, of Kong and of what is linked to them.       *)
LEMMA GoesDeleting ==
    ASSUME Typed, CredentialAssumption, NEW w \in Workers,
           \/ DeleteRow(w) \/ DeleteKongConsumer(w) \/ DeleteRequest(w)
           \/ LookUpAccess(w) \/ Unissue(w)
    PROVE  Goes(w)
<1>0. StoresTyped /\ RequestsTyped
  BY TypedParts
<1>1. PICK rec \in Recs : rec = worker[w]
  BY TypedParts
<1> DEFINE Unheard == /\ UNCHANGED <<env, stores, nextId>> /\ faults' = faults + 1
                      /\ history' = [history EXCEPT !.dirty = TRUE]
                      /\ \/ Step(w) \in Unthrown /\ Went(w, worker[w], Step(w))
                         \/ \E t \in {"rest", "unissue", "unaccess"} : Moves(w, worker[w], t)
<1>2. CASE Unheard
  BY <1>2, SilentMoves
<1>3. CASE DeleteRow(w) /\ ~Unheard
  <2>1. /\ Step(w) = "unrow" /\ UNCHANGED <<env, feed, nextId, request>>
        /\ stores' = IF stores.own = Own(w) THEN WithoutRow ELSE stores
        /\ Went(w, rec, "unrow")
    BY <1>1, <1>3, DeletesMove DEF Unthrown
  <2>2. \A t : KongChanges(w, rec, t) /\ PortalChanges(w, t)
    BY <1>0, <2>1 DEF StoresTyped, KongChanges, PortalChanges, WithoutRow
  <2>3. RequestsChange(w) /\ WorkerChanges(w, rec)
    BY <1>1, <2>1 DEF RequestsChange, WorkerChanges
  <2>4. QED
    BY <1>1, <2>1, <2>2, <2>3, GoesOnward
<1>4. CASE DeleteKongConsumer(w) /\ ~Unheard
  <2>1. /\ Step(w) = "unkong" /\ UNCHANGED <<env, feed, nextId, request>>
        /\ \/ /\ stores.kong = worker[w].consumer /\ stores' = WithoutKong
              /\ Went(w, rec, "unkong")
           \/ /\ UNCHANGED stores /\ stores.kong # worker[w].consumer
              /\ Moves(w, rec, "unaccess")
    BY <1>1, <1>4, DeletesMove DEF Unnoticed, Unthrown
  <2>2. \A t : KongChanges(w, rec, t) /\ PortalChanges(w, t)
    BY <1>0, <2>1 DEF StoresTyped, KongChanges, PortalChanges, WithoutKong
  <2>3. RequestsChange(w) /\ WorkerChanges(w, rec)
    BY <1>1, <2>1 DEF RequestsChange, WorkerChanges
  <2>4. CASE Went(w, rec, "unkong")
    BY <1>1, <2>1, <2>2, <2>3, <2>4, GoesOnward
  <2>5. CASE Moves(w, rec, "unaccess")
    <3>1. Order(rec, "unkong", "unaccess")
      BY DEF Order
    <3>2. QED
      BY <1>1, <2>1, <2>2, <2>3, <2>5, <3>1 DEF Changes, Goes
  <2>6. QED
    BY <2>1, <2>4, <2>5
<1>5. CASE DeleteRequest(w) /\ ~Unheard
  <2>1. /\ Step(w) = "unrequest" /\ UNCHANGED <<env, feed, nextId, stores>>
        /\ request' = [r \in Requests |->
              IF request[r].made /\ request[r].access = Own(w) THEN Gone ELSE request[r]]
        /\ Went(w, rec, "unrequest")
    BY <1>1, <1>5, DeletesMove DEF Unthrown
  <2>2. \A t : KongChanges(w, rec, t) /\ PortalChanges(w, t)
    BY <1>0, <2>1 DEF KongChanges, PortalChanges
  <2>3. RequestsChange(w)
    BY <2>1 DEF RequestsChange, Gone, NotMade
  <2>4. WorkerChanges(w, rec)
    BY <1>1, <2>1 DEF WorkerChanges
  <2>5. QED
    BY <1>1, <2>1, <2>2, <2>3, <2>4, GoesOnward
<1>6. CASE LookUpAccess(w) /\ ~Unheard
  <2>1. Step(w) = "svc" /\ UNCHANGED <<env, feed, nextId, request, stores>>
    BY <1>6, AccessMoves
  <2>2. \A t, r : /\ KongChanges(w, r, t)
                  /\ stores.access = Own(w) \/ t # "unrequest" => PortalChanges(w, t)
    BY <1>0, <2>1 DEF KongChanges, PortalChanges
  <2>3. RequestsChange(w)
    BY <2>1 DEF RequestsChange
  <2>4. CASE stores.access = Own(w) /\ UNCHANGED history
    <3>1. PICK new \in Recs :
             /\ Notes(w, new, rec.id, IF HasConsumer(Own(w)) THEN stores.row ELSE None,
                      rec.key, rec.seen)
             /\ Moves(w, new, "unrequest")
      BY <1>1, <1>6, <2>4, AccessMoves DEF Unnoticed, Unthrown
    <3>2. Order(new, "svc", "unrequest")
      BY DEF Order
    <3>3. WorkerChanges(w, new)
      BY <1>1, <2>1, <2>4, <3>1 DEF WorkerChanges, Notes
    <3>4. QED
      BY <2>1, <2>2, <2>3, <2>4, <3>1, <3>2, <3>3 DEF Changes, Goes
  <2>5. CASE stores.access # Own(w) /\ Went(w, worker[w], "svc")
    <3>1. WorkerChanges(w, rec)
      BY <1>1, <2>1, <2>5 DEF WorkerChanges
    <3>2. \A t : Follows(worker[w], "svc", t) => t # "unrequest"
      BY DEF Follows
    <3>3. QED
      BY <1>1, <2>1, <2>2, <2>3, <2>5, <3>1, <3>2, GoesOnward
  <2>6. QED
    BY <1>6, <2>4, <2>5, AccessMoves DEF Unnoticed, Unthrown
<1>7. CASE Unissue(w) /\ ~Unheard
  <2>1. /\ Step(w) = "unissue" /\ UNCHANGED <<env, feed, nextId, stores>>
        /\ worker[w].req \in Requests /\ Went(w, rec, "unissue")
        /\ \/ request' = [request EXCEPT ![worker[w].req] =
                              [@ EXCEPT !.issued = FALSE, !.complete = FALSE]]
           \/ UNCHANGED request
    BY <1>1, <1>7, UnissueMoves DEF Unnoticed, Unthrown
  <2>2. \A t : KongChanges(w, rec, t) /\ PortalChanges(w, t)
    BY <1>0, <2>1 DEF KongChanges, PortalChanges
  <2>3. RequestsChange(w)
    <3>1. PICK q, was : q \in Requests /\ q = worker[w].req /\ was = request[q]
      BY <2>1
    <3>2. [was EXCEPT !.issued = FALSE, !.complete = FALSE].access = was.access
      BY <1>0, <3>1 DEF RequestsTyped
    <3>3. QED
      BY <1>0, <2>1, <3>1, <3>2 DEF RequestsTyped, RequestsChange
  <2>4. WorkerChanges(w, rec)
    BY <1>1, <2>1 DEF WorkerChanges
  <2>5. QED
    BY <1>1, <2>1, <2>2, <2>3, <2>4, GoesOnward
<1>8. QED
  BY <1>2, <1>3, <1>4, <1>5, <1>6, <1>7

(* What is made for the credential, or read about it.                        *)
LEMMA GoesLooking ==
    ASSUME Typed, CredentialAssumption, NEW w \in Workers,
           \/ AddKeyAuth(w) \/ LookUpDetails(w) \/ Consult(w) \/ Locate(w)
           \/ FindClient(w) \/ Enable(w)
    PROVE  Goes(w)
<1>0. StoresTyped /\ RequestsTyped
  BY TypedParts
<1>1. PICK rec \in Recs : rec = worker[w]
  BY TypedParts
<1>2. ASSUME NEW s \in Attempted, Step(w) = s, UNCHANGED <<env, feed, nextId>>, Throws(w, s)
      PROVE  Goes(w)
  BY <1>2, GoesThrowing
<1>3. CASE AddKeyAuth(w)
  <2>1. PICK s \in {"key", "newkey"} :
          /\ Step(w) = s /\ UNCHANGED <<env, feed, nextId>>
          /\ \/ /\ stores.kong = IF s = "key" THEN Own(w) ELSE worker[w].consumer
                /\ UNCHANGED <<request, history>>
                /\ \E k \in UnusedKeys, new \in Recs :
                      /\ stores' = [stores EXCEPT !.keys = @ \cup {k}]
                      /\ Notes(w, new, worker[w].id, worker[w].consumer, k, worker[w].seen)
                      /\ Went(w, new, s)
             \/ Throws(w, s)
    BY <1>3, AddKeyMoves
  <2>2. CASE Throws(w, s)
    BY <1>2, <2>1, <2>2 DEF Attempted
  <2>3. CASE ~Throws(w, s)
    <3>1. PICK k \in UnusedKeys, new \in Recs :
            /\ stores' = [stores EXCEPT !.keys = @ \cup {k}]
            /\ Notes(w, new, worker[w].id, worker[w].consumer, k, worker[w].seen)
            /\ Went(w, new, s)
      BY <2>1, <2>3
    <3>2. ASSUME NEW t, Follows(worker[w], s, t)
          PROVE  KongChanges(w, new, t) /\ PortalChanges(w, t)
      <4>1. s = "key" => t = "row"
        BY <3>2 DEF Follows
      <4>2. s = "newkey" => t = "relink"
        BY <3>2 DEF Follows
      <4>3. QED
        BY <1>0, <2>1, <2>3, <3>1, <4>1, <4>2 DEF StoresTyped, KongChanges, PortalChanges, Notes
    <3>3. RequestsChange(w) /\ WorkerChanges(w, new)
      BY <1>1, <2>1, <2>3, <3>1 DEF RequestsChange, WorkerChanges, Notes
    <3>4. QED
      BY <2>1, <3>1, <3>2, <3>3, GoesOnward DEF Notes
  <2>4. QED
    BY <2>2, <2>3
<1>4. CASE LookUpDetails(w)
  <2>1. /\ Step(w) = "details" /\ UNCHANGED <<env, feed, nextId>>
        /\ worker[w].kind # "issue"
    BY <1>4, DetailsMove
  <2>2. CASE Throws(w, "details")
    BY <1>2, <2>1, <2>2 DEF Attempted
  <2>3. CASE ~Throws(w, "details")
    <3>1. PICK new \in Recs :
            /\ Notes(w, new, stores.access, stores.row, rec.key, rec.seen)
            /\ UNCHANGED <<request, stores>>
            /\ Moves(w, new, "svc") \/ Went(w, new, "details")
      BY <1>1, <1>4, <2>3, DetailsMove
    <3>2. /\ \A t : KongChanges(w, new, t) /\ PortalChanges(w, t)
          /\ RequestsChange(w) /\ WorkerChanges(w, new)
      BY <1>1, <2>1, <3>1 DEF KongChanges, PortalChanges, RequestsChange, WorkerChanges, Notes
    <3>3. CASE Moves(w, new, "svc")
      <4>1. Order(new, "details", "svc")
        BY DEF Order, Making, Renewing, Deleting
      <4>2. QED
        BY <2>1, <3>1, <3>2, <3>3, <4>1 DEF Changes, Goes
    <3>4. CASE Went(w, new, "details")
      BY <1>1, <2>1, <3>1, <3>2, <3>4, GoesOnward DEF Notes
    <3>5. QED
      BY <3>1, <3>3, <3>4
  <2>4. QED
    BY <2>2, <2>3
<1>5. CASE Consult(w) \/ Locate(w) \/ FindClient(w)
  <2>1. PICK s \in {"consult", "locate", "find"} :
          /\ Step(w) = s /\ UNCHANGED <<env, feed, nextId>>
          /\ \/ /\ UNCHANGED <<request, stores>>
                /\ \E new \in Recs :
                      /\ new.kind = rec.kind /\ new.id = rec.id /\ new.key = rec.key
                      /\ new.consumer = (CASE s = "consult" -> stores.row
                                           [] s = "locate" -> stores.kong
                                           [] s = "find" -> stores.client)
                      /\ Went(w, new, s)
             \/ Throws(w, s)
    <3>1. CASE Consult(w)
      BY <1>1, <3>1, ConsultMoves DEF Notes
    <3>2. CASE Locate(w)
      BY <1>1, <3>2, LocateMoves DEF Notes
    <3>3. CASE FindClient(w)
      BY <1>1, <3>3, FindMoves DEF Notes
    <3>4. QED
      BY <1>5, <3>1, <3>2, <3>3
  <2>2. CASE Throws(w, s)
    BY <1>2, <2>1, <2>2 DEF Attempted
  <2>3. CASE ~Throws(w, s)
    <3>1. PICK new \in Recs :
            /\ new.kind = rec.kind /\ new.id = rec.id /\ new.key = rec.key
            /\ new.consumer = (CASE s = "consult" -> stores.row
                                 [] s = "locate" -> stores.kong
                                 [] s = "find" -> stores.client)
            /\ Went(w, new, s)
      BY <2>1, <2>3
    <3>2. /\ \A t : KongChanges(w, new, t) /\ PortalChanges(w, t)
          /\ RequestsChange(w) /\ WorkerChanges(w, new)
      BY <1>1, <2>1, <2>3, <3>1
         DEF KongChanges, PortalChanges, RequestsChange, WorkerChanges
    <3>3. QED
      BY <1>1, <2>1, <3>1, <3>2, GoesOnward
  <2>4. QED
    BY <2>2, <2>3
<1>6. CASE Enable(w)
  <2>1. Step(w) = "enable" /\ UNCHANGED <<env, feed, nextId, request>>
    BY <1>6, EnableMoves
  <2>2. CASE Throws(w, "enable")
    BY <1>2, <2>1, <2>2 DEF Attempted
  <2>3. CASE ~Throws(w, "enable")
    <3>1. /\ Went(w, rec, "enable")
          /\ stores' \in {[stores EXCEPT !.enabled = TRUE], [stores EXCEPT !.acl = TRUE]}
      BY <1>1, <1>6, <2>3, EnableMoves
    <3>2. /\ \A t : KongChanges(w, rec, t) /\ PortalChanges(w, t)
          /\ RequestsChange(w) /\ WorkerChanges(w, rec)
      BY <1>0, <1>1, <2>1, <3>1
         DEF StoresTyped, KongChanges, PortalChanges, RequestsChange, WorkerChanges
    <3>3. QED
      BY <1>1, <2>1, <3>1, <3>2, GoesOnward
  <2>4. QED
    BY <2>2, <2>3
<1>7. QED
  BY <1>3, <1>4, <1>5, <1>6

(* The updates of a request.                                                 *)
LEMMA GoesUpdating ==
    ASSUME Typed, CredentialAssumption, NEW w \in Workers,
           LinkServiceAccess(w) \/ Write(w) \/ Complete(w)
    PROVE  Goes(w)
<1>0. StoresTyped /\ RequestsTyped
  BY TypedParts
<1>1. PICK rec \in Recs : rec = worker[w]
  BY TypedParts
<1>2. ASSUME NEW s \in Attempted, Step(w) = s, UNCHANGED <<env, feed, nextId>>, Throws(w, s)
      PROVE  Goes(w)
  BY <1>2, GoesThrowing
<1>3. CASE LinkServiceAccess(w)
  <2>1. /\ Step(w) = "link" /\ UNCHANGED <<env, feed, nextId>> /\ worker[w].req \in Requests
        /\ \/ /\ stores.access = Own(w) /\ Went(w, rec, "link") /\ UNCHANGED stores
              /\ request' = [request EXCEPT ![worker[w].req].access = Own(w)]
           \/ Throws(w, "link")
    BY <1>1, <1>3, LinkMoves
  <2>2. CASE Throws(w, "link")
    BY <1>2, <2>1, <2>2 DEF Attempted
  <2>3. CASE ~Throws(w, "link")
    <3>1. (\A t : KongChanges(w, rec, t) /\ PortalChanges(w, t)) /\ WorkerChanges(w, rec)
      BY <1>1, <2>1, <2>3 DEF KongChanges, PortalChanges, WorkerChanges
    <3>2. RequestsChange(w)
      BY <1>0, <2>1, <2>3 DEF RequestsTyped, RequestsChange
    <3>3. QED
      BY <1>1, <2>1, <2>3, <3>1, <3>2, GoesOnward
  <2>4. QED
    BY <2>2, <2>3
<1>4. CASE Write(w)
  <2>1. /\ Step(w) = "write" /\ UNCHANGED <<env, feed, nextId>> /\ worker[w].req \in Requests
        /\ \/ /\ Went(w, rec, "write") /\ UNCHANGED stores
              /\ request' = [request EXCEPT ![worker[w].req] =
                     IF worker[w].kind = "reject"
                     THEN [@ EXCEPT !.approved = FALSE, !.complete = TRUE]
                     ELSE [@ EXCEPT !.approved = TRUE, !.issued = TRUE, !.complete = TRUE]]
           \/ Throws(w, "write")
    BY <1>1, <1>4, WriteMoves
  <2>2. CASE Throws(w, "write")
    BY <1>2, <2>1, <2>2 DEF Attempted
  <2>3. CASE ~Throws(w, "write")
    <3>1. (\A t : KongChanges(w, rec, t) /\ PortalChanges(w, t)) /\ WorkerChanges(w, rec)
      BY <1>1, <2>1, <2>3 DEF KongChanges, PortalChanges, WorkerChanges
    <3>2. RequestsChange(w)
      <4>1. PICK q, was : q \in Requests /\ q = worker[w].req /\ was = request[q]
        BY <2>1
      <4>2. /\ [was EXCEPT !.approved = FALSE, !.complete = TRUE].access = was.access
            /\ [was EXCEPT !.approved = TRUE, !.issued = TRUE,
                           !.complete = TRUE].access = was.access
        BY <1>0, <4>1 DEF RequestsTyped
      <4>3. QED
        BY <1>0, <2>1, <2>3, <4>1, <4>2 DEF RequestsTyped, RequestsChange
    <3>3. QED
      BY <1>1, <2>1, <2>3, <3>1, <3>2, GoesOnward
  <2>4. QED
    BY <2>2, <2>3
<1>5. CASE Complete(w)
  <2>1. /\ Step(w) = "complete" /\ UNCHANGED <<env, feed, nextId>> /\ worker[w].req \in Requests
        /\ worker[w].kind = "collect"
    BY <1>5, CompleteMoves
  <2>2. CASE Throws(w, "complete")
    BY <1>2, <2>1, <2>2 DEF Attempted
  <2>3. CASE ~Throws(w, "complete")
    <3>1. PICK new \in Recs, t \in {"details", "rest"} :
            /\ new.kind = "nested" /\ new.id = rec.id /\ new.consumer = rec.consumer
            /\ new.key = rec.key /\ Moves(w, new, t) /\ UNCHANGED stores
            /\ request' = [request EXCEPT ![worker[w].req] =
                   [@ EXCEPT !.approved = TRUE, !.issued = TRUE, !.complete = TRUE]]
      BY <1>1, <1>5, <2>3, CompleteMoves
    <3>2. KongChanges(w, new, t) /\ PortalChanges(w, t) /\ WorkerChanges(w, new)
      BY <1>1, <2>1, <3>1 DEF KongChanges, PortalChanges, WorkerChanges
    <3>3. RequestsChange(w)
      <4>1. PICK q, was : q \in Requests /\ q = worker[w].req /\ was = request[q]
        BY <2>1
      <4>2. [was EXCEPT !.approved = TRUE, !.issued = TRUE, !.complete = TRUE].access = was.access
        BY <1>0, <4>1 DEF RequestsTyped
      <4>3. QED
        BY <1>0, <3>1, <4>1, <4>2 DEF RequestsTyped, RequestsChange
    <3>4. Order(new, "complete", t)
      BY <3>1 DEF Order
    <3>5. QED
      BY <2>1, <3>1, <3>2, <3>3, <3>4 DEF Changes, Goes
  <2>4. QED
    BY <2>2, <2>3
<1>6. QED
  BY <1>3, <1>4, <1>5

(* Every step of a worker.                                                   *)
LEMMA WorkGoes ==
    ASSUME Typed, CredentialAssumption, NEW w \in Workers, Work(w) \/ Stop(w)
    PROVE  Goes(w)
<1>1. CASE Stop(w)
  BY <1>1, StopMoves, SilentMoves
<1>2. CASE Work(w)
  BY <1>2, GoesMaking, GoesTrying, GoesDeleting, GoesLooking, GoesUpdating DEF Work
<1>3. QED
  BY <1>1, <1>2

-----------------------------------------------------------------------------
(***************************************************************************)
(* Those who make or renew a credential, when nobody else does.              *)
(***************************************************************************)

MakersAlone == Overlaps \cap {"collect", "issue", "renew"} = {}

Makers == {"collect", "nested", "issue", "renew"}

OneMaker ==
    \A v, w \in Workers : worker[v].kind \in Makers /\ worker[w].kind \in Makers => v = w

(* Whose step it is tells what kind of worker it is.                         *)
LEMMA KindAtStep ==
    ASSUME Typed, NEW w \in Workers
    PROVE  /\ worker[w] \in Recs
           /\ Step(w) \in Making => worker[w].kind \in {"collect", "issue"} /\ worker[w].id \in Ids
           /\ Step(w) \in {"link", "consult", "complete"} => worker[w].kind \in {"collect", "issue"}
           /\ Step(w) \in Renewing => worker[w].kind = "renew" /\ worker[w].id \in Ids
           /\ Step(w) \in Deleting => /\ worker[w].kind \in {"issue", "reject", "revoke"}
                                      /\ worker[w].id \in Ids
           /\ Step(w) \in {"key", "locate", "unkey", "newkey"} => ~OAuth
           /\ Step(w) = "rest" => worker[w] = Idle
<1>1. worker[w] \in Recs /\ Carries(worker[w], Step(w)) /\ (Step(w) = "rest" => worker[w] = Idle)
  <2>1. /\ worker[w] \in Recs /\ Carries(worker[w], Step(w))
        /\ worker[w].todo = <<>> => worker[w] = Idle
    BY TypedParts DEF Programmed
  <2>2. PICK todo : todo = worker[w].todo
    OBVIOUS
  <2>3. todo \in Seq(Steps)
    BY <2>1, <2>2 DEF Recs
  <2>4. todo # <<>> => Head(todo) \in Steps
    BY <2>3, HeadTailProperties
  <2>5. "rest" \notin Steps
    BY DEF Steps, Deleting
  <2>6. QED
    BY <2>1, <2>2, <2>4, <2>5 DEF Step, First
<1>2. CASE Step(w) = "rest"
  BY <1>1, <1>2 DEF Making, Renewing, Deleting
<1>3. CASE Step(w) # "rest"
  <2>1. PICK t : Follows(worker[w], Step(w), t)
    BY <1>3, StepFollows
  <2>2. /\ Step(w) \in Making => worker[w].kind \in {"collect", "issue"}
        /\ Step(w) \in {"link", "consult", "complete"} => worker[w].kind \in {"collect", "issue"}
    BY <2>1 DEF Follows, Making
  <2>3. /\ Step(w) \in Renewing => worker[w].kind = "renew"
        /\ Step(w) \in Deleting => worker[w].kind \in {"issue", "reject", "revoke"}
        /\ Step(w) \in {"key", "locate", "unkey", "newkey"} => ~OAuth
    BY <2>1 DEF Follows, Renewing, Deleting
  <2>4. QED
    BY <1>1, <1>3, <2>2, <2>3 DEF Carries
<1>4. QED
  BY <1>2, <1>3

(* Where everybody is after a move of one worker.                            *)
LEMMA AfterMove ==
    ASSUME Typed, NEW w \in Workers, NEW rec \in Recs, NEW t, Moves(w, rec, t)
    PROVE  /\ \A v \in Workers \ {w} : worker'[v] = worker[v] /\ Step(v)' = Step(v)
           /\ Step(w)' = t
           /\ t = "rest" => /\ worker'[w].kind = "idle" /\ worker'[w].id = None
                            /\ worker'[w].consumer = None /\ worker'[w].key = None
           /\ t # "rest" => /\ worker'[w].kind = rec.kind /\ worker'[w].id = rec.id
                            /\ worker'[w].consumer = rec.consumer /\ worker'[w].key = rec.key
BY TypedParts, MovesTo DEF Idle

(* What is remembered when something is started.                             *)
StartNoted(kind, id) ==
    /\ history'.dirty = history.dirty /\ history'.astray = history.astray
    /\ history'.overlapped = (history.overlapped \/ ~Resting)
    /\ history'.issued = IF kind = "issue" THEN history.issued \cup {id} ELSE history.issued

(* What a worker starts with.                                                *)
Starting(w, kind, id, key, s) ==
    /\ Step(w) = "rest" /\ feed = None /\ StartNoted(kind, id)
    /\ Resting \/ kind \in Overlaps
    /\ \E rec \in Recs : /\ rec.kind = kind /\ rec.id = id /\ rec.key = key
                         /\ rec.consumer = None /\ Moves(w, rec, s)
    /\ UNCHANGED <<env, request, stores, feed>>
    /\ \/ /\ kind \in {"collect", "issue"} /\ id = nextId /\ nextId' = nextId + 1
          /\ key = None /\ s = FirstOfMaking /\ (kind = "issue" => stores.row = None)
       \/ /\ kind = "renew" /\ id = stores.access /\ id # None /\ key = stores.key
          /\ s = FirstOfRenewal /\ UNCHANGED nextId
       \/ kind = "revoke" /\ id = stores.access /\ id # None /\ s = "svc" /\ UNCHANGED nextId
       \/ kind \in {"approve", "reject"} /\ id = None /\ s = "write" /\ UNCHANGED nextId

(* All that users and gateways start begins like that.                     *)
LEMMA StartsSo ==
    ASSUME Typed, NEW w \in Workers,
           \/ \E r \in Requests : Collect(w, r) \/ Approve(w, r) \/ Reject(w, r)
           \/ Issue(w) \/ Renew(w) \/ Revoke(w)
    PROVE  \E kind, id, key, s : Starting(w, kind, id, key, s)
<1>0. PICK h \in [justified : SUBSET (Ids \cup {None}), issued : SUBSET Ids,
                  astray : BOOLEAN, overlapped : BOOLEAN, dirty : BOOLEAN] : h = history
  BY TypedParts DEF Remembered
<1> DEFINE Begun(activity, id) == /\ StartNoted(activity, id) /\ Step(w) = "rest" /\ feed = None
                                  /\ Resting \/ activity \in Overlaps
<1>1. ASSUME NEW activity, NEW rec, Start(w, activity, rec) PROVE Begun(activity, rec.id)
  <2>1. worker[w] = Idle /\ feed = None /\ (Resting \/ activity \in Overlaps)
    BY <1>1 DEF Start
  <2>2. /\ activity # "issue" => history' = [h EXCEPT !.overlapped = @ \/ ~Resting]
        /\ activity = "issue" => history' = [[h EXCEPT !.overlapped = @ \/ ~Resting]
                EXCEPT !.issued = @ \cup {rec.id}, !.justified = @ \cup {rec.id}]
    BY <1>0, <1>1 DEF Start, Overlapping
  <2>3. Step(w) = "rest"
    BY <2>1 DEF Step, First, Idle
  <2>4. QED
    BY <1>0, <2>1, <2>2, <2>3 DEF StartNoted
<1>3. ASSUME NEW r \in Requests, Collect(w, r)
      PROVE  \E key, s : Starting(w, "collect", nextId, key, s)
  <2>1. PICK rec : Start(w, "collect", rec)
    BY <1>3 DEF Collect
  <2>2. Begun("collect", nextId)
    BY <1>1, <2>1 DEF StartNoted
  <2>3. UNCHANGED <<env, request, stores, feed>> /\ nextId' = nextId + 1
    BY <1>3 DEF Collect
  <2>4. QED
    BY <1>3, <2>2, <2>3, CollectStarts DEF Enters, Fresh, Starting
<1>4. ASSUME Issue(w)
      PROVE  \E key, s : Starting(w, "issue", nextId, key, s)
  <2>1. PICK rec : Start(w, "issue", rec)
    BY <1>4 DEF Issue
  <2>2. rec.id = nextId
    <3>1. worker'[w] = rec
      BY <2>1, TypedParts DEF Start
    <3>2. FirstOfMaking # "rest"
      BY DEF FirstOfMaking
    <3>3. worker'[w].id = nextId
      BY <1>4, <3>2, IssueStarts, AfterMove DEF Enters, Fresh
    <3>4. QED
      BY <3>1, <3>3
  <2>5. Begun("issue", nextId)
    BY <1>1, <2>1, <2>2
  <2>3. UNCHANGED <<env, request, stores, feed>> /\ nextId' = nextId + 1 /\ stores.row = None
    BY <1>4 DEF Issue
  <2>4. QED
    BY <1>4, <2>5, <2>3, IssueStarts DEF Enters, Fresh, Starting
<1>5. ASSUME Renew(w)
      PROVE  \E key, s : Starting(w, "renew", stores.access, key, s)
  <2>1. PICK rec : Start(w, "renew", rec)
    BY <1>5 DEF Renew
  <2>2. Begun("renew", stores.access)
    BY <1>1, <2>1 DEF StartNoted
  <2>3. UNCHANGED <<env, request, stores, feed, nextId>> /\ stores.access # None
    BY <1>5 DEF Renew
  <2>4. QED
    BY <1>5, <2>2, <2>3, RenewStarts DEF Enters, Fresh, Starting
<1>6. ASSUME Revoke(w)
      PROVE  \E key, s : Starting(w, "revoke", stores.access, key, s)
  <2>1. PICK rec : Start(w, "revoke", rec)
    BY <1>6 DEF Revoke
  <2>2. Begun("revoke", stores.access)
    BY <1>1, <2>1 DEF StartNoted
  <2>3. UNCHANGED <<env, request, stores, feed, nextId>> /\ stores.access # None
    BY <1>6 DEF Revoke
  <2>4. QED
    BY <1>6, <2>2, <2>3, RevokeStarts DEF Enters, Fresh, Starting
<1>7. ASSUME NEW r \in Requests, NEW kind \in {"approve", "reject"},
             IF kind = "approve" THEN Approve(w, r) ELSE Reject(w, r)
      PROVE  \E key, s : Starting(w, kind, None, key, s)
  <2>1. PICK rec : Start(w, kind, rec)
    BY <1>7 DEF Approve, Reject
  <2>2. Begun(kind, None)
    BY <1>1, <2>1 DEF StartNoted
  <2>3. UNCHANGED <<env, request, stores, feed, nextId>>
    BY <1>7 DEF Approve, Reject
  <2>4. Enters(w, kind, r, None, None, "write")
    BY <1>7, UpdateStarts
  <2>5. QED
    BY <2>2, <2>3, <2>4 DEF Enters, Fresh, Starting
<1>8. ASSUME NEW r \in Requests, Approve(w, r) \/ Reject(w, r)
      PROVE  \E kind, key, s : Starting(w, kind, None, key, s)
  <2>1. CASE Approve(w, r)
    BY <1>7, <2>1
  <2>2. CASE Reject(w, r)
    BY <1>7, <2>2
  <2>3. QED
    BY <1>8, <2>1, <2>2
<1>9. QED
  BY <1>3, <1>4, <1>5, <1>6, <1>8

(* A worker at work keeps being the only one that makes or renews.         *)
LEMMA OneMakerKept ==
    ASSUME Typed, OneMaker, NEW w \in Workers, NEW rec \in Recs, NEW t, Moves(w, rec, t),
           rec.kind \in Makers => \/ worker[w].kind \in Makers
                                  \/ \A v \in Workers \ {w} : worker[v].kind \notin Makers
    PROVE  OneMaker'
<1>1. worker'[w].kind \in Makers => rec.kind \in Makers
  BY AfterMove DEF Makers
<1>2. QED
  BY <1>1, AfterMove DEF OneMaker

(* No step makes a second maker of a worker that was none.                 *)
LEMMA OneMakerGoes ==
    ASSUME Typed, OneMaker, NEW w \in Workers, NEW rec, NEW t, Changes(w, rec, t)
    PROVE  OneMaker'
<1>1. rec \in Recs /\ Moves(w, rec, t)
  BY DEF Changes
<1>2. rec.kind \in Makers => worker[w].kind \in Makers
  BY DEF Changes, WorkerChanges, Makers
<1>3. QED
  BY <1>1, <1>2, OneMakerKept

(* What starts when everybody rests is the only one.                       *)
LEMMA OneMakerStarts ==
    ASSUME Typed, OneMaker, NEW w \in Workers, NEW kind, NEW id, NEW key, NEW s,
           Starting(w, kind, id, key, s), kind \in {"collect", "issue", "renew"} => Resting
    PROVE  OneMaker'
<1>1. PICK rec \in Recs : rec.kind = kind /\ Moves(w, rec, s)
  BY DEF Starting
<1>2. kind \in Makers => \A v \in Workers : worker[v].kind \notin Makers
  BY DEF Starting, Makers, Resting, Idle
<1>3. QED
  BY <1>1, <1>2, OneMakerKept

-----------------------------------------------------------------------------
(***************************************************************************)
(* Whose things are whose.  The number of an attempt is not used by another,   *)
(* and what a worker makes is nobody else's until the ServiceAccess is there. *)
(***************************************************************************)

Numbered ==
    /\ \A r \in Requests : request[r].access < nextId
    /\ stores.kong < nextId /\ stores.row < nextId /\ stores.own < nextId
    /\ stores.access < nextId /\ feed < nextId
    /\ \A w \in Workers : /\ worker[w].id < nextId
                          /\ Step(w) \in Deleting \ {"svc"} => worker[w].consumer < nextId

Apart ==
    \A w \in Workers : Step(w) \in Making =>
        /\ stores.access # worker[w].id
        /\ \A v \in Workers \ {w} : worker[v].id # worker[w].id
        /\ \A r \in Requests : request[r].access # worker[w].id

Unused ==
    \A w \in Workers :
        /\ Step(w) \in {"client", "consumer"} =>
              /\ worker[w].id \notin {stores.kong, stores.row, stores.own, feed}
              /\ \A v \in Workers :
                    Step(v) \in Deleting \ {"svc"} => worker[v].consumer # worker[w].id
        /\ Step(w) \in {"key", "row", "cleanRow"} => stores.own # worker[w].id

Distinct == Numbered /\ Apart /\ Unused

(* The stores only come to name the worker's own attempt.                    *)
LEMMA NamesOwn ==
    ASSUME Typed, NEW w \in Workers, NEW rec, NEW t, Changes(w, rec, t)
    PROVE  /\ \/ stores'.kong \in {stores.kong, None}
              \/ Step(w) = "consumer" /\ stores'.kong = Own(w)
           /\ \/ stores'.row \in {stores.row, stores.kong, None}
              \/ Step(w) = "row" /\ stores'.row = Own(w)
           /\ stores'.own \in {stores.own, None} \/ (Step(w) = "row" /\ stores'.own = Own(w))
           /\ \/ stores'.access \in {stores.access, None}
              \/ Step(w) = "access" /\ t \notin Making /\ stores'.access = Own(w)
           /\ \A r \in Requests : \/ request'[r].access \in {request[r].access, None}
                                  \/ request'[r].access = Own(w) /\ stores.access = Own(w)
           /\ worker'[w].id \in {worker[w].id, stores.access, None}
           /\ t \in Making => Step(w) \in Making /\ worker'[w].id = worker[w].id
           /\ t \in Deleting \ {"svc"} =>
                 worker'[w].consumer \in {worker[w].consumer, stores.row, None}
           /\ t \in Deleting \ {"svc"} /\ Step(w) \notin Deleting \ {"svc"} =>
                  worker'[w].consumer \in {stores.row, None}
<1>1. KongChanges(w, rec, t) /\ PortalChanges(w, t) /\ RequestsChange(w) /\ WorkerChanges(w, rec)
  BY DEF Changes
<1>2. Order(rec, Step(w), t) /\ rec \in Recs /\ Moves(w, rec, t)
  BY DEF Changes
<1>3. stores'.kong \in {stores.kong, None} \/ (Step(w) = "consumer" /\ stores'.kong = Own(w))
  BY <1>1 DEF KongChanges
<1>4. /\ \/ stores'.row \in {stores.row, stores.kong, None}
         \/ Step(w) = "row" /\ stores'.row = Own(w)
      /\ stores'.own \in {stores.own, None} \/ (Step(w) = "row" /\ stores'.own = Own(w))
  BY <1>1 DEF PortalChanges
<1>5. \/ stores'.access \in {stores.access, None}
      \/ Step(w) = "access" /\ t \notin Making /\ stores'.access = Own(w)
  BY <1>1 DEF PortalChanges, Making
<1>6. worker'[w].id \in {worker[w].id, stores.access, None}
  BY <1>1, <1>2, AfterMove DEF WorkerChanges
<1>7. t \in Making => Step(w) \in Making /\ worker'[w].id = worker[w].id
  <2>1. t \in Making => Step(w) \in Making /\ t # "rest"
    BY <1>2 DEF Order, Making
  <2>2. Step(w) \in Making => rec.id = worker[w].id
    BY <1>1 DEF WorkerChanges, Making
  <2>3. QED
    BY <1>2, <2>1, <2>2, AfterMove
<1>8. t \in Deleting \ {"svc"} =>
        /\ Step(w) \in Deleting
        /\ Step(w) = "svc" => stores.access = Own(w)
  BY <1>1, <1>2 DEF Order, Deleting, PortalChanges
<1>9. t \in Deleting \ {"svc"} =>
         /\ Step(w) \in Deleting \ {"svc"} => worker'[w].consumer = worker[w].consumer
         /\ Step(w) = "svc" => worker'[w].consumer \in {stores.row, None}
  <2>1. t \in Deleting \ {"svc"} => worker'[w].consumer = rec.consumer
    BY <1>2, AfterMove DEF Deleting
  <2>2. QED
    BY <1>1, <1>8, <2>1 DEF WorkerChanges, Deleting
<1>10. \A r \in Requests : \/ request'[r].access \in {request[r].access, None}
                           \/ request'[r].access = Own(w) /\ stores.access = Own(w)
  BY <1>1 DEF RequestsChange
<1>11. QED
  BY <1>3, <1>4, <1>5, <1>6, <1>7, <1>8, <1>9, <1>10

(* A step names no attempt that was not counted.                           *)
LEMMA NumberedGoes ==
    ASSUME Typed, CredentialAssumption, Numbered, NEW w \in Workers,
           NEW rec, NEW t, Changes(w, rec, t)
    PROVE  Numbered'
<1>1. None < nextId /\ UNCHANGED <<feed, nextId>> /\ Own(w) < nextId
  BY TypedParts DEF Changes, None, Own, CredentialAssumption, Numbered
<1>2. rec \in Recs /\ Moves(w, rec, t)
  BY DEF Changes
<1>3. \A r \in Requests : request'[r].access < nextId
  BY <1>1, NamesOwn DEF Numbered
<1>4. /\ stores'.kong < nextId /\ stores'.row < nextId /\ stores'.own < nextId
      /\ stores'.access < nextId
  BY <1>1, NamesOwn DEF Numbered
<1>5. ASSUME NEW v \in Workers
      PROVE  /\ worker'[v].id < nextId
             /\ Step(v)' \in Deleting \ {"svc"} => worker'[v].consumer < nextId
  <2>1. CASE v = w
    BY <1>1, <1>2, <2>1, NamesOwn, AfterMove DEF Numbered
  <2>2. CASE v # w
    BY <1>2, <2>2, AfterMove DEF Numbered
  <2>3. QED
    BY <2>1, <2>2
<1>6. QED
  BY <1>1, <1>3, <1>4, <1>5 DEF Numbered

(* A step leaves a credential in the making to its maker.                  *)
LEMMA ApartGoes ==
    ASSUME Typed, CredentialAssumption, Apart, NEW w \in Workers, NEW rec, NEW t, Changes(w, rec, t)
    PROVE  Apart'
<1>1. rec \in Recs /\ Moves(w, rec, t)
  BY DEF Changes
<1>2. Step(w)' = t /\ \A v \in Workers \ {w} : worker'[v] = worker[v] /\ Step(v)' = Step(v)
  BY <1>1, AfterMove
<1> SUFFICES ASSUME NEW u \in Workers, Step(u)' \in Making
             PROVE  /\ stores'.access # worker'[u].id
                    /\ \A v \in Workers \ {u} : worker'[v].id # worker'[u].id
                    /\ \A r \in Requests : request'[r].access # worker'[u].id
  BY DEF Apart
<1>3. CASE u = w
  <2>1. Step(w) \in Making /\ worker'[w].id = worker[w].id /\ t \in Making
    BY <1>2, <1>3, NamesOwn
  <2>2. worker[w].id # None
    BY <2>1, KindAtStep DEF Ids, None
  <2>3. stores.access # Own(w)
    BY <2>1 DEF Apart, Own
  <2>4. QED
    BY <1>2, <1>3, <2>1, <2>2, <2>3, NamesOwn DEF Apart
<1>4. CASE u # w
  <2>1. Step(u) \in Making /\ worker'[u] = worker[u]
    BY <1>2, <1>4
  <2>2. worker[u].id # None
    BY <2>1, KindAtStep DEF Ids, None
  <2>3. Own(w) # worker[u].id
    BY <1>4, <2>1 DEF Apart, Own
  <2>4. \A v \in Workers \ {u} : worker'[v].id # worker'[u].id
    BY <1>2, <2>1, <2>2, NamesOwn DEF Apart
  <2>5. QED
    BY <2>1, <2>2, <2>3, <2>4, NamesOwn DEF Apart
<1>5. QED
  BY <1>3, <1>4

(* Nobody else refers to an attempt that has not made its consumer yet.    *)
LEMMA UnusedGoes ==
    ASSUME Typed, CredentialAssumption, Apart, Unused, NEW w \in Workers,
           NEW rec, NEW t, Changes(w, rec, t)
    PROVE  Unused'
<1>1. rec \in Recs /\ Moves(w, rec, t) /\ Order(rec, Step(w), t) /\ UNCHANGED feed
      /\ KongChanges(w, rec, t) /\ PortalChanges(w, t)
  BY DEF Changes
<1>2. Step(w)' = t /\ \A v \in Workers \ {w} : worker'[v] = worker[v] /\ Step(v)' = Step(v)
  BY <1>1, AfterMove
<1> DEFINE Before(u) == /\ worker[u].id \notin {stores.kong, stores.row, stores.own, feed}
                        /\ \A v \in Workers : Step(v) \in Deleting \ {"svc"} =>
                                                worker[v].consumer # worker[u].id
<1>3. ASSUME NEW u \in Workers, Step(u)' \in {"client", "consumer"} PROVE Before(u)'
  <2>1. Step(u) \in {"client", "consumer"} /\ worker'[u].id = worker[u].id
    <3>1. CASE u = w
      BY <1>1, <1>2, <1>3, <3>1, NamesOwn DEF Order, Making
    <3>2. CASE u # w
      BY <1>2, <1>3, <3>2
    <3>3. QED
      BY <3>1, <3>2
  <2>2. worker[u].id # None /\ Step(u) \in Making
    BY <2>1, KindAtStep DEF Ids, None, Making
  <2>3. /\ worker[u].id \notin {stores.kong, stores.row, stores.own, feed}
        /\ \A v \in Workers : Step(v) \in Deleting \ {"svc"} => worker[v].consumer # worker[u].id
    BY <2>1 DEF Unused
  <2>4. worker[u].id \notin {stores'.kong, stores'.row, stores'.own}
    <3>1. CASE u = w
      <4>1. Step(w) = "client"
        BY <1>1, <1>2, <1>3, <3>1 DEF Order
      <4>2. QED
        BY <2>2, <2>3, <3>1, <4>1, NamesOwn
    <3>2. CASE u # w
      <4>1. Own(w) # worker[u].id
        BY <2>2, <3>2 DEF Apart, Own
      <4>2. QED
        BY <2>2, <2>3, <4>1, NamesOwn
    <3>3. QED
      BY <3>1, <3>2
  <2>5. ASSUME NEW v \in Workers, Step(v)' \in Deleting \ {"svc"}
        PROVE  worker'[v].consumer # worker[u].id
    <3>1. CASE v = w
      BY <1>2, <2>2, <2>3, <2>5, <3>1, NamesOwn
    <3>2. CASE v # w
      BY <1>2, <2>3, <2>5, <3>2
    <3>3. QED
      BY <3>1, <3>2
  <2>6. QED
    BY <1>1, <2>1, <2>3, <2>4, <2>5
<1>4. ASSUME NEW u \in Workers, Step(u)' \in {"key", "row", "cleanRow"}
      PROVE  stores'.own # worker'[u].id
  <2>1. CASE u = w
    <3>1. Step(w) \in {"consumer", "key", "row"} /\ t # "sync" /\ worker'[w].id = worker[w].id
      BY <1>1, <1>2, <1>4, <2>1, NamesOwn DEF Order, Making
    <3>2. stores.own # worker[w].id
      BY <3>1 DEF Unused
    <3>3. stores'.own = stores.own
      BY <1>1, <3>1 DEF PortalChanges
    <3>4. QED
      BY <2>1, <3>1, <3>2, <3>3
  <2>2. CASE u # w
    <3>1. Step(u) \in {"key", "row", "cleanRow"} /\ worker'[u] = worker[u] /\ Step(u) \in Making
      BY <1>2, <1>4, <2>2 DEF Making
    <3>2. Own(w) # worker[u].id /\ worker[u].id # None /\ stores.own # worker[u].id
      BY <2>2, <3>1, KindAtStep DEF Apart, Own, Ids, None, Unused
    <3>3. QED
      BY <3>1, <3>2, NamesOwn
  <2>3. QED
    BY <2>1, <2>2
<1>5. QED
  BY <1>3, <1>4 DEF Unused

(* The numbers stay apart when a worker starts.                              *)
LEMMA DistinctStarts ==
    ASSUME Typed, CredentialAssumption, Distinct, NEW w \in Workers,
           NEW kind, NEW id, NEW key, NEW s, Starting(w, kind, id, key, s)
    PROVE  Distinct'
<1>1. PICK rec \in Recs : /\ rec.kind = kind /\ rec.id = id /\ rec.key = key
                          /\ rec.consumer = None /\ Moves(w, rec, s)
  BY DEF Starting
<1>2. s \in {"client", "consumer", "find", "locate", "svc", "write"} /\ s # "rest"
  BY DEF Starting, FirstOfMaking, FirstOfRenewal
<1>3. /\ \A v \in Workers \ {w} : worker'[v] = worker[v] /\ Step(v)' = Step(v)
      /\ Step(w)' = s /\ worker'[w].id = id
  BY <1>1, <1>2, AfterMove
<1>4. UNCHANGED <<request, stores, feed>>
  BY DEF Starting
<1>5. \/ s \in {"client", "consumer"} /\ id = nextId /\ nextId' = nextId + 1
      \/ s \notin Making /\ nextId' = nextId /\ id \in {stores.access, None}
  BY DEF Starting, FirstOfMaking, FirstOfRenewal, Making
<1>6. nextId \in Nat /\ nextId # None /\ None < nextId
      /\ \A n \in Ids \cup {None} : n \in Nat
  BY TypedParts DEF CredentialAssumption, None, Ids
<1>7. /\ stores.kong \in Nat /\ stores.row \in Nat /\ stores.own \in Nat
      /\ stores.access \in Nat /\ feed \in Nat
      /\ \A r \in Requests : request[r].access \in Nat
      /\ \A v \in Workers : worker[v].id \in Nat /\ worker[v].consumer \in Nat
  BY <1>6, TypedParts DEF StoresTyped, RequestsTyped, Recs
<1>8. Numbered'
  <2>1. \A n \in Nat : n < nextId => n < nextId'
    BY <1>5, <1>6
  <2>2. id < nextId'
    BY <1>5, <1>6 DEF Distinct, Numbered
  <2>3. /\ \A r \in Requests : request[r].access < nextId'
        /\ stores.kong < nextId' /\ stores.row < nextId' /\ stores.own < nextId'
        /\ stores.access < nextId' /\ feed < nextId'
    BY <1>7, <2>1 DEF Distinct, Numbered
  <2>4. ASSUME NEW v \in Workers
        PROVE  /\ worker'[v].id < nextId'
               /\ Step(v)' \in Deleting \ {"svc"} => worker'[v].consumer < nextId'
    <3>1. CASE v = w
      BY <1>2, <1>3, <2>2, <3>1 DEF Deleting
    <3>2. CASE v # w
      BY <1>3, <1>7, <2>1, <3>2 DEF Distinct, Numbered
    <3>3. QED
      BY <3>1, <3>2
  <2>5. QED
    BY <1>4, <2>3, <2>4 DEF Numbered
<1>9. ASSUME NEW v \in Workers, s \in {"client", "consumer"}
      PROVE  worker[v].id # id /\ (Step(v) \in Deleting \ {"svc"} => worker[v].consumer # id)
  BY <1>5, <1>6, <1>7, <1>9 DEF Making, Distinct, Numbered
<1>10. s \in {"client", "consumer"} =>
          /\ id \notin {stores.kong, stores.row, stores.own, stores.access, feed}
          /\ \A r \in Requests : request[r].access # id
  BY <1>5, <1>6, <1>7 DEF Making, Distinct, Numbered
<1>11. Apart'
  <2> SUFFICES ASSUME NEW u \in Workers, Step(u)' \in Making
               PROVE  /\ stores.access # worker'[u].id
                      /\ \A v \in Workers \ {u} : worker'[v].id # worker'[u].id
                      /\ \A r \in Requests : request[r].access # worker'[u].id
    BY <1>4 DEF Apart
  <2>1. CASE u = w
    <3>1. s \in {"client", "consumer"}
      BY <1>2, <1>3, <2>1 DEF Making
    <3>2. QED
      BY <1>3, <1>9, <1>10, <2>1, <3>1
  <2>2. CASE u # w
    <3>1. Step(u) \in Making /\ worker'[u] = worker[u]
      BY <1>3, <2>2
    <3>2. /\ stores.access # worker[u].id
          /\ \A v \in Workers \ {u} : worker[v].id # worker[u].id
          /\ \A r \in Requests : request[r].access # worker[u].id
      BY <3>1 DEF Distinct, Apart
    <3>3. worker[u].id # None
      BY <3>1, KindAtStep DEF Ids, None
    <3>4. id # worker[u].id
      BY <1>5, <1>9, <3>2, <3>3
    <3>5. QED
      BY <1>3, <3>1, <3>2, <3>4
  <2>3. QED
    BY <2>1, <2>2
<1>12. ASSUME NEW u \in Workers, Step(u)' \in {"client", "consumer"}
       PROVE  /\ worker'[u].id \notin {stores.kong, stores.row, stores.own, feed}
              /\ \A v \in Workers : Step(v)' \in Deleting \ {"svc"} =>
                                       worker'[v].consumer # worker'[u].id
  <2>1. \A v \in Workers : Step(v)' \in Deleting \ {"svc"} =>
           v # w /\ Step(v) \in Deleting \ {"svc"} /\ worker'[v] = worker[v]
    BY <1>2, <1>3 DEF Deleting
  <2>2. CASE u = w
    BY <1>3, <1>9, <1>10, <1>12, <2>1, <2>2
  <2>3. CASE u # w
    BY <1>3, <1>12, <2>1, <2>3 DEF Distinct, Unused
  <2>4. QED
    BY <2>2, <2>3
<1>13. ASSUME NEW u \in Workers, Step(u)' \in {"key", "row", "cleanRow"}
       PROVE  stores.own # worker'[u].id
  BY <1>2, <1>3, <1>13 DEF Distinct, Unused
<1>14. Unused'
  BY <1>4, <1>12, <1>13 DEF Unused
<1>15. QED
  BY <1>8, <1>11, <1>14 DEF Distinct

(* What those change who are no worker: a request that is made or cancelled,   *)
(* and the sync, which only writes the consumer that the Portal's stands for. *)
LEMMA OthersChange ==
    ASSUME Typed,
           \/ \E r \in Requests : CreateRequest(r) \/ Cancel(r)
           \/ FeedRead \/ FeedWrite \/ UNCHANGED vars
    PROVE  /\ UNCHANGED <<env, worker, nextId>> /\ history'.dirty = history.dirty
           /\ stores'.kong = stores.kong /\ stores'.keys = stores.keys
           /\ stores'.own = stores.own /\ stores'.access = stores.access
           /\ stores'.key = stores.key /\ stores'.row \in {stores.row, feed}
           /\ feed' \in {feed, stores.kong, None}
           /\ \A r \in Requests : request'[r].access \in {request[r].access, None}
<1>0. StoresTyped /\ RequestsTyped /\ Remembered
  BY TypedParts
<1>1. /\ UNCHANGED <<env, worker, nextId>> /\ history'.dirty = history.dirty
      /\ feed' \in {feed, stores.kong, None}
  BY <1>0 DEF CreateRequest, Cancel, FeedRead, FeedWrite, vars, Overlapping, Remembered
<1>2. /\ stores'.kong = stores.kong /\ stores'.keys = stores.keys
      /\ stores'.own = stores.own /\ stores'.access = stores.access
      /\ stores'.key = stores.key /\ stores'.row \in {stores.row, feed}
  BY <1>0 DEF CreateRequest, Cancel, FeedRead, FeedWrite, vars, Synced, StoresTyped
<1>3. \A r \in Requests : request'[r].access \in {request[r].access, None}
  BY <1>0 DEF CreateRequest, Cancel, FeedRead, FeedWrite, vars, Gone, NotMade, RequestsTyped
<1>4. QED
  BY <1>1, <1>2, <1>3

(* Requests and the sync leave what is in the making alone.                *)
LEMMA DistinctOthers ==
    ASSUME Typed, CredentialAssumption, Distinct,
           \/ \E r \in Requests : CreateRequest(r) \/ Cancel(r)
           \/ FeedRead \/ FeedWrite \/ UNCHANGED vars
    PROVE  Distinct'
<1>1. /\ UNCHANGED <<worker, nextId>>
      /\ stores'.kong = stores.kong
      /\ stores'.own = stores.own /\ stores'.access = stores.access
      /\ stores'.row \in {stores.row, feed}
      /\ feed' \in {feed, stores.kong, None}
      /\ \A r \in Requests : request'[r].access \in {request[r].access, None}
  BY OthersChange
<1>2. \A v \in Workers : Step(v)' = Step(v) /\ worker'[v] = worker[v]
  BY <1>1 DEF Step
<1>3. None < nextId
  BY TypedParts DEF CredentialAssumption, None
<1>4. Numbered'
  BY <1>1, <1>2, <1>3 DEF Distinct, Numbered
<1>5. \A u \in Workers : Step(u) \in Making => worker[u].id # None
  BY KindAtStep DEF Ids, None
<1>6. Apart'
  BY <1>1, <1>2, <1>5 DEF Distinct, Apart
<1>7. Unused'
  <2>1. \A u \in Workers : Step(u) \in {"client", "consumer"} => worker[u].id # None
    BY <1>5 DEF Making
  <2>2. ASSUME NEW u \in Workers, Step(u) \in {"client", "consumer"}
        PROVE  worker[u].id \notin {stores'.kong, stores'.row, stores'.own, feed'}
    <3>1. worker[u].id \notin {stores.kong, stores.row, stores.own, feed, None}
      BY <2>1, <2>2 DEF Distinct, Unused
    <3>2. QED
      BY <1>1, <3>1
  <2>3. QED
    BY <1>1, <1>2, <2>2 DEF Distinct, Unused
<1>8. QED
  BY <1>4, <1>6, <1>7 DEF Distinct

-----------------------------------------------------------------------------
(***************************************************************************)
(* The consumer in Kong is that of the Portal's consumer, and who deletes     *)
(* the one has deleted the other.                                           *)
(***************************************************************************)

(* What is true of the worker that is at the step s.                         *)
OwnedBy(rec, s) ==
    /\ s \in {"key", "row", "cleanRow"} => stores.kong = rec.id
    /\ s \in {"cleanKong", "cleanClient"} => stores.own # rec.id
    /\ s \in {"unrequest", "unrow", "unkong"} =>
          (rec.consumer # None /\ stores.kong = rec.consumer => rec.consumer = rec.id)
    /\ \/ s \in {"unkong", "unclient", "unaccess"}
       \/ s = "unrequest" /\ rec.consumer = None
       => stores.own # rec.id

(* Somebody is deleting the ServiceAccess, and its consumer is gone.         *)
Leaving ==
    \E v \in Workers : /\ Step(v) \in {"unkong", "unclient", "unaccess"}
                       /\ worker[v].id = stores.access

Owned ==
    /\ stores.own # None => stores.kong = stores.own
    /\ \A w \in Workers : OwnedBy(worker[w], Step(w))
    /\ stores.access # None => stores.own = stores.access \/ Leaving

(* The facts about the worker that moves.                                    *)
LEMMA Mover ==
    ASSUME Typed, NEW w \in Workers, NEW rec, NEW t, Changes(w, rec, t)
    PROVE  /\ \A v \in Workers \ {w} : worker'[v] = worker[v] /\ Step(v)' = Step(v)
           /\ Step(w)' = t /\ Order(worker'[w], Step(w), t)
           /\ t \notin {"rest", "enable"} /\ Step(w) \notin {"svc", "details", "consult"} =>
                 worker'[w].id = worker[w].id
           /\ t # "rest" /\ Step(w) \notin {"details"} => worker'[w].id = worker[w].id
           /\ t # "rest" /\ Step(w) \notin {"svc", "details", "consult", "locate", "find"} =>
                 worker'[w].consumer = worker[w].consumer
           /\ t # "rest" /\ Step(w) \notin {"key", "newkey"} => worker'[w].key = worker[w].key
           /\ t # "rest" => worker'[w].key = rec.key
           /\ t # "rest" /\ Step(w) = "svc" /\ stores.access = Own(w) =>
                 worker'[w].consumer = IF HasConsumer(Own(w)) THEN stores.row ELSE None
<1>1. rec \in Recs /\ Moves(w, rec, t) /\ Order(rec, Step(w), t) /\ WorkerChanges(w, rec)
  BY DEF Changes
<1>2. /\ \A v \in Workers \ {w} : worker'[v] = worker[v] /\ Step(v)' = Step(v)
      /\ Step(w)' = t
      /\ t # "rest" => /\ worker'[w].id = rec.id
                       /\ worker'[w].consumer = rec.consumer /\ worker'[w].key = rec.key
  BY <1>1, AfterMove
<1>3. Order(worker'[w], Step(w), t)
  BY <1>1, <1>2 DEF Order
<1>4. QED
  BY <1>1, <1>2, <1>3 DEF WorkerChanges

(* What becomes of Kong's consumer and of the Portal's.                      *)
LEMMA OwnChanges ==
    ASSUME Typed, CredentialAssumption, Distinct, Owned, NEW w \in Workers, NEW rec, NEW t,
           Changes(w, rec, t)
    PROVE  /\ \/ stores'.kong = stores.kong
              \/ stores'.kong = None /\ stores.kong = Own(w) /\ stores.own = None
                 /\ Step(w) \in {"cleanKong", "unkong"}
              \/ stores'.kong = Own(w) /\ stores.kong = None /\ Step(w) = "consumer"
           /\ \/ stores'.own = stores.own
              \/ stores'.own = None /\ stores.own = Own(w)
                 /\ Step(w) \in {"cleanOwn", "unrow"}
              \/ stores'.own = None /\ stores.own \in {None, stores.kong}
                 /\ Step(w) = "cleanRow" /\ stores.kong = Own(w)
              \/ stores'.own = Own(w) /\ stores.own = None /\ stores.kong = Own(w)
                 /\ Step(w) = "row" /\ t = "sync"
<1>1. KongChanges(w, rec, t) /\ PortalChanges(w, t) /\ StoresTyped
  BY TypedParts DEF Changes
<1>2. OwnedBy(worker[w], Step(w)) /\ (stores.own # None => stores.kong = stores.own)
  BY DEF Owned
<1>3. \/ stores'.kong = stores.kong
      \/ stores'.kong = None /\ stores.kong = Own(w) /\ stores.own = None
         /\ Step(w) \in {"cleanKong", "unkong"}
      \/ stores'.kong = Own(w) /\ stores.kong = None /\ Step(w) = "consumer"
  <2>1. CASE Step(w) = "unkong"
    <3>1. stores.own # worker[w].id
      BY <1>2, <2>1 DEF OwnedBy
    <3>2. stores.kong # None /\ stores.kong = worker[w].consumer => stores.kong = worker[w].id
      BY <1>2, <2>1 DEF OwnedBy
    <3>3. QED
      BY <1>1, <1>2, <2>1, <3>1, <3>2 DEF KongChanges, Own
  <2>2. CASE Step(w) = "cleanKong"
    <3>1. stores.own # worker[w].id
      BY <1>2, <2>2 DEF OwnedBy
    <3>2. QED
      BY <1>1, <1>2, <2>2, <3>1 DEF KongChanges, Own
  <2>3. CASE Step(w) \notin {"unkong", "cleanKong"}
    BY <1>1, <2>3 DEF KongChanges
  <2>4. QED
    BY <2>1, <2>2, <2>3
<1>4. \/ stores'.own = stores.own
      \/ stores'.own = None /\ stores.own = Own(w) /\ Step(w) \in {"cleanOwn", "unrow"}
      \/ stores'.own = None /\ stores.own \in {None, stores.kong} /\ Step(w) = "cleanRow"
         /\ stores.kong = Own(w)
      \/ stores'.own = Own(w) /\ stores.own = None /\ stores.kong = Own(w)
         /\ Step(w) = "row" /\ t = "sync"
  <2>1. CASE Step(w) = "row"
    BY <1>1, <1>2, <2>1 DEF PortalChanges, OwnedBy, StoresTyped, Own
  <2>2. CASE Step(w) = "cleanRow"
    <3>1. stores.kong = Own(w)
      BY <1>2, <2>2 DEF OwnedBy, Own
    <3>2. stores.own \in {None, stores.kong}
      BY <1>2
    <3>3. stores'.own \in {None, stores.own}
      BY <1>1, <2>2 DEF PortalChanges
    <3>4. QED
      BY <2>2, <3>1, <3>2, <3>3
  <2>3. CASE Step(w) \in {"cleanOwn", "unrow"}
    BY <1>1, <2>3 DEF PortalChanges
  <2>4. CASE Step(w) \notin {"row", "cleanRow", "cleanOwn", "unrow"}
    BY <1>1, <2>4 DEF PortalChanges
  <2>5. QED
    BY <2>1, <2>2, <2>3, <2>4
<1>5. QED
  BY <1>3, <1>4

(* A step leaves the consumer with the attempt that made it, or is deleting it.*)
LEMMA OwnedGoes ==
    ASSUME Typed, CredentialAssumption, Distinct, Owned, NEW w \in Workers, NEW rec, NEW t,
           Changes(w, rec, t)
    PROVE  Owned'
<1>0. StoresTyped
  BY TypedParts
<1>1. KongChanges(w, rec, t) /\ PortalChanges(w, t)
  BY DEF Changes
<1>2. OwnedBy(worker[w], Step(w)) /\ (stores.own # None => stores.kong = stores.own)
  BY DEF Owned
<1>3. Order(worker'[w], Step(w), t) /\ Step(w)' = t
  BY Mover
<1>4. stores'.own # None => stores'.kong = stores'.own
  BY <1>2, OwnChanges
<1>5. OwnedBy(worker[w], t)'
  <2> DEFINE v == worker'[w]
             s == Step(w)
  <2>1. t \in Making \cup (Deleting \ {"svc"}) => v.id = worker[w].id
    <3>1. t \in Making => s \in Making
      BY <1>3 DEF Order, Making
    <3>2. t \in Deleting \ {"svc"} => s \in Deleting
      BY <1>3 DEF Order, Deleting
    <3>3. "details" \notin Making \cup Deleting /\ "rest" \notin Making \cup Deleting
      BY DEF Making, Deleting
    <3>4. QED
      BY <3>1, <3>2, <3>3, Mover
  <2>2. t \in {"key", "row", "cleanRow"} => stores'.kong = v.id
    <3>1. t \in {"key", "row", "cleanRow"} => s \in {"consumer", "key", "row"}
      BY <1>3 DEF Order
    <3>2. s = "consumer" /\ t \in {"key", "row"} => stores'.kong = worker[w].id
      BY <1>1 DEF KongChanges, Own
    <3>3. s = "consumer" => t # "cleanRow"
      BY <1>3 DEF Order
    <3>4. s \in {"key", "row"} => stores'.kong = worker[w].id
      BY <1>1, <1>2 DEF KongChanges, OwnedBy
    <3>5. QED
      BY <2>1, <3>1, <3>2, <3>3, <3>4 DEF Making
  <2>3. t \in {"cleanKong", "cleanClient"} => stores'.own # v.id
    <3>1. t \in {"cleanKong", "cleanClient"} =>
             s \in {"cleanRow", "cleanOwn", "consumer", "cleanKong"} /\ v.id = worker[w].id
      BY <1>3, <2>1 DEF Order, Making
    <3>2. s \in Making => worker[w].id # None
      BY KindAtStep DEF Ids, None
    <3>3. s \in {"cleanRow", "consumer"} => stores.own # worker[w].id
      BY DEF Distinct, Unused
    <3>4. s \in {"cleanRow", "cleanOwn", "consumer", "cleanKong"} => stores'.own # worker[w].id
      BY <1>1, <1>2, <3>2, <3>3 DEF PortalChanges, OwnedBy, Making, Own
    <3>5. QED
      BY <3>1, <3>4
  <2>4. t \in {"unrequest", "unrow", "unkong"} =>
           (v.consumer # None /\ stores'.kong = v.consumer => v.consumer = v.id)
    <3>1. ASSUME t \in {"unrequest", "unrow", "unkong"}
          PROVE  s \in {"svc", "unrequest", "unrow"} /\ v.id = worker[w].id
      BY <1>3, <2>1, <3>1 DEF Order, Deleting
    <3>2. t = "unrequest" => s = "svc"
      BY <1>3 DEF Order
    <3>3. t \in {"unrow", "unkong"} => s \in {"unrequest", "unrow"}
      BY <1>3 DEF Order
    <3>4. s \in {"svc", "unrequest", "unrow"} => stores'.kong = stores.kong
      BY <1>1 DEF KongChanges
    <3>5. t \in {"unrow", "unkong"} => v.consumer = worker[w].consumer
      BY <3>3, Mover
    <3>6. CASE t = "unrequest"
      <4>1. stores.access = Own(w)
        BY <1>1, <3>2, <3>6 DEF PortalChanges
      <4>2. v.consumer = IF HasConsumer(Own(w)) THEN stores.row ELSE None
        BY <3>2, <3>6, <4>1, Mover
      <4>3. v.consumer # None => stores.kong = worker[w].id
        <5>1. s \in Deleting
          BY <3>2, <3>6 DEF Deleting
        <5>2. worker[w].id # None
          BY <5>1, KindAtStep DEF Ids, None
        <5>3. QED
          BY <1>2, <4>2, <5>2 DEF HasConsumer, Own
      <4>4. QED
        BY <3>1, <3>2, <3>4, <3>6, <4>3
    <3>7. CASE t \in {"unrow", "unkong"}
      BY <1>2, <3>1, <3>3, <3>4, <3>5, <3>7 DEF OwnedBy
    <3>8. QED
      BY <3>6, <3>7
  <2>5. \/ t \in {"unkong", "unclient", "unaccess"}
        \/ t = "unrequest" /\ v.consumer = None
        => stores'.own # v.id
    <3> SUFFICES ASSUME \/ t \in {"unkong", "unclient", "unaccess"}
                        \/ t = "unrequest" /\ v.consumer = None
                 PROVE  stores'.own # worker[w].id
      BY <2>1 DEF Deleting
    <3>1. s \in Deleting
      BY <1>3 DEF Order, Deleting
    <3>2. worker[w].id # None
      BY <3>1, KindAtStep DEF Ids, None
    <3>3. CASE s = "unrow"
      BY <1>1, <3>2, <3>3 DEF PortalChanges, Own
    <3>4. CASE t = "unrequest"
      <4>1. s = "svc"
        BY <1>3, <3>4 DEF Order
      <4>2. stores.access = Own(w)
        BY <1>1, <3>4, <4>1 DEF PortalChanges
      <4>3. v.consumer = IF HasConsumer(Own(w)) THEN stores.row ELSE None
        BY <3>4, <4>1, <4>2, Mover
      <4>4. v.consumer = None
        BY <3>4
      <4>5. stores.own # worker[w].id
        BY <1>0, <3>2, <4>2, <4>3, <4>4 DEF HasConsumer, Own, StoresTyped
      <4>6. QED
        BY <1>1, <4>1, <4>5 DEF PortalChanges
    <3>5. CASE s # "unrow" /\ t # "unrequest"
      <4>1. s \in {"unkong", "unclient"} \/ (s = "unrequest" /\ v.consumer = None)
        BY <1>3, <3>5 DEF Order
      <4>2. s = "unrequest" => v.consumer = worker[w].consumer
        BY Mover
      <4>3. stores.own # worker[w].id
        BY <1>2, <4>1, <4>2 DEF OwnedBy
      <4>4. stores'.own = stores.own
        BY <1>1, <4>1 DEF PortalChanges
      <4>5. QED
        BY <4>3, <4>4
    <3>6. QED
      BY <3>3, <3>4, <3>5
  <2>6. QED
    BY <2>2, <2>3, <2>4, <2>5 DEF OwnedBy
<1>6. ASSUME NEW u \in Workers \ {w} PROVE OwnedBy(worker[u], Step(u))'
  <2> DEFINE v == worker[u]
             s == Step(u)
  <2>1. worker'[u] = v /\ Step(u)' = s /\ OwnedBy(v, s)
    BY Mover DEF Owned
  <2>2. s \in Making => v.id # None /\ Own(w) # v.id
    BY <1>6, KindAtStep DEF Ids, None, Distinct, Apart, Own
  <2>3. s \in {"key", "row", "cleanRow"} => stores'.kong = v.id
    BY <2>1, <2>2, OwnChanges DEF OwnedBy, Making
  <2>4. s \in {"cleanKong", "cleanClient"} => stores'.own # v.id
    BY <2>1, <2>2, OwnChanges DEF OwnedBy, Making
  <2>5. s \in {"unrequest", "unrow", "unkong"} =>
           (v.consumer # None /\ stores'.kong = v.consumer => v.consumer = v.id)
    <3>1. Step(w) = "consumer" /\ s \in {"unrequest", "unrow", "unkong"} => v.consumer # Own(w)
      BY DEF Distinct, Unused, Deleting, Own
    <3>2. QED
      BY <2>1, <3>1, OwnChanges DEF OwnedBy
  <2>6. \/ s \in {"unkong", "unclient", "unaccess"}
        \/ s = "unrequest" /\ v.consumer = None
        => stores'.own # v.id
    <3>1. s \in Deleting => v.id # None
      BY <1>6, KindAtStep DEF Ids, None
    <3>2. Step(w) = "row" => Own(w) # v.id
      BY <1>6 DEF Distinct, Apart, Making, Own
    <3>3. QED
      BY <2>1, <3>1, <3>2, OwnChanges DEF OwnedBy, Deleting
  <2>7. QED
    BY <2>1, <2>3, <2>4, <2>5, <2>6 DEF OwnedBy
<1>7. stores'.access # None => stores'.own = stores'.access \/ Leaving'
  <2> SUFFICES ASSUME stores'.access # None, stores'.own # stores'.access PROVE Leaving'
    OBVIOUS
  <2>1. stores'.access = stores.access
    <3>1. CASE Step(w) = "access"
      BY <1>1, <3>1 DEF PortalChanges
    <3>2. CASE Step(w) = "unaccess"
      BY <1>1, <3>2 DEF PortalChanges
    <3>3. CASE Step(w) \notin {"access", "unaccess"}
      BY <1>1, <3>3 DEF PortalChanges
    <3>4. QED
      BY <3>1, <3>2, <3>3
  <2>2. Step(w) = "unaccess" => stores.access # Own(w)
    BY <1>1 DEF PortalChanges
  <2>3. CASE stores.own = stores.access
    <3>1. stores'.own # stores.own /\ stores.own # None
      BY <2>1, <2>3
    <3>2. stores.own = Own(w) /\ Step(w) \in {"cleanOwn", "unrow", "cleanRow"}
      BY <1>2, <3>1, OwnChanges
    <3>3. Step(w) = "unrow"
      BY <2>3, <3>2 DEF Distinct, Apart, Making, Own
    <3>4. t = "unkong"
      BY <1>3, <3>3 DEF Order
    <3>5. worker'[w].id = stores'.access /\ Step(w)' \in {"unkong", "unclient", "unaccess"}
      BY <1>3, <2>1, <2>3, <3>2, <3>3, <3>4, Mover DEF Own
    <3>6. QED
      BY <3>5 DEF Leaving
  <2>4. CASE stores.own # stores.access
    <3>1. PICK v \in Workers : /\ Step(v) \in {"unkong", "unclient", "unaccess"}
                               /\ worker[v].id = stores.access
      BY <2>1, <2>4 DEF Owned, Leaving
    <3>2. CASE v # w
      <4>1. worker'[v] = worker[v] /\ Step(v)' = Step(v)
        BY <3>2, Mover
      <4>2. QED
        BY <2>1, <3>1, <4>1 DEF Leaving
    <3>3. CASE v = w
      <4>1. Step(w) \in {"unkong", "unclient"}
        BY <2>2, <3>1, <3>3 DEF Own
      <4>2. t \in {"unclient", "unaccess"}
        BY <1>3, <4>1 DEF Order
      <4>3. worker'[w].id = stores'.access
        BY <2>1, <3>1, <3>3, <4>1, <4>2, Mover
      <4>4. QED
        BY <1>3, <4>2, <4>3 DEF Leaving
    <3>4. QED
      BY <3>2, <3>3
  <2>5. QED
    BY <2>3, <2>4
<1>8. QED
  <2>1. \A u \in Workers : OwnedBy(worker[u], Step(u))'
    BY <1>3, <1>5, <1>6 DEF OwnedBy
  <2>2. QED
    BY <1>4, <1>7, <2>1 DEF Owned

(* What starts takes nothing away.                                         *)
LEMMA OwnedStarts ==
    ASSUME Typed, Owned, NEW w \in Workers,
           NEW kind, NEW id, NEW key, NEW s, Starting(w, kind, id, key, s)
    PROVE  Owned'
<1>1. PICK rec \in Recs : Moves(w, rec, s)
  BY DEF Starting
<1>2. s \in {"client", "consumer", "find", "locate", "svc", "write"}
      /\ Step(w) = "rest" /\ UNCHANGED stores
  BY DEF Starting, FirstOfMaking, FirstOfRenewal
<1>3. /\ \A v \in Workers \ {w} : worker'[v] = worker[v] /\ Step(v)' = Step(v)
      /\ Step(w)' = s
  BY <1>1, AfterMove
<1>4. \A u \in Workers : OwnedBy(worker[u], Step(u))'
  BY <1>2, <1>3 DEF OwnedBy, Owned
<1>5. Leaving => Leaving'
  BY <1>2, <1>3 DEF Leaving
<1>6. QED
  BY <1>2, <1>4, <1>5 DEF Owned

(* Nor do requests and the sync.                                           *)
LEMMA OwnedOthers ==
    ASSUME Typed, Owned,
           \/ \E r \in Requests : CreateRequest(r) \/ Cancel(r)
           \/ FeedRead \/ FeedWrite \/ UNCHANGED vars
    PROVE  Owned'
<1>1. /\ UNCHANGED worker /\ stores'.kong = stores.kong
      /\ stores'.own = stores.own /\ stores'.access = stores.access
  BY OthersChange
<1>2. \A v \in Workers : Step(v)' = Step(v) /\ worker'[v] = worker[v]
  BY <1>1 DEF Step
<1>3. QED
  BY <1>1, <1>2 DEF Owned, OwnedBy, Leaving

-----------------------------------------------------------------------------
(***************************************************************************)
(* Which keys Kong accepts.                                                  *)
(***************************************************************************)

(* The ServiceAccess is there and nobody has begun to take it back.          *)
Current == stores.access # None /\ stores.own = stores.access

Relinking == \E w \in Workers : Step(w) = "relink"

(* What the worker that is at the step s knows of the keys.                  *)
KeyedBy(rec, s) ==
    /\ s = "key" /\ stores.kong = rec.id => stores.keys = {}
    /\ s \in {"row", "sync", "access"} /\ stores.kong = rec.id => stores.keys \subseteq {rec.key}
    /\ s \in Renewing => stores.access \in {None, rec.id}
    /\ s \in {"locate", "unkey"} /\ Current => rec.key = stores.key
    /\ s = "newkey" /\ Current /\ stores.kong = rec.consumer => stores.keys = {}
    /\ s = "relink" /\ Current => stores.keys \subseteq {rec.key}

Keyed ==
    /\ OAuth => stores.keys = {}
    /\ Current => stores.keys \subseteq {stores.key} \/ (Relinking /\ ~OAuth)
    /\ \A w \in Workers : KeyedBy(worker[w], Step(w))

(* What becomes of the keys.                                                 *)
LEMMA KeyChanges ==
    ASSUME Typed, CredentialAssumption, OneMaker, Distinct, Owned, Keyed,
           NEW w \in Workers, NEW rec, NEW t, Changes(w, rec, t)
    PROVE  /\ \/ stores'.keys \subseteq stores.keys
              \/ /\ Step(w) = "key" /\ t = "row" /\ stores.kong = Own(w) /\ ~OAuth
                 /\ stores'.keys \subseteq {rec.key}
              \/ /\ Step(w) = "newkey" /\ t = "relink" /\ stores.kong = worker[w].consumer /\ ~OAuth
                 /\ stores'.keys = stores.keys \cup {rec.key}
           /\ \/ stores'.access = stores.access
              \/ stores'.access = None
              \/ /\ stores'.access = Own(w) /\ stores.access = None /\ Step(w) = "access"
                 /\ stores'.key = worker[w].key /\ stores'.own = Own(w)
                 /\ stores.own = Own(w) /\ stores'.keys = stores.keys
           /\ stores'.key = stores.key \/ Step(w) \in {"access", "unaccess", "relink"}
           /\ stores'.key # stores.key /\ stores'.access # None /\ stores.access # None =>
                 Step(w) = "relink" /\ stores.access = Own(w) /\ stores'.key = worker[w].key
           /\ Step(w) = "relink" /\ stores.access = Own(w) => stores'.key = worker[w].key
           /\ Current' => Current \/ Step(w) = "access"
<1>1. KongChanges(w, rec, t) /\ PortalChanges(w, t) /\ Order(rec, Step(w), t) /\ StoresTyped
  BY TypedParts DEF Changes
<1>2. KeyedBy(worker[w], Step(w))
  BY DEF Keyed
<1>3. \/ stores'.keys \subseteq stores.keys
      \/ /\ Step(w) = "key" /\ t = "row" /\ stores.kong = Own(w) /\ ~OAuth
         /\ stores'.keys \subseteq {rec.key}
      \/ /\ Step(w) = "newkey" /\ t = "relink" /\ stores.kong = worker[w].consumer /\ ~OAuth
         /\ stores'.keys = stores.keys \cup {rec.key}
  <2>1. CASE Step(w) = "key"
    <3>1. ~OAuth
      BY <2>1, KindAtStep
    <3>2. t # "relink"
      BY <1>1, <2>1 DEF Order
    <3>3. stores.kong = Own(w) => stores.keys = {}
      BY <1>2, <2>1 DEF KeyedBy, Own
    <3>4. QED
      BY <1>1, <2>1, <3>1, <3>2, <3>3 DEF KongChanges
  <2>2. CASE Step(w) = "newkey"
    <3>1. ~OAuth
      BY <2>2, KindAtStep
    <3>2. t # "row"
      BY <1>1, <2>2 DEF Order
    <3>3. QED
      BY <1>1, <2>2, <3>1, <3>2 DEF KongChanges
  <2>3. CASE Step(w) \notin {"key", "newkey"}
    BY <1>1, <2>3 DEF KongChanges
  <2>4. QED
    BY <2>1, <2>2, <2>3
<1>4. \/ stores'.access = stores.access
      \/ stores'.access = None
      \/ /\ stores'.access = Own(w) /\ stores.access = None /\ Step(w) = "access"
         /\ stores'.key = worker[w].key /\ stores'.own = Own(w)
         /\ stores.own = Own(w) /\ stores'.keys = stores.keys
  <2>1. CASE Step(w) = "access"
    <3>1. stores'.own = stores.own /\ stores'.keys = stores.keys
      BY <1>1, <2>1 DEF KongChanges, PortalChanges
    <3>2. QED
      BY <1>1, <2>1, <3>1 DEF PortalChanges
  <2>2. CASE Step(w) # "access"
    BY <1>1, <2>2 DEF PortalChanges
  <2>3. QED
    BY <2>1, <2>2
<1>5. /\ stores'.key = stores.key \/ Step(w) \in {"access", "unaccess", "relink"}
      /\ Step(w) = "relink" /\ stores.access = Own(w) => stores'.key = worker[w].key
  BY <1>1 DEF PortalChanges
<1>6. stores'.key # stores.key /\ stores'.access # None /\ stores.access # None =>
         Step(w) = "relink" /\ stores.access = Own(w) /\ stores'.key = worker[w].key
  BY <1>1, <1>5 DEF PortalChanges
<1>7. Current' => Current \/ Step(w) = "access"
  <2> SUFFICES ASSUME Current', Step(w) # "access" PROVE Current
    OBVIOUS
  <2>1. stores'.access = stores.access /\ stores.access # None
    BY <1>4 DEF Current
  <2>2. stores'.own # None
    BY <2>1 DEF Current
  <2>3. Step(w) = "row" => stores.access # Own(w)
    BY DEF Distinct, Apart, Making, Own
  <2>4. stores'.own = stores.own
    BY <2>1, <2>2, <2>3, OwnChanges DEF Current
  <2>5. QED
    BY <2>1, <2>4 DEF Current
<1>8. QED
  BY <1>3, <1>4, <1>5, <1>6, <1>7

(* Nobody makes or renews while another one renews.                          *)
LEMMA RenewerAlone ==
    ASSUME Typed, OneMaker, NEW u \in Workers, NEW w \in Workers \ {u},
           Step(u) \in Renewing \cup Making
    PROVE  Step(w) \notin Making \cup Renewing
BY KindAtStep DEF OneMaker, Makers

(* The keys of the worker that moves.                                        *)
LEMMA KeyedMover ==
    ASSUME Typed, CredentialAssumption, OneMaker, Distinct, Owned, Keyed,
           NEW w \in Workers, NEW rec, NEW t, Changes(w, rec, t)
    PROVE  KeyedBy(worker[w], t)'
<1> DEFINE v == worker'[w]
           s == Step(w)
<1>1. KongChanges(w, rec, t) /\ PortalChanges(w, t) /\ Order(rec, Step(w), t) /\ StoresTyped
      /\ Order(v, s, t)
  BY TypedParts, Mover DEF Changes
<1>2. KeyedBy(worker[w], s) /\ (OAuth => stores.keys = {})
  BY DEF Keyed
<1>3. t \in Making \cup Renewing => v.id = worker[w].id /\ v.key = rec.key
                                   /\ (s \notin {"key", "newkey"} => v.key = worker[w].key)
  <2>1. t \in Making \cup Renewing => t # "rest" /\ s # "details"
    BY <1>1 DEF Order, Making, Renewing
  <2>2. QED
    BY <2>1, Mover
<1>4. t = "key" /\ stores'.kong = v.id => stores'.keys = {}
  <2> SUFFICES ASSUME t = "key" PROVE stores'.keys = {}
    OBVIOUS
  <2>1. s = "consumer"
    BY <1>1 DEF Order
  <2>2. stores.kong = None /\ stores'.keys = stores.keys
    BY <1>1, <2>1 DEF KongChanges
  <2>3. QED
    BY <1>1, <2>2 DEF StoresTyped
<1>5. t \in {"row", "sync", "access"} /\ stores'.kong = v.id => stores'.keys \subseteq {v.key}
  <2> SUFFICES ASSUME t \in {"row", "sync", "access"}, stores'.kong = v.id
               PROVE  stores'.keys \subseteq {v.key}
    OBVIOUS
  <2>1. CASE s = "consumer"
    <3>1. t = "row"
      BY <1>1, <2>1 DEF Order
    <3>2. stores.kong = None /\ stores'.keys = stores.keys
      BY <1>1, <2>1, <3>1 DEF KongChanges
    <3>3. QED
      BY <1>1, <3>2 DEF StoresTyped
  <2>2. CASE s = "key"
    <3>1. t = "row"
      BY <1>1, <2>2 DEF Order
    <3>2. stores.kong = Own(w) /\ stores'.keys = stores.keys \cup {rec.key}
      BY <1>1, <2>2, <3>1 DEF KongChanges
    <3>3. stores.keys = {}
      BY <1>2, <2>2, <3>2 DEF KeyedBy, Own
    <3>4. QED
      BY <1>3, <3>1, <3>2, <3>3 DEF Making
  <2>3. CASE s \in {"row", "sync"}
    <3>1. stores'.kong = stores.kong /\ stores'.keys = stores.keys
      BY <1>1, <2>3 DEF KongChanges
    <3>2. v.id = worker[w].id /\ v.key = worker[w].key
      BY <1>3, <2>3 DEF Making
    <3>3. QED
      BY <1>2, <2>3, <3>1, <3>2 DEF KeyedBy
  <2>4. QED
    BY <1>1, <2>1, <2>2, <2>3 DEF Order
<1>6. t \in Renewing =>
         /\ s \in Renewing /\ stores'.access \in {None, v.id}
         /\ stores'.access = stores.access /\ stores'.own = stores.own /\ stores'.kong = stores.kong
         /\ stores'.key = stores.key
         /\ (t # "unkey" => s \notin {"locate"})
  <2> SUFFICES ASSUME t \in Renewing
               PROVE  /\ s \in Renewing /\ stores'.access \in {None, v.id}
                      /\ stores'.access = stores.access /\ stores'.own = stores.own
                      /\ stores'.kong = stores.kong /\ stores'.key = stores.key
                      /\ (t # "unkey" => s \notin {"locate"})
    OBVIOUS
  <2>1. s \in {"locate", "unkey", "newkey", "find", "put"} /\ (t # "unkey" => s # "locate")
    BY <1>1 DEF Order, Renewing
  <2>2. /\ stores'.access = stores.access /\ stores'.own = stores.own
        /\ stores'.kong = stores.kong /\ stores'.key = stores.key
    BY <1>1, <2>1 DEF KongChanges, PortalChanges
  <2>3. stores.access \in {None, v.id} /\ s \in Renewing
    BY <1>2, <1>3, <2>1 DEF KeyedBy, Renewing
  <2>4. QED
    BY <2>1, <2>2, <2>3
<1>7. t \in {"locate", "unkey"} /\ Current' => v.key = stores'.key
  <2> SUFFICES ASSUME t \in {"locate", "unkey"}, Current' PROVE v.key = stores'.key
    OBVIOUS
  <2>1. s = "locate" /\ t \in Renewing
    BY <1>1 DEF Order, Renewing
  <2>2. Current
    BY <1>6, <2>1 DEF Current
  <2>3. QED
    BY <1>2, <1>3, <1>6, <2>1, <2>2 DEF KeyedBy
<1>8. t = "newkey" /\ Current' /\ stores'.kong = v.consumer => stores'.keys = {}
  <2> SUFFICES ASSUME t = "newkey", Current', stores'.kong = v.consumer PROVE stores'.keys = {}
    OBVIOUS
  <2>1. s = "unkey" /\ t \in Renewing
    BY <1>1 DEF Order, Renewing
  <2>2. Current
    BY <1>6, <2>1 DEF Current
  <2>3. stores.kong = worker[w].consumer
    BY <1>6, <2>1, Mover
  <2>4. worker[w].key = stores.key
    BY <1>2, <2>1, <2>2 DEF KeyedBy
  <2>5. ~Relinking
    <3>1. \A u \in Workers \ {w} : Step(u) # "relink"
      BY <2>1, RenewerAlone DEF Renewing
    <3>2. QED
      BY <2>1, <3>1 DEF Relinking
  <2>6. stores.keys \subseteq {worker[w].key}
    BY <2>2, <2>4, <2>5 DEF Keyed
  <2>7. QED
    BY <1>1, <2>1, <2>3, <2>6 DEF KongChanges
<1>9. t = "relink" /\ Current' => stores'.keys \subseteq {v.key}
  <2> SUFFICES ASSUME t = "relink", Current' PROVE stores'.keys \subseteq {v.key}
    OBVIOUS
  <2>1. s \in {"newkey", "put"} /\ t \in Renewing
    BY <1>1 DEF Order, Renewing
  <2>2. Current
    BY <1>6, <2>1 DEF Current
  <2>3. CASE s = "newkey"
    <3>1. stores.kong = worker[w].consumer /\ stores'.keys = stores.keys \cup {rec.key}
      BY <1>1, <2>3 DEF KongChanges
    <3>2. stores.keys = {}
      BY <1>2, <2>2, <2>3, <3>1 DEF KeyedBy
    <3>3. QED
      BY <1>3, <2>1, <3>1, <3>2
  <2>4. CASE s = "put"
    <3>1. OAuth
      <4>1. PICK u : Follows(worker[w], s, u)
        BY <2>4, StepFollows
      <4>2. QED
        BY <2>4, <4>1 DEF Follows, Deleting
    <3>2. stores'.keys = stores.keys
      BY <1>1, <2>4 DEF KongChanges
    <3>3. QED
      BY <1>2, <3>1, <3>2
  <2>5. QED
    BY <2>1, <2>3, <2>4
<1>10. QED
  BY <1>4, <1>5, <1>6, <1>7, <1>8, <1>9 DEF KeyedBy, Current

(* And of those that do not.                                                 *)
LEMMA KeyedRest ==
    ASSUME Typed, CredentialAssumption, OneMaker, Distinct, Owned, Keyed,
           NEW w \in Workers, NEW rec, NEW t, Changes(w, rec, t), NEW u \in Workers \ {w}
    PROVE  KeyedBy(worker[u], Step(u))'
<1> DEFINE v == worker[u]
           s == Step(u)
<1>1. worker'[u] = v /\ Step(u)' = s /\ KeyedBy(v, s)
  BY Mover DEF Keyed
<1> SUFFICES ASSUME s \in Making \cup Renewing PROVE KeyedBy(worker[u], Step(u))'
  BY <1>1 DEF KeyedBy, Making, Renewing
<1>2. Step(w) \notin Making \cup Renewing
  BY RenewerAlone
<1>3. stores'.keys \subseteq stores.keys
  BY <1>2, KeyChanges DEF Making, Renewing
<1>4. stores'.kong \in {stores.kong, None} /\ stores'.access \in {stores.access, None}
  BY <1>2, KeyChanges, OwnChanges DEF Making
<1>5. v.id # None /\ (s = "newkey" => v.consumer # None)
  <2>1. Carries(v, s) /\ v.id \in Ids
    BY KindAtStep, TypedParts DEF Programmed
  <2>2. QED
    BY <2>1 DEF Carries, Ids, None
<1>6. Current' => Current /\ stores'.key = stores.key
  <2>1. Current' => Current
    BY <1>2, KeyChanges DEF Making
  <2>2. QED
    BY <1>2, <2>1, KeyChanges DEF Current, Renewing
<1>7. QED
  BY <1>1, <1>3, <1>4, <1>5, <1>6 DEF KeyedBy, Current

(* A step leaves Kong with the key that the Portal refers to, or is replacing it.*)
LEMMA KeyedGoes ==
    ASSUME Typed, CredentialAssumption, OneMaker, Distinct, Owned, Keyed,
           NEW w \in Workers, NEW rec, NEW t, Changes(w, rec, t)
    PROVE  Keyed'
<1>1. UNCHANGED env /\ Step(w)' = t /\ Order(worker'[w], Step(w), t)
  BY Mover DEF Changes
<1>2. OAuth' <=> OAuth
  BY <1>1 DEF OAuth
<1>3. OAuth => stores'.keys = {}
  BY KeyChanges DEF Keyed
<1>4. \A u \in Workers : KeyedBy(worker[u], Step(u))'
  <2>1. KeyedBy(worker[w], t)' <=> KeyedBy(worker[w], Step(w))'
    BY <1>1 DEF KeyedBy
  <2>2. QED
    BY <2>1, KeyedMover, KeyedRest
<1>5. Current' => stores'.keys \subseteq {stores'.key} \/ (Relinking' /\ ~OAuth)
  <2> SUFFICES ASSUME Current' PROVE stores'.keys \subseteq {stores'.key} \/ (Relinking' /\ ~OAuth)
    OBVIOUS
  <2>1. CASE Step(w) = "access" /\ stores'.access = Own(w) /\ stores.access = None
    <3>1. /\ stores'.key = worker[w].key /\ stores.own = Own(w) /\ stores'.keys = stores.keys
      BY <2>1, KeyChanges, KindAtStep DEF Current, Own, Ids, None
    <3>2. Own(w) # None
      BY <2>1 DEF Current
    <3>3. stores.kong = Own(w)
      BY <3>1, <3>2 DEF Owned
    <3>4. stores.keys \subseteq {worker[w].key}
      BY <2>1, <3>3 DEF Keyed, KeyedBy, Own
    <3>5. QED
      BY <3>1, <3>4
  <2>2. CASE stores'.access = stores.access
    <3>1. Current
      <4>1. CASE Step(w) = "access"
        <5>1. stores'.own = stores.own
          BY <4>1, OwnChanges
        <5>2. QED
          BY <2>2, <5>1 DEF Current
      <4>2. CASE Step(w) # "access"
        BY <4>2, KeyChanges
      <4>3. QED
        BY <4>1, <4>2
    <3>2. CASE Step(w) = "relink"
      <4>1. stores.access = Own(w) /\ stores.keys \subseteq {worker[w].key}
        BY <3>1, <3>2 DEF Keyed, KeyedBy, Own, Renewing, Current
      <4>2. stores'.key = worker[w].key /\ stores'.keys \subseteq stores.keys
        BY <3>2, <4>1, KeyChanges
      <4>3. QED
        BY <4>1, <4>2
    <3>3. CASE Step(w) # "relink" /\ Step(w) \notin {"key", "newkey"}
      <4>1. stores'.keys \subseteq stores.keys /\ stores'.key = stores.key
        BY <2>2, <3>1, <3>3, KeyChanges DEF Current
      <4>2. Relinking => Relinking'
        BY <3>3, Mover DEF Relinking
      <4>3. QED
        BY <3>1, <4>1, <4>2 DEF Keyed
    <3>4. CASE Step(w) \in {"key", "newkey"}
      <4>1. stores'.key = stores.key
        BY <3>4, KeyChanges
      <4>2. ~Relinking
        <5>1. \A u \in Workers \ {w} : Step(u) # "relink"
          BY <3>4, RenewerAlone DEF Renewing, Making
        <5>2. QED
          BY <3>4, <5>1 DEF Relinking
      <4>3. stores.keys \subseteq {stores.key}
        BY <3>1, <4>2 DEF Keyed
      <4>4. CASE stores'.keys \subseteq stores.keys
        BY <4>1, <4>3, <4>4
      <4>5. CASE t = "relink" /\ ~OAuth
        BY <1>1, <4>5 DEF Relinking
      <4>6. Step(w) = "key" => stores.kong # Own(w)
        BY <3>1 DEF Current, Owned, Distinct, Apart, Making, Own
      <4>7. QED
        BY <4>4, <4>5, <4>6, KeyChanges
    <3>5. QED
      BY <3>2, <3>3, <3>4
  <2>3. QED
    BY <2>1, <2>2, KeyChanges DEF Current
<1>6. QED
  BY <1>2, <1>3, <1>4, <1>5 DEF Keyed

(* What starts adds no key.                                                *)
LEMMA KeyedStarts ==
    ASSUME Typed, Keyed, NEW w \in Workers,
           NEW kind, NEW id, NEW key, NEW s, Starting(w, kind, id, key, s)
    PROVE  Keyed'
<1>1. PICK rec \in Recs : rec.id = id /\ rec.key = key /\ Moves(w, rec, s)
  BY DEF Starting
<1>2. /\ s \in {"client", "consumer", "find", "locate", "svc", "write"}
      /\ s \in {"find", "locate"} => id = stores.access /\ key = stores.key
      /\ Step(w) = "rest" /\ UNCHANGED <<env, stores>>
  BY DEF Starting, FirstOfMaking, FirstOfRenewal
<1>3. /\ \A v \in Workers \ {w} : worker'[v] = worker[v] /\ Step(v)' = Step(v)
      /\ Step(w)' = s /\ worker'[w].id = id /\ worker'[w].key = key
  BY <1>1, <1>2, AfterMove
<1>4. /\ OAuth' = OAuth /\ Current' = Current
      /\ \A u \in Workers : Step(u) = "relink" => Step(u)' = "relink"
  BY <1>2, <1>3 DEF OAuth, Current
<1>5. ASSUME NEW u \in Workers PROVE KeyedBy(worker[u], Step(u))'
  <2>1. CASE u = w
    BY <1>2, <1>3, <2>1 DEF KeyedBy, Renewing
  <2>2. CASE u # w
    BY <1>2, <1>3, <1>4, <2>2 DEF Keyed, KeyedBy
  <2>3. QED
    BY <2>1, <2>2
<1>6. QED
  BY <1>2, <1>4, <1>5 DEF Keyed, Relinking

(* Nor do requests and the sync.                                           *)
LEMMA KeyedOthers ==
    ASSUME Typed, Keyed,
           \/ \E r \in Requests : CreateRequest(r) \/ Cancel(r)
           \/ FeedRead \/ FeedWrite \/ UNCHANGED vars
    PROVE  Keyed'
<1>1. /\ UNCHANGED <<env, worker>> /\ stores'.kong = stores.kong
      /\ stores'.own = stores.own /\ stores'.access = stores.access
      /\ stores'.keys = stores.keys /\ stores'.key = stores.key
  BY OthersChange
<1>2. \A v \in Workers : Step(v)' = Step(v) /\ worker'[v] = worker[v]
  BY <1>1 DEF Step
<1>3. OAuth' = OAuth /\ Current' = Current /\ Relinking' = Relinking
  BY <1>1, <1>2 DEF OAuth, Current, Relinking
<1>4. QED
  BY <1>1, <1>2, <1>3 DEF Keyed, KeyedBy

(* What is remembered of failures and encounters is not forgotten, and only    *)
(* what starts is new.                                                       *)
Remains ==
    /\ history.dirty => history'.dirty
    /\ history.astray => history'.astray
    /\ history'.issued = history.issued /\ history'.overlapped = history.overlapped

(* What is marked stays marked, and a step of work issues nothing more.    *)
LEMMA WorkRemains ==
    ASSUME Typed, NEW w \in Workers, Work(w) \/ Stop(w)
    PROVE  Remains
<1>1. Remembered
  BY TypedParts
<1>2. ASSUME NEW step, NEW able, NEW new, NEW next, Try(w, step, able, new, next)
      PROVE  Remains
  BY <1>1, <1>2 DEF Try, Remembered, Remains
<1>3. ASSUME NEW step, NEW able, NEW new, Call(w, step, able, new)
      PROVE  history' = history
  BY <1>3 DEF Call, Attempt
<1>4. history' = history => Remains
  BY DEF Remains
<1>5. ASSUME \/ RegisterClient(w) \/ CreateKongConsumer(w) \/ AddConsumerRow(w)
             \/ ForceSync(w) \/ AddServiceAccess(w) \/ PutClient(w)
      PROVE  history' = history
  BY <1>3, <1>5 DEF RegisterClient, CreateKongConsumer, AddConsumerRow, ForceSync,
     AddServiceAccess, PutClient
<1>6. ASSUME \/ AddKeyAuth(w) \/ Complete(w) \/ Locate(w) \/ FindClient(w)
      PROVE  history' = history
  BY <1>6 DEF AddKeyAuth, AddKeyTo, Complete, Locate, FindClient, Attempt
<1>7. ASSUME LinkServiceAccess(w) \/ Write(w) \/ LookUpDetails(w) \/ Consult(w) \/ Enable(w)
      PROVE  Remains
  <2>1. CASE LinkServiceAccess(w)
    BY <1>1, <2>1 DEF LinkServiceAccess, Attempt, Remembered, Remains
  <2>2. CASE Write(w)
    BY <1>1, <2>2 DEF Write, Attempt, Remembered, Remains
  <2>3. CASE LookUpDetails(w)
    BY <1>1, <2>3 DEF LookUpDetails, Attempt, Remembered, Remains
  <2>4. CASE Consult(w)
    BY <1>1, <2>4 DEF Consult, Attempt, Remembered, Remains
  <2>5. CASE Enable(w)
    BY <1>1, <2>5 DEF Enable, Attempt, Remembered, Remains
  <2>6. QED
    BY <1>7, <2>1, <2>2, <2>3, <2>4, <2>5
<1>8. ASSUME \/ Activate(w) \/ DeleteKeyAuth(w) \/ CleanRow(w) \/ CleanKong(w)
             \/ CleanClient(w) \/ DeleteRow(w) \/ DeleteKongConsumer(w) \/ DeleteClient(w)
             \/ DeleteServiceAccess(w)
      PROVE  Remains
  <2>1. CASE Activate(w) \/ DeleteKeyAuth(w) \/ CleanRow(w) \/ CleanKong(w) \/ CleanClient(w)
    <3>1. Attempt(w, "unkey", TRUE, FALSE) => history' = history
      BY DEF Attempt
    <3>2. QED
      BY <1>2, <1>4, <2>1, <3>1 DEF Activate, DeleteKeyAuth, CleanRow, CleanKong, CleanClient
  <2>2. CASE \/ DeleteRow(w) \/ DeleteKongConsumer(w) \/ DeleteClient(w)
             \/ DeleteServiceAccess(w)
    BY <1>2, <2>2 DEF DeleteRow, DeleteKongConsumer, DeleteClient, DeleteServiceAccess
  <2>3. QED
    BY <1>8, <2>1, <2>2
<1>9. ASSUME Relink(w) \/ Unissue(w) \/ LookUpAccess(w) \/ DeleteRequest(w)
      PROVE  Remains
  BY <1>1, <1>9 DEF Relink, Unissue, LookUpAccess, DeleteRequest, Remembered, Remains
<1>10. ASSUME Stop(w) PROVE Remains
  BY <1>1, <1>10 DEF Stop, Remembered, Remains
<1>11. QED
  BY <1>4, <1>5, <1>6, <1>7, <1>8, <1>9, <1>10 DEF Work

(* Nor does anything that is started, a request or the sync undo it.          *)
LEMMA MarksStay ==
    ASSUME Typed, [Next]_vars
    PROVE  /\ history.dirty => history'.dirty
           /\ history.astray => history'.astray
<1>1. ASSUME NEW w \in Workers,
             \/ \E r \in Requests : Collect(w, r) \/ Approve(w, r) \/ Reject(w, r)
             \/ Issue(w) \/ Renew(w) \/ Revoke(w)
      PROVE  history'.dirty = history.dirty /\ history'.astray = history.astray
  <2>1. \E kind, id, key, s : Starting(w, kind, id, key, s)
    BY <1>1, StartsSo
  <2>2. PICK kind, id : StartNoted(kind, id)
    BY <2>1 DEF Starting
  <2>3. QED
    BY <2>2 DEF StartNoted
<1>2. ASSUME \/ \E r \in Requests : CreateRequest(r) \/ Cancel(r)
             \/ FeedRead \/ FeedWrite \/ UNCHANGED vars
      PROVE  history'.dirty = history.dirty /\ (history.astray => history'.astray)
  BY <1>2, TypedParts DEF CreateRequest, Cancel, FeedRead, FeedWrite, vars, Overlapping,
     Remembered
<1>3. ASSUME NEW w \in Workers, Work(w) \/ Stop(w)
      PROVE  (history.dirty => history'.dirty) /\ (history.astray => history'.astray)
  BY <1>3, WorkRemains DEF Remains
<1>4. QED
  BY <1>1, <1>2, <1>3 DEF Next

Tracked == Distinct /\ Owned

(* Whose things are whose is so at any time, whatever overlaps.              *)
LEMMA TrackedInit == Init => Tracked
<1> SUFFICES ASSUME Init PROVE Tracked
  OBVIOUS
<1>1. \A w \in Workers : worker[w] = Idle /\ Step(w) = "rest"
  BY DEF Init, Idle, Step, First
<1>2. Distinct
  BY <1>1 DEF Init, Distinct, Numbered, Apart, Unused, Making, Deleting, Idle, Empty,
     NotMade, None
<1>3. Owned
  BY <1>1 DEF Init, Owned, OwnedBy, Empty
<1>4. QED
  BY <1>2, <1>3 DEF Tracked

(* Every step keeps whose attempt is whose.                                *)
LEMMA TrackedNext ==
    ASSUME Typed, CredentialAssumption, Tracked, [Next]_vars
    PROVE  history'.dirty \/ Tracked'
<1>1. ASSUME NEW w \in Workers, Work(w) \/ Stop(w) PROVE history'.dirty \/ Tracked'
  <2>1. Goes(w)
    BY <1>1, WorkGoes
  <2>2. ASSUME NEW rec, NEW t, Changes(w, rec, t) PROVE Tracked'
    BY <2>2, NumberedGoes, ApartGoes, UnusedGoes, OwnedGoes DEF Tracked, Distinct
  <2>3. QED
    BY <2>1, <2>2 DEF Goes
<1>2. ASSUME NEW w \in Workers,
             \/ \E r \in Requests : Collect(w, r) \/ Approve(w, r) \/ Reject(w, r)
             \/ Issue(w) \/ Renew(w) \/ Revoke(w)
      PROVE  Tracked'
  <2>1. PICK kind, id, key, s : Starting(w, kind, id, key, s)
    BY <1>2, StartsSo
  <2>2. QED
    BY <2>1, DistinctStarts, OwnedStarts DEF Tracked
<1>3. ASSUME \/ \E r \in Requests : CreateRequest(r) \/ Cancel(r)
             \/ FeedRead \/ FeedWrite \/ UNCHANGED vars
      PROVE  Tracked'
  BY <1>3, DistinctOthers, OwnedOthers DEF Tracked
<1>4. QED
  BY <1>1, <1>2, <1>3 DEF Next

Sound == Tracked /\ OneMaker /\ Keyed

(* At first nobody makes anything, and there are no keys.                  *)
LEMMA SoundInit == Init => Sound
<1> SUFFICES ASSUME Init PROVE Sound
  OBVIOUS
<1>1. \A w \in Workers : worker[w] = Idle /\ Step(w) = "rest"
  BY DEF Init, Idle, Step, First
<1>2. OneMaker
  BY <1>1 DEF OneMaker, Makers, Idle
<1>3. Tracked
  BY TrackedInit
<1>4. Keyed
  BY <1>1 DEF Init, Keyed, KeyedBy, Empty, Renewing
<1>5. QED
  BY <1>2, <1>3, <1>4 DEF Sound

(* With one maker the keys are as well.                                      *)
LEMMA SoundNext ==
    ASSUME Typed, CredentialAssumption, MakersAlone \/ ~history'.overlapped, Sound, [Next]_vars
    PROVE  history'.dirty \/ Sound'
<1>0. Distinct /\ Owned /\ (history'.dirty \/ Tracked')
  BY TrackedNext DEF Sound, Tracked
<1>1. ASSUME NEW w \in Workers, Work(w) \/ Stop(w) PROVE history'.dirty \/ Sound'
  <2>1. Goes(w)
    BY <1>1, WorkGoes
  <2>2. ASSUME NEW rec, NEW t, Changes(w, rec, t) PROVE OneMaker' /\ Keyed'
    BY <1>0, <2>2, OneMakerGoes, KeyedGoes DEF Sound
  <2>3. QED
    BY <1>0, <2>1, <2>2 DEF Goes, Sound
<1>2. ASSUME NEW w \in Workers,
             \/ \E r \in Requests : Collect(w, r) \/ Approve(w, r) \/ Reject(w, r)
             \/ Issue(w) \/ Renew(w) \/ Revoke(w)
      PROVE  OneMaker' /\ Keyed'
  <2>1. PICK kind, id, key, s : Starting(w, kind, id, key, s)
    BY <1>2, StartsSo
  <2>2. kind \in {"collect", "issue", "renew"} => Resting
    BY <2>1, TypedParts DEF MakersAlone, Starting, StartNoted, Remembered
  <2>3. QED
    BY <2>1, <2>2, OneMakerStarts, KeyedStarts DEF Sound
<1>3. ASSUME \/ \E r \in Requests : CreateRequest(r) \/ Cancel(r)
             \/ FeedRead \/ FeedWrite \/ UNCHANGED vars
      PROVE  OneMaker' /\ Keyed'
  <2>1. OneMaker'
    BY <1>3, OthersChange DEF Sound, OneMaker
  <2>2. QED
    BY <1>3, <2>1, KeyedOthers DEF Sound
<1>4. QED
  BY <1>0, <1>1, <1>2, <1>3 DEF Next, Sound

-----------------------------------------------------------------------------
(***************************************************************************)
(* How many keys too many.  Unlike what is Sound this also holds after        *)
(* failures that nobody heard of: each of them, and each restart, leaves at   *)
(* most one key that the ServiceAccess does not refer to.                    *)
(***************************************************************************)

(* The keys are few: one more or less counts as one.                         *)
LEMMA KeyCounts ==
    ASSUME CredentialAssumption, NEW S \in SUBSET Keys, NEW k
    PROVE  /\ Cardinality(S) \in Nat /\ Cardinality(S \ {k}) \in Nat
           /\ Cardinality(S \ {k}) <= Cardinality(S)
           /\ Cardinality(S) <= Cardinality(S \ {k}) + 1
           /\ S \subseteq {k} => Cardinality(S \ {k}) = 0
           /\ S = {} => Cardinality(S) = 0
<1>1. IsFiniteSet(Keys)
  BY FS_Interval DEF Keys, CredentialAssumption
<1>2. IsFiniteSet(S)
  BY <1>1, FS_Subset
<1>3. IsFiniteSet(S \ {k}) /\ Cardinality(S) \in Nat /\ Cardinality(S \ {k}) \in Nat
  BY <1>2, FS_Subset, FS_CardinalityType
<1>4. Cardinality(S \ {k}) = IF k \in S THEN Cardinality(S) - 1 ELSE Cardinality(S)
  BY <1>2, FS_RemoveElement
<1>5. S \subseteq {k} => S \ {k} = {}
  OBVIOUS
<1>6. Cardinality({}) = 0
  BY FS_EmptySet
<1>7. S = {} => Cardinality(S) = 0
  BY <1>6
<1>8. S \subseteq {k} => Cardinality(S \ {k}) = 0
  BY <1>5, <1>6
<1>9. QED
  BY <1>3, <1>4, <1>7, <1>8

LEMMA FewerKeys ==
    ASSUME CredentialAssumption, NEW S \in SUBSET Keys, NEW T \in SUBSET S
    PROVE  Cardinality(T) \in Nat /\ Cardinality(S) \in Nat /\ Cardinality(T) <= Cardinality(S)
<1>1. IsFiniteSet(Keys)
  BY FS_Interval DEF Keys, CredentialAssumption
<1>2. IsFiniteSet(S)
  BY <1>1, FS_Subset
<1>3. IsFiniteSet(T) /\ Cardinality(T) <= Cardinality(S)
  BY <1>2, FS_Subset
<1>4. QED
  BY <1>2, <1>3, FS_CardinalityType

(* No step fails more than once.                                           *)
LEMMA FaultsGrow ==
    ASSUME Typed, [Next]_vars
    PROVE  faults' \in {faults, faults + 1}
<1>1. ASSUME NEW able, Fails(able) PROVE faults' \in {faults, faults + 1}
  BY <1>1 DEF Fails
<1>2. ASSUME NEW w, NEW step, NEW able, NEW success, Attempt(w, step, able, success)
      PROVE  faults' \in {faults, faults + 1}
  BY <1>1, <1>2 DEF Attempt
<1>3. ASSUME NEW w, NEW step, NEW able, NEW new, Call(w, step, able, new)
      PROVE  faults' \in {faults, faults + 1}
  BY <1>1, <1>3 DEF Call, Attempt
<1>4. ASSUME NEW w, NEW step, NEW able, NEW new, NEW next, Try(w, step, able, new, next)
      PROVE  faults' \in {faults, faults + 1}
  BY <1>1, <1>4 DEF Try
<1>5. ASSUME NEW w \in Workers, Work(w) \/ Stop(w) PROVE faults' \in {faults, faults + 1}
  <2>1. CASE \/ RegisterClient(w) \/ CreateKongConsumer(w) \/ AddConsumerRow(w)
             \/ ForceSync(w) \/ AddServiceAccess(w) \/ PutClient(w)
    BY <1>3, <2>1 DEF RegisterClient, CreateKongConsumer, AddConsumerRow, ForceSync,
       AddServiceAccess, PutClient
  <2>2. CASE \/ AddKeyAuth(w) \/ Complete(w) \/ Locate(w) \/ FindClient(w)
             \/ LinkServiceAccess(w) \/ Write(w) \/ LookUpDetails(w) \/ Consult(w) \/ Enable(w)
    BY <1>1, <2>2 DEF AddKeyAuth, AddKeyTo, Complete, Locate, FindClient, LinkServiceAccess,
       Write, LookUpDetails, Consult, Enable, Attempt
  <2>3. CASE \/ Activate(w) \/ DeleteKeyAuth(w) \/ CleanRow(w) \/ CleanKong(w) \/ CleanClient(w)
    BY <1>2, <1>4, <2>3 DEF Activate, DeleteKeyAuth, CleanRow, CleanKong, CleanClient
  <2>4. CASE \/ DeleteRow(w) \/ DeleteKongConsumer(w) \/ DeleteClient(w)
             \/ DeleteServiceAccess(w)
    BY <1>4, <2>4 DEF DeleteRow, DeleteKongConsumer, DeleteClient, DeleteServiceAccess
  <2>5. CASE Relink(w) \/ Unissue(w) \/ LookUpAccess(w) \/ DeleteRequest(w) \/ Stop(w)
    BY <1>1, <2>5 DEF Relink, Unissue, LookUpAccess, DeleteRequest, Stop
  <2>6. QED
    BY <1>5, <2>1, <2>2, <2>3, <2>4, <2>5 DEF Work
<1>6. QED
  BY <1>5 DEF Next, CreateRequest, Cancel, Issue, Renew, Revoke, Collect, Approve, Reject,
     FeedRead, FeedWrite, vars

(* The attempt that a worker makes is not the one that is there.             *)
Drawn ==
    /\ stores.access < nextId
    /\ \A w \in Workers :
          /\ worker[w].id < nextId
          /\ Step(w) \in {"client", "consumer", "key"} => worker[w].id # stores.access

(* The ServiceAccess refers to a key of the consumer that Kong has.          *)
Whole == stores.access # None /\ stores.kong = stores.access

CountedBy(rec, s) ==
    /\ s = "key" /\ stores.kong = rec.id => stores.keys = {}
    /\ s \in {"row", "sync", "access"} /\ stores.kong = rec.id => stores.keys \subseteq {rec.key}
    /\ s \in Renewing => stores.access \in {None, rec.id}
    /\ s \in {"locate", "unkey"} /\ stores.access # None => rec.key = stores.key
    /\ s = "newkey" /\ Whole /\ stores.kong = rec.consumer => Cardinality(stores.keys) <= faults
    /\ s = "relink" /\ Whole => Cardinality(stores.keys \ {rec.key}) <= faults

Counted ==
    /\ OAuth => stores.keys = {}
    /\ Whole /\ ~Relinking => Cardinality(stores.keys \ {stores.key}) <= faults
    /\ \A w \in Workers : CountedBy(worker[w], Step(w))

(* A failure nobody hears of, or a restart, allows for one more.              *)
LEMMA DrawnSilent ==
    ASSUME Typed, CredentialAssumption, Drawn, NEW w \in Workers, Silent(w)
    PROVE  Drawn'
<1>1. PICK t : /\ Moves(w, worker[w], t)
               /\ \/ t \in {"rest", "unissue", "unaccess"}
                  \/ Step(w) \in Unthrown /\ Order(worker[w], Step(w), t)
  BY DEF Silent
<1>2. t \notin {"client", "consumer", "key"}
  BY <1>1 DEF Order, Unthrown
<1>3. PICK rec \in Recs : rec = worker[w] /\ Moves(w, rec, t)
  BY <1>1, TypedParts
<1>4. /\ \A v \in Workers \ {w} : worker'[v] = worker[v] /\ Step(v)' = Step(v)
      /\ Step(w)' = t /\ worker'[w].id \in {None, worker[w].id}
  BY <1>3, AfterMove
<1>5. None < nextId /\ UNCHANGED <<stores, nextId>>
  BY TypedParts DEF None, Silent, CredentialAssumption
<1>6. QED
  BY <1>2, <1>4, <1>5 DEF Drawn

LEMMA CountedSilent ==
    ASSUME Typed, CredentialAssumption, Counted, NEW w \in Workers, Silent(w)
    PROVE  Counted'
<1>1. PICK t : /\ Moves(w, worker[w], t)
               /\ \/ t \in {"rest", "unissue", "unaccess"}
                  \/ Step(w) \in Unthrown /\ Order(worker[w], Step(w), t)
  BY DEF Silent
<1>2. PICK rec \in Recs : rec = worker[w] /\ Moves(w, rec, t)
  BY <1>1, TypedParts
<1>3. /\ \A v \in Workers \ {w} : worker'[v] = worker[v] /\ Step(v)' = Step(v)
      /\ Step(w)' = t
      /\ t # "rest" => /\ worker'[w].id = worker[w].id
                       /\ worker'[w].consumer = worker[w].consumer
  BY <1>2, AfterMove
<1>4. UNCHANGED <<env, stores>> /\ faults' = faults + 1 /\ faults \in Nat
  BY TypedParts DEF Silent, CredentialAssumption
<1>5. stores.keys \in SUBSET Keys
  BY TypedParts DEF StoresTyped
<1>a. ASSUME NEW k, Cardinality(stores.keys \ {k}) <= faults
      PROVE  /\ Cardinality(stores.keys) <= faults + 1
             /\ \A j : Cardinality(stores.keys \ {j}) <= faults + 1
  <2>1. Cardinality(stores.keys) \in Nat /\ Cardinality(stores.keys \ {k}) \in Nat
        /\ Cardinality(stores.keys) <= Cardinality(stores.keys \ {k}) + 1
    BY <1>5, KeyCounts
  <2>2. Cardinality(stores.keys) <= faults + 1
    BY <1>4, <1>a, <2>1
  <2>3. ASSUME NEW j PROVE Cardinality(stores.keys \ {j}) <= faults + 1
    <3>1. /\ Cardinality(stores.keys \ {j}) \in Nat
          /\ Cardinality(stores.keys \ {j}) <= Cardinality(stores.keys)
      BY <1>5, KeyCounts
    <3>2. QED
      BY <1>4, <2>1, <2>2, <3>1
  <2>4. QED
    BY <2>2, <2>3
<1>6. OAuth' = OAuth /\ Whole' = Whole
  BY <1>4 DEF OAuth, Whole
<1>7. /\ t \in Renewing \cup {"key", "row", "sync", "access"} => t = "newkey"
      /\ t = "newkey" => Step(w) = "unkey"
  BY <1>1 DEF Order, Unthrown, Renewing
<1>8. ~Relinking' => ~Relinking \/ Step(w) = "relink"
  BY <1>3 DEF Relinking
<1>9. Whole' /\ ~Relinking' => Cardinality(stores.keys \ {stores.key}) <= faults + 1
  <2> SUFFICES ASSUME Whole, ~Relinking'
               PROVE  Cardinality(stores.keys \ {stores.key}) <= faults + 1
    BY <1>6
  <2>1. CASE ~Relinking
    BY <1>a, <2>1 DEF Counted
  <2>2. CASE Step(w) = "relink"
    <3>1. Cardinality(stores.keys \ {worker[w].key}) <= faults
      BY <2>2 DEF Counted, CountedBy
    <3>2. QED
      BY <1>a, <3>1
  <2>3. QED
    BY <1>8, <2>1, <2>2
<1>10. CountedBy(worker[w], t)'
  <2>1. CASE t = "newkey"
    <3>1. Step(w) = "unkey" /\ ~OAuth /\ CountedBy(worker[w], "unkey")
      BY <1>7, <2>1, KindAtStep DEF Counted
    <3>2. stores.access \in {None, worker[w].id}
      BY <3>1 DEF CountedBy, Renewing
    <3>3. \A u \in Workers : Step(u) = "relink" /\ Whole =>
             Cardinality(stores.keys \ {worker[u].key}) <= faults
      BY DEF Counted, CountedBy
    <3>4. Whole => Cardinality(stores.keys) <= faults + 1
      <4>1. PICK k : Whole => Cardinality(stores.keys \ {k}) <= faults
        BY <3>3 DEF Counted, Relinking
      <4>2. QED
        BY <1>a, <4>1
    <3>5. QED
      BY <1>3, <1>4, <1>6, <2>1, <3>2, <3>4 DEF CountedBy, Renewing
  <2>2. CASE t # "newkey"
    BY <1>7, <2>2 DEF CountedBy, Renewing
  <2>3. QED
    BY <2>1, <2>2
<1>11. ASSUME NEW v \in Workers PROVE CountedBy(worker[v], Step(v))'
  <2>1. CASE v = w
    BY <1>3, <1>10, <2>1 DEF CountedBy
  <2>2. CASE v # w
    <3>1. CountedBy(worker[v], Step(v)) /\ worker'[v] = worker[v] /\ Step(v)' = Step(v)
      BY <1>3, <2>2 DEF Counted
    <3>2. Cardinality(stores.keys) \in Nat /\ Cardinality(stores.keys \ {worker[v].key}) \in Nat
      BY <1>5, KeyCounts
    <3>3. QED
      BY <1>4, <1>6, <3>1, <3>2 DEF CountedBy
  <2>3. QED
    BY <2>1, <2>2
<1>12. QED
  BY <1>4, <1>6, <1>9, <1>11 DEF Counted

(* A step that is done or throws draws no number but for its worker.         *)
LEMMA DrawnGoes ==
    ASSUME Typed, CredentialAssumption, OneMaker, Drawn, NEW w \in Workers, NEW rec, NEW t,
           Changes(w, rec, t)
    PROVE  Drawn'
<1>1. /\ \A v \in Workers \ {w} : worker'[v] = worker[v] /\ Step(v)' = Step(v)
      /\ Step(w)' = t /\ Order(worker'[w], Step(w), t)
      /\ worker'[w].id \in {worker[w].id, stores.access, None}
  BY Mover, NamesOwn
<1>2. /\ \/ stores'.access \in {stores.access, None}
         \/ Step(w) = "access" /\ stores'.access = worker[w].id
      /\ t \in Making => worker'[w].id = worker[w].id
  BY NamesOwn DEF Own
<1>3. None < nextId /\ UNCHANGED nextId
  BY TypedParts DEF None, Changes, CredentialAssumption
<1>4. stores'.access < nextId'
  BY <1>2, <1>3 DEF Drawn
<1>5. ASSUME NEW v \in Workers
      PROVE  /\ worker'[v].id < nextId'
             /\ Step(v)' \in {"client", "consumer", "key"} => worker'[v].id # stores'.access
  <2>1. CASE v = w
    <3>1. worker'[w].id < nextId'
      BY <1>1, <1>3 DEF Drawn
    <3>2. t \in {"client", "consumer", "key"} =>
             Step(w) \in {"client", "consumer"} /\ t \in Making
      BY <1>1 DEF Order, Making
    <3>3. Step(w) \in {"client", "consumer"} => worker[w].id # None
      BY KindAtStep DEF Making, Ids, None
    <3>4. QED
      BY <1>1, <1>2, <2>1, <3>1, <3>2, <3>3 DEF Drawn
  <2>2. CASE v # w
    <3>1. worker'[v] = worker[v] /\ Step(v)' = Step(v)
      BY <1>1, <2>2
    <3>2. Step(v) \in {"client", "consumer", "key"} =>
             worker[v].id # None /\ Step(w) # "access"
      BY <2>2, KindAtStep, RenewerAlone DEF Making, Ids, None
    <3>3. QED
      BY <1>2, <1>3, <3>1, <3>2 DEF Drawn
  <2>3. QED
    BY <2>1, <2>2
<1>6. QED
  BY <1>4, <1>5 DEF Drawn

(* What becomes of the keys, and of what refers to one.                      *)
LEMMA CountChanges ==
    ASSUME Typed, CredentialAssumption, OneMaker, Drawn, Counted, NEW w \in Workers,
           NEW rec, NEW t, Changes(w, rec, t)
    PROVE  /\ \/ stores'.keys \subseteq stores.keys
              \/ /\ Step(w) = "key" /\ t = "row" /\ stores.kong = worker[w].id /\ ~OAuth
                 /\ stores'.keys \subseteq {rec.key} /\ ~Whole
              \/ /\ Step(w) = "newkey" /\ t = "relink" /\ stores.kong = worker[w].consumer /\ ~OAuth
                 /\ stores'.keys = stores.keys \cup {rec.key}
           /\ Whole' => \/ /\ Whole /\ stores'.access = stores.access
                           /\ Step(w) \notin {"relink"} => stores'.key = stores.key
                           /\ Step(w) = "relink" /\ stores.access = worker[w].id =>
                                 stores'.key = worker[w].key
                        \/ /\ Step(w) = "access" /\ stores.kong = worker[w].id
                           /\ stores'.key = worker[w].key /\ stores'.keys = stores.keys
           /\ Step(w) \notin {"consumer", "access"} =>
                 /\ stores'.kong \in {stores.kong, None} /\ stores'.access \in {stores.access, None}
           /\ Step(w) \notin {"access", "relink"} /\ stores'.access # None =>
                 stores'.key = stores.key
<1>1. KongChanges(w, rec, t) /\ PortalChanges(w, t) /\ Order(rec, Step(w), t) /\ StoresTyped
  BY TypedParts DEF Changes
<1>2. CountedBy(worker[w], Step(w))
  BY DEF Counted
<1>3. \/ stores'.keys \subseteq stores.keys
      \/ /\ Step(w) = "key" /\ t = "row" /\ stores.kong = worker[w].id /\ ~OAuth
         /\ stores'.keys \subseteq {rec.key} /\ ~Whole
      \/ /\ Step(w) = "newkey" /\ t = "relink" /\ stores.kong = worker[w].consumer /\ ~OAuth
         /\ stores'.keys = stores.keys \cup {rec.key}
  <2>1. CASE Step(w) = "key"
    <3>1. ~OAuth /\ worker[w].id # stores.access
      BY <2>1, KindAtStep DEF Drawn
    <3>2. t # "relink"
      BY <1>1, <2>1 DEF Order
    <3>3. stores.kong = worker[w].id => stores.keys = {} /\ ~Whole
      BY <1>2, <2>1, <3>1 DEF CountedBy, Whole
    <3>4. QED
      BY <1>1, <2>1, <3>1, <3>2, <3>3 DEF KongChanges, Own
  <2>2. CASE Step(w) = "newkey"
    <3>1. ~OAuth
      BY <2>2, KindAtStep
    <3>2. t # "row"
      BY <1>1, <2>2 DEF Order
    <3>3. QED
      BY <1>1, <2>2, <3>1, <3>2 DEF KongChanges
  <2>3. CASE Step(w) \notin {"key", "newkey"}
    BY <1>1, <2>3 DEF KongChanges
  <2>4. QED
    BY <2>1, <2>2, <2>3
<1>4. Step(w) \notin {"consumer", "access"} =>
         stores'.kong \in {stores.kong, None} /\ stores'.access \in {stores.access, None}
  BY <1>1 DEF KongChanges, PortalChanges
<1>5. Step(w) \notin {"access", "relink"} /\ stores'.access # None => stores'.key = stores.key
  BY <1>1 DEF PortalChanges
<1>6. ASSUME Whole'
      PROVE  \/ /\ Whole /\ stores'.access = stores.access
                /\ Step(w) \notin {"relink"} => stores'.key = stores.key
                /\ Step(w) = "relink" /\ stores.access = worker[w].id =>
                      stores'.key = worker[w].key
             \/ /\ Step(w) = "access" /\ stores.kong = worker[w].id
                /\ stores'.key = worker[w].key /\ stores'.keys = stores.keys
  <2>1. CASE Step(w) = "access"
    <3>1. stores'.kong = stores.kong /\ stores'.keys = stores.keys
      BY <1>1, <2>1 DEF KongChanges
    <3>2. QED
      BY <1>1, <1>6, <2>1, <3>1 DEF PortalChanges, Whole, Own
  <2>2. CASE Step(w) = "consumer"
    <3>1. stores'.access = stores.access /\ stores'.key = stores.key
      BY <1>1, <2>2 DEF PortalChanges
    <3>2. stores'.kong \in {stores.kong, worker[w].id}
      BY <1>1, <2>2 DEF KongChanges, Own
    <3>3. worker[w].id # stores.access
      BY <2>2 DEF Drawn
    <3>4. QED
      BY <1>6, <2>2, <3>1, <3>2, <3>3 DEF Whole
  <2>3. CASE Step(w) \notin {"access", "consumer"}
    <3>1. Whole /\ stores'.access = stores.access
      BY <1>4, <1>6, <2>3 DEF Whole
    <3>2. Step(w) = "relink" /\ stores.access = worker[w].id => stores'.key = worker[w].key
      BY <1>1 DEF PortalChanges, Own
    <3>3. QED
      BY <1>5, <1>6, <2>3, <3>1, <3>2 DEF Whole
  <2>4. QED
    BY <2>1, <2>2, <2>3
<1>7. QED
  BY <1>3, <1>4, <1>5, <1>6

(* The keys that the worker that moves counts.                               *)
LEMMA CountedMover ==
    ASSUME Typed, Typed', CredentialAssumption, OneMaker, Drawn, Counted,
           NEW w \in Workers, NEW rec, NEW t, Changes(w, rec, t), faults' \in {faults, faults + 1}
    PROVE  CountedBy(worker[w], t)'
<1> DEFINE v == worker'[w]
           s == Step(w)
<1>1. KongChanges(w, rec, t) /\ PortalChanges(w, t) /\ Order(rec, Step(w), t) /\ StoresTyped
      /\ Order(v, s, t)
  BY TypedParts, Mover DEF Changes
<1>2. CountedBy(worker[w], s) /\ (OAuth => stores.keys = {})
  BY DEF Counted
<1>a. stores.keys \in SUBSET Keys /\ stores'.keys \in SUBSET Keys
      /\ faults \in Nat /\ faults' \in Nat /\ faults <= faults'
  <2>1. stores.keys \in SUBSET Keys /\ stores'.keys \in SUBSET Keys
    BY TypedParts DEF StoresTyped, Typed, TypeOK
  <2>2. faults \in Nat
    BY TypedParts DEF CredentialAssumption
  <2>3. QED
    BY <2>1, <2>2
<1>3. t \in Making \cup Renewing => v.id = worker[w].id /\ v.key = rec.key
                                   /\ (s \notin {"key", "newkey"} => v.key = worker[w].key)
  <2>1. t \in Making \cup Renewing => t # "rest" /\ s # "details"
    BY <1>1 DEF Order, Making, Renewing
  <2>2. QED
    BY <2>1, Mover
<1>4. t = "key" /\ stores'.kong = v.id => stores'.keys = {}
  <2> SUFFICES ASSUME t = "key" PROVE stores'.keys = {}
    OBVIOUS
  <2>1. s = "consumer"
    BY <1>1 DEF Order
  <2>2. stores.kong = None /\ stores'.keys = stores.keys
    BY <1>1, <2>1 DEF KongChanges
  <2>3. QED
    BY <1>1, <2>2 DEF StoresTyped
<1>5. t \in {"row", "sync", "access"} /\ stores'.kong = v.id => stores'.keys \subseteq {v.key}
  <2> SUFFICES ASSUME t \in {"row", "sync", "access"}, stores'.kong = v.id
               PROVE  stores'.keys \subseteq {v.key}
    OBVIOUS
  <2>1. CASE s = "consumer"
    <3>1. t = "row"
      BY <1>1, <2>1 DEF Order
    <3>2. stores.kong = None /\ stores'.keys = stores.keys
      BY <1>1, <2>1, <3>1 DEF KongChanges
    <3>3. QED
      BY <1>1, <3>2 DEF StoresTyped
  <2>2. CASE s = "key"
    <3>1. t = "row"
      BY <1>1, <2>2 DEF Order
    <3>2. stores.kong = Own(w) /\ stores'.keys = stores.keys \cup {rec.key}
      BY <1>1, <2>2, <3>1 DEF KongChanges
    <3>3. stores.keys = {}
      BY <1>2, <2>2, <3>2 DEF CountedBy, Own
    <3>4. QED
      BY <1>3, <3>1, <3>2, <3>3 DEF Making
  <2>3. CASE s \in {"row", "sync"}
    <3>1. stores'.kong = stores.kong /\ stores'.keys = stores.keys
      BY <1>1, <2>3 DEF KongChanges
    <3>2. v.id = worker[w].id /\ v.key = worker[w].key
      BY <1>3, <2>3 DEF Making
    <3>3. QED
      BY <1>2, <2>3, <3>1, <3>2 DEF CountedBy
  <2>4. QED
    BY <1>1, <2>1, <2>2, <2>3 DEF Order
<1>6. t \in Renewing =>
         /\ s \in Renewing /\ stores'.access \in {None, v.id}
         /\ stores'.access = stores.access /\ stores'.kong = stores.kong
         /\ stores'.key = stores.key /\ Whole' = Whole
         /\ (t # "unkey" => s \notin {"locate"})
  <2> SUFFICES ASSUME t \in Renewing
               PROVE  /\ s \in Renewing /\ stores'.access \in {None, v.id}
                      /\ stores'.access = stores.access
                      /\ stores'.kong = stores.kong /\ stores'.key = stores.key
                      /\ Whole' = Whole /\ (t # "unkey" => s \notin {"locate"})
    OBVIOUS
  <2>1. s \in {"locate", "unkey", "newkey", "find", "put"} /\ (t # "unkey" => s # "locate")
    BY <1>1 DEF Order, Renewing
  <2>2. /\ stores'.access = stores.access
        /\ stores'.kong = stores.kong /\ stores'.key = stores.key
    BY <1>1, <2>1 DEF KongChanges, PortalChanges
  <2>3. stores.access \in {None, v.id} /\ s \in Renewing
    BY <1>2, <1>3, <2>1 DEF CountedBy, Renewing
  <2>4. QED
    BY <2>1, <2>2, <2>3 DEF Whole
<1>7. t \in {"locate", "unkey"} /\ stores'.access # None => v.key = stores'.key
  <2> SUFFICES ASSUME t \in {"locate", "unkey"}, stores'.access # None PROVE v.key = stores'.key
    OBVIOUS
  <2>1. s = "locate" /\ t \in Renewing
    BY <1>1 DEF Order, Renewing
  <2>2. QED
    BY <1>2, <1>3, <1>6, <2>1 DEF CountedBy
<1>8. t = "newkey" /\ Whole' /\ stores'.kong = v.consumer =>
         Cardinality(stores'.keys) <= faults'
  <2> SUFFICES ASSUME t = "newkey", Whole', stores'.kong = v.consumer
               PROVE  Cardinality(stores'.keys) <= faults'
    OBVIOUS
  <2>1. s = "unkey" /\ t \in Renewing
    BY <1>1 DEF Order, Renewing
  <2>2. Whole
    BY <1>6, <2>1
  <2>3. stores.kong = worker[w].consumer
    BY <1>6, <2>1, Mover
  <2>4. worker[w].key = stores.key
    BY <1>2, <2>1, <2>2 DEF CountedBy, Whole
  <2>5. ~Relinking
    <3>1. \A u \in Workers \ {w} : Step(u) # "relink"
      BY <2>1, RenewerAlone DEF Renewing
    <3>2. QED
      BY <2>1, <3>1 DEF Relinking
  <2>6. Cardinality(stores.keys \ {stores.key}) <= faults
    BY <2>2, <2>5 DEF Counted
  <2>7. stores'.keys = stores.keys \ {stores.key}
    BY <1>1, <2>1, <2>3, <2>4 DEF KongChanges
  <2>8. Cardinality(stores'.keys) \in Nat /\ Cardinality(stores'.keys) <= faults
    BY <1>a, <2>6, <2>7, KeyCounts
  <2>9. QED
    BY <1>a, <2>8
<1>9. t = "relink" /\ Whole' => Cardinality(stores'.keys \ {v.key}) <= faults'
  <2> SUFFICES ASSUME t = "relink", Whole' PROVE Cardinality(stores'.keys \ {v.key}) <= faults'
    OBVIOUS
  <2>1. s \in {"newkey", "put"} /\ t \in Renewing
    BY <1>1 DEF Order, Renewing
  <2>2. Whole
    BY <1>6, <2>1
  <2>3. CASE s = "newkey"
    <3>1. stores.kong = worker[w].consumer /\ stores'.keys = stores.keys \cup {rec.key}
      BY <1>1, <2>3 DEF KongChanges
    <3>2. Cardinality(stores.keys) <= faults
      BY <1>2, <2>2, <2>3, <3>1 DEF CountedBy
    <3>3. stores'.keys \ {v.key} \in SUBSET stores.keys
      BY <1>3, <2>1, <3>1
    <3>4. PICK T \in SUBSET stores.keys : T = stores'.keys \ {v.key}
      BY <3>3
    <3>5. Cardinality(T) \in Nat /\ Cardinality(stores.keys) \in Nat
          /\ Cardinality(T) <= Cardinality(stores.keys)
      BY <1>a, FewerKeys
    <3>6. Cardinality(T) <= faults'
      BY <1>a, <3>2, <3>5
    <3>7. QED
      BY <3>4, <3>6
  <2>4. CASE s = "put"
    <3>1. OAuth
      <4>1. PICK u : Follows(worker[w], s, u)
        BY <2>4, StepFollows
      <4>2. QED
        BY <2>4, <4>1 DEF Follows, Deleting
    <3>2. stores'.keys = stores.keys
      BY <1>1, <2>4 DEF KongChanges
    <3>3. stores'.keys \subseteq {v.key}
      BY <1>2, <3>1, <3>2
    <3>4. Cardinality(stores'.keys \ {v.key}) = 0
      BY <1>a, <3>3, KeyCounts
    <3>5. QED
      BY <1>a, <3>4
  <2>5. QED
    BY <2>1, <2>3, <2>4
<1>10. QED
  BY <1>4, <1>5, <1>6, <1>7, <1>8, <1>9 DEF CountedBy, Whole

(* And those of the workers that do not.                                     *)
LEMMA CountedRest ==
    ASSUME Typed, Typed', CredentialAssumption, OneMaker, Drawn, Counted,
           NEW w \in Workers, NEW rec, NEW t, Changes(w, rec, t), faults' \in {faults, faults + 1},
           NEW u \in Workers \ {w}
    PROVE  CountedBy(worker[u], Step(u))'
<1> DEFINE v == worker[u]
           s == Step(u)
<1>1. worker'[u] = v /\ Step(u)' = s /\ CountedBy(v, s)
  BY Mover DEF Counted
<1> SUFFICES ASSUME s \in Making \cup Renewing PROVE CountedBy(worker[u], Step(u))'
  BY <1>1 DEF CountedBy, Making, Renewing
<1>2. Step(w) \notin Making \cup Renewing
  BY RenewerAlone
<1>3. stores'.keys \in SUBSET stores.keys /\ stores.keys \in SUBSET Keys
  BY <1>2, CountChanges, TypedParts DEF Making, Renewing, StoresTyped
<1>4. stores'.kong \in {stores.kong, None} /\ stores'.access \in {stores.access, None}
  BY <1>2, CountChanges DEF Making
<1>5. v.id # None /\ (s = "newkey" => v.consumer # None)
  <2>1. Carries(v, s) /\ v.id \in Ids
    BY KindAtStep, TypedParts DEF Programmed
  <2>2. QED
    BY <2>1 DEF Carries, Ids, None
<1>6. (Whole' => Whole) /\ (stores'.access # None => stores.access # None /\ stores'.key = stores.key)
  BY <1>2, <1>4, CountChanges DEF Making, Renewing, Whole
<1>7. faults \in Nat /\ faults' \in Nat /\ faults <= faults'
  BY TypedParts DEF CredentialAssumption
<1>8. s = "newkey" /\ Whole' /\ stores'.kong = v.consumer => Cardinality(stores'.keys) <= faults'
  <2> SUFFICES ASSUME s = "newkey", Whole', stores'.kong = v.consumer
               PROVE  Cardinality(stores'.keys) <= faults'
    OBVIOUS
  <2>1. Cardinality(stores.keys) <= faults
    BY <1>1, <1>4, <1>5, <1>6 DEF CountedBy
  <2>2. Cardinality(stores'.keys) \in Nat /\ Cardinality(stores.keys) \in Nat
        /\ Cardinality(stores'.keys) <= Cardinality(stores.keys)
    BY <1>3, FewerKeys
  <2>3. QED
    BY <1>7, <2>1, <2>2
<1>9. s = "relink" /\ Whole' => Cardinality(stores'.keys \ {v.key}) <= faults'
  <2> SUFFICES ASSUME s = "relink", Whole' PROVE Cardinality(stores'.keys \ {v.key}) <= faults'
    OBVIOUS
  <2>1. PICK S \in SUBSET Keys : S = stores.keys \ {v.key}
    BY <1>3
  <2>2. PICK T \in SUBSET S : T = stores'.keys \ {v.key}
    BY <1>3, <2>1
  <2>3. Cardinality(S) <= faults
    BY <1>1, <1>6, <2>1 DEF CountedBy
  <2>4. Cardinality(T) \in Nat /\ Cardinality(S) \in Nat /\ Cardinality(T) <= Cardinality(S)
    BY FewerKeys
  <2>5. Cardinality(T) <= faults'
    BY <1>7, <2>3, <2>4
  <2>6. QED
    BY <2>2, <2>5
<1>10. QED
  BY <1>1, <1>3, <1>4, <1>5, <1>6, <1>8, <1>9 DEF CountedBy

(* A step that is done or throws adds no key that is not counted.             *)
LEMMA CountedGoes ==
    ASSUME Typed, Typed', CredentialAssumption, OneMaker, Drawn, Counted,
           NEW w \in Workers, NEW rec, NEW t, Changes(w, rec, t), faults' \in {faults, faults + 1}
    PROVE  Counted'
<1>1. UNCHANGED env /\ Step(w)' = t
  BY Mover DEF Changes
<1>2. OAuth' <=> OAuth
  BY <1>1 DEF OAuth
<1>3. OAuth => stores'.keys = {}
  BY CountChanges DEF Counted
<1>4. \A u \in Workers : CountedBy(worker[u], Step(u))'
  <2>1. CountedBy(worker[w], t)' <=> CountedBy(worker[w], Step(w))'
    BY <1>1 DEF CountedBy
  <2>2. QED
    BY <2>1, CountedMover, CountedRest
<1>a. stores.keys \in SUBSET Keys /\ stores'.keys \in SUBSET Keys
      /\ faults \in Nat /\ faults' \in Nat /\ faults <= faults'
  <2>1. stores.keys \in SUBSET Keys /\ stores'.keys \in SUBSET Keys
    BY TypedParts DEF StoresTyped, Typed, TypeOK
  <2>2. faults \in Nat
    BY TypedParts DEF CredentialAssumption
  <2>3. QED
    BY <2>1, <2>2
<1>b. ASSUME NEW k, stores'.keys \in SUBSET stores.keys,
             Cardinality(stores.keys \ {k}) <= faults
      PROVE  Cardinality(stores'.keys \ {k}) <= faults'
  <2>1. PICK S \in SUBSET Keys : S = stores.keys \ {k}
    BY <1>a
  <2>2. PICK T \in SUBSET S : T = stores'.keys \ {k}
    BY <1>b, <2>1
  <2>3. Cardinality(T) \in Nat /\ Cardinality(S) \in Nat /\ Cardinality(T) <= Cardinality(S)
    BY FewerKeys
  <2>4. Cardinality(T) <= faults'
    BY <1>a, <1>b, <2>1, <2>3
  <2>5. QED
    BY <2>2, <2>4
<1>5. Whole' /\ ~Relinking' => Cardinality(stores'.keys \ {stores'.key}) <= faults'
  <2> SUFFICES ASSUME Whole', ~Relinking'
               PROVE  Cardinality(stores'.keys \ {stores'.key}) <= faults'
    OBVIOUS
  <2>0. t # "relink"
    BY <1>1 DEF Relinking
  <2>1. CASE /\ Step(w) = "access" /\ stores.kong = worker[w].id
             /\ stores'.key = worker[w].key /\ stores'.keys = stores.keys
    <3>1. stores'.keys \subseteq {stores'.key}
      BY <2>1 DEF Counted, CountedBy
    <3>2. Cardinality(stores'.keys \ {stores'.key}) = 0
      BY <1>a, <3>1, KeyCounts
    <3>3. QED
      BY <1>a, <3>2
  <2>2. CASE /\ Whole /\ stores'.access = stores.access
             /\ Step(w) \notin {"relink"} => stores'.key = stores.key
             /\ Step(w) = "relink" /\ stores.access = worker[w].id =>
                   stores'.key = worker[w].key
    <3>1. stores'.keys \in SUBSET stores.keys
      BY <2>0, <2>2, CountChanges
    <3>2. CASE Step(w) = "relink"
      <4>1. stores.access = worker[w].id /\ Cardinality(stores.keys \ {worker[w].key}) <= faults
        BY <2>2, <3>2 DEF Counted, CountedBy, Renewing, Whole
      <4>2. stores'.key = worker[w].key
        BY <2>2, <3>2, <4>1
      <4>3. QED
        BY <1>b, <3>1, <4>1, <4>2
    <3>3. CASE Step(w) # "relink"
      <4>1. ~Relinking
        BY <3>3, Mover DEF Relinking
      <4>2. Cardinality(stores.keys \ {stores.key}) <= faults
        BY <2>2, <4>1 DEF Counted
      <4>3. QED
        BY <1>b, <2>2, <3>1, <3>3, <4>2
    <3>4. QED
      BY <3>2, <3>3
  <2>3. QED
    BY <2>1, <2>2, CountChanges
<1>6. QED
  BY <1>2, <1>3, <1>4, <1>5 DEF Counted

(* What is started adds no key, and draws a number of its own.              *)
LEMMA CountedStarts ==
    ASSUME Typed, CredentialAssumption, Drawn, Counted, UNCHANGED faults, NEW w \in Workers,
           NEW kind, NEW id, NEW key, NEW s, Starting(w, kind, id, key, s)
    PROVE  Drawn' /\ Counted'
<1>1. PICK rec \in Recs : rec.id = id /\ rec.key = key /\ Moves(w, rec, s)
  BY DEF Starting
<1>2. /\ s \in {"client", "consumer", "find", "locate", "svc", "write"}
      /\ s \in {"find", "locate"} => id = stores.access /\ key = stores.key
      /\ s \in {"client", "consumer"} => id = nextId /\ nextId' = nextId + 1
      /\ Step(w) = "rest" /\ UNCHANGED <<env, stores>>
      /\ \/ id = nextId /\ nextId' = nextId + 1
         \/ id \in {stores.access, None} /\ UNCHANGED nextId
  BY DEF Starting, FirstOfMaking, FirstOfRenewal
<1>3. /\ \A v \in Workers \ {w} : worker'[v] = worker[v] /\ Step(v)' = Step(v)
      /\ Step(w)' = s /\ worker'[w].id = id /\ worker'[w].key = key
  BY <1>1, <1>2, AfterMove
<1>4. /\ OAuth' = OAuth /\ Whole' = Whole
      /\ \A u \in Workers : Step(u) = "relink" => Step(u)' = "relink"
  BY <1>2, <1>3 DEF OAuth, Whole
<1>5. ASSUME NEW u \in Workers PROVE CountedBy(worker[u], Step(u))'
  <2>1. CASE u = w
    BY <1>2, <1>3, <2>1 DEF CountedBy, Renewing
  <2>2. CASE u # w
    BY <1>2, <1>3, <1>4, <2>2 DEF Counted, CountedBy
  <2>3. QED
    BY <2>1, <2>2
<1>6. Counted'
  BY <1>2, <1>4, <1>5 DEF Counted, Relinking
<1>7. nextId \in Nat /\ None < nextId /\ stores.access \in Nat
      /\ \A u \in Workers : worker[u].id \in Nat
  BY TypedParts DEF None, Ids, CredentialAssumption, StoresTyped, Recs
<1>8. ASSUME NEW u \in Workers
      PROVE  /\ worker'[u].id < nextId'
             /\ Step(u)' \in {"client", "consumer", "key"} => worker'[u].id # stores'.access
  <2>1. CASE u = w
    BY <1>2, <1>3, <1>7, <2>1 DEF Drawn
  <2>2. CASE u # w
    BY <1>2, <1>3, <1>7, <2>2 DEF Drawn
  <2>3. QED
    BY <2>1, <2>2
<1>9. Drawn'
  BY <1>2, <1>7, <1>8 DEF Drawn
<1>10. QED
  BY <1>6, <1>9

(* Nor do requests and the sync.                                           *)
LEMMA CountedOthers ==
    ASSUME Typed, Drawn, Counted, UNCHANGED faults,
           \/ \E r \in Requests : CreateRequest(r) \/ Cancel(r)
           \/ FeedRead \/ FeedWrite \/ UNCHANGED vars
    PROVE  Drawn' /\ Counted'
<1>1. /\ UNCHANGED <<env, worker, nextId>> /\ stores'.kong = stores.kong
      /\ stores'.access = stores.access
      /\ stores'.keys = stores.keys /\ stores'.key = stores.key
  BY OthersChange
<1>2. \A v \in Workers : Step(v)' = Step(v) /\ worker'[v] = worker[v]
  BY <1>1 DEF Step
<1>3. OAuth' = OAuth /\ Whole' = Whole /\ Relinking' = Relinking
  BY <1>1, <1>2 DEF OAuth, Whole, Relinking
<1>4. Counted'
  BY <1>1, <1>2, <1>3 DEF Counted, CountedBy
<1>5. Drawn'
  BY <1>1, <1>2 DEF Drawn
<1>6. QED
  BY <1>4, <1>5

(* At first there is nothing to count.                                     *)
LEMMA CountedInit ==
    ASSUME Init, CredentialAssumption
    PROVE  Drawn /\ Counted
<1>1. \A w \in Workers : worker[w] = Idle /\ Step(w) = "rest"
  BY DEF Init, Idle, Step, First
<1>2. Drawn
  BY <1>1 DEF Init, Drawn, Empty, Idle, None
<1>3. Counted
  BY <1>1 DEF Init, Counted, CountedBy, Whole, Empty, Renewing
<1>4. QED
  BY <1>2, <1>3

(* With one maker the keys stay counted, whichever call fails or is cut off.  *)
LEMMA CountedNext ==
    ASSUME Typed, CredentialAssumption, MakersAlone, OneMaker, Drawn, Counted, [Next]_vars
    PROVE  OneMaker' /\ Drawn' /\ Counted'
<1>1. ASSUME NEW w \in Workers, Work(w) \/ Stop(w) PROVE OneMaker' /\ Drawn' /\ Counted'
  <2>1. CASE Silent(w)
    <3>1. OneMaker'
      <4>1. PICK t : Moves(w, worker[w], t)
        BY <2>1 DEF Silent
      <4>2. PICK rec \in Recs : rec = worker[w] /\ Moves(w, rec, t)
        BY <4>1, TypedParts
      <4>3. QED
        BY <4>2, OneMakerKept
    <3>2. QED
      BY <2>1, <3>1, DrawnSilent, CountedSilent
  <2>2. ASSUME NEW rec, NEW t, Changes(w, rec, t) PROVE OneMaker' /\ Drawn' /\ Counted'
    <3>1. Typed' /\ faults' \in {faults, faults + 1}
      BY TypedNext, FaultsGrow
    <3>2. QED
      BY <2>2, <3>1, OneMakerGoes, DrawnGoes, CountedGoes
  <2>3. Goes(w)
    BY <1>1, WorkGoes
  <2>4. QED
    BY <2>1, <2>2, <2>3 DEF Goes
<1>2. ASSUME NEW w \in Workers,
             \/ \E r \in Requests : Collect(w, r) \/ Approve(w, r) \/ Reject(w, r)
             \/ Issue(w) \/ Renew(w) \/ Revoke(w)
      PROVE  OneMaker' /\ Drawn' /\ Counted'
  <2>1. PICK kind, id, key, s : Starting(w, kind, id, key, s)
    BY <1>2, StartsSo
  <2>2. kind \in {"collect", "issue", "renew"} => Resting
    BY <2>1 DEF MakersAlone, Starting
  <2>3. UNCHANGED faults
    BY <1>2 DEF Collect, Approve, Reject, Issue, Renew, Revoke
  <2>4. QED
    BY <2>1, <2>2, <2>3, OneMakerStarts, CountedStarts
<1>3. ASSUME \/ \E r \in Requests : CreateRequest(r) \/ Cancel(r)
             \/ FeedRead \/ FeedWrite \/ UNCHANGED vars
      PROVE  OneMaker' /\ Drawn' /\ Counted'
  <2>1. OneMaker'
    BY <1>3, OthersChange DEF OneMaker
  <2>2. UNCHANGED faults
    BY <1>3 DEF CreateRequest, Cancel, FeedRead, FeedWrite, vars
  <2>3. QED
    BY <1>3, <2>1, <2>2, CountedOthers
<1>4. QED
  BY <1>1, <1>2, <1>3 DEF Next

(* Whose key was replaced cannot use it, as long as collections, issuances    *)
(* and renewals do not overlap each other, whatever was approved or revoked   *)
(* meanwhile: while no failure went unheard, Kong accepts no key but the one  *)
(* that the next renewal will replace.  After failures, heard of or not, and  *)
(* restarts there is at most one key more for each of them.                  *)
THEOREM KeysAreCurrent == MakersAlone => (Spec => []OnlyCurrentKeyWorks)
<1> SUFFICES ASSUME MakersAlone PROVE Spec => []OnlyCurrentKeyWorks
  OBVIOUS
<1> DEFINE Inv == Typed /\ (history.dirty \/ Sound) /\ OneMaker /\ Drawn /\ Counted
<1>1. Init => Inv
  BY TypedInit, SoundInit, CountedInit, CredentialAssumption DEF Sound
<1>2. Inv /\ [Next]_vars => Inv'
  <2> SUFFICES ASSUME Inv, [Next]_vars PROVE Inv'
    OBVIOUS
  <2>1. Typed' /\ OneMaker' /\ Drawn' /\ Counted'
    BY TypedNext, CountedNext, CredentialAssumption
  <2>2. CASE history.dirty
    BY <2>1, <2>2, MarksStay
  <2>3. CASE Sound
    BY <2>1, <2>3, SoundNext, CredentialAssumption
  <2>4. QED
    BY <2>2, <2>3
<1>3. Inv => OnlyCurrentKeyWorks
  <2> SUFFICES ASSUME Inv, Resting, stores.access # None
               PROVE  /\ ~history.dirty => stores.keys \subseteq {stores.key}
                      /\ stores.kong = stores.access =>
                            Cardinality(stores.keys \ {stores.key}) <= faults
    BY DEF OnlyCurrentKeyWorks
  <2>1. \A w \in Workers : Step(w) = "rest"
    BY DEF Resting, Step, First, Idle
  <2>2. ~Leaving /\ ~Relinking
    BY <2>1 DEF Leaving, Relinking
  <2>3. ASSUME ~history.dirty PROVE stores.keys \subseteq {stores.key}
    <3>1. Current
      BY <2>2, <2>3 DEF Sound, Tracked, Owned, Current
    <3>2. QED
      BY <2>2, <2>3, <3>1 DEF Sound, Keyed
  <2>4. stores.kong = stores.access => Cardinality(stores.keys \ {stores.key}) <= faults
    BY <2>2 DEF Counted, Whole
  <2>5. QED
    BY <2>3, <2>4
<1>4. QED
  BY <1>1, <1>2, <1>3, PTL DEF Spec
=============================================================================
