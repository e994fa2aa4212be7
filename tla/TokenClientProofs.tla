------------------------- MODULE TokenClientProofs -------------------------
(***************************************************************************)
(* Proofs about TokenClient, for any number of callers, any lifetimes of    *)
(* tokens and any time, as far as the buffer covers the way of a token from *)
(* the issuer and of a call to the API (TokenAssumption).                   *)
(***************************************************************************)
EXTENDS TokenClient, TLAPS

(* A refresh that is under way.                                             *)
Open(c) == refresh[c].pc \in {"key", "request", "answer"}

(* What a waiting caller takes next.                                        *)
Taken(c) == caller[c].pc = "waiting" /\ refresh[caller[c].from].pc = "done"

(* A token that the issuer gave not long ago.                               *)
Young(token) ==
    /\ token.issued <= now /\ now <= token.issued + MaxLatency
    /\ token.issued + MaxLatency + MaxTransit < token.until

(* The time up to which a token is served comes before its end.             *)
InTime(token) ==
    token.told /\ token.expiresAt # 0 =>
        token.expiresAt + Buffer <= token.until + MaxLatency

(* There is one refresh under way at most, the one that others join.         *)
OneIsOpen == \A c \in Callers : Open(c) <=> inflight = c

AnswersAreYoung == \A c \in Callers : refresh[c].pc = "answer" => Young(refresh[c].token)

TakenAreYoung == \A c \in Callers : Taken(c) => Young(refresh[caller[c].from].token)

KeptInTime ==
    /\ InTime(cache)
    /\ \A c \in Callers : refresh[c].pc = "done" => InTime(refresh[c].token)

UsedInTime ==
    \A c \in Callers : caller[c].pc = "using" =>
        /\ caller[c].since <= now /\ now <= caller[c].since + MaxTransit
        /\ caller[c].token.told => caller[c].since + MaxTransit < caller[c].token.until

Inv ==
    /\ TypeOK /\ OneIsOpen /\ AnswersAreYoung /\ TakenAreYoung
    /\ KeptInTime /\ UsedInTime

-----------------------------------------------------------------------------
(* When the loop is free nobody has a token or an error to take.            *)
LEMMA FreeLoop ==
    ASSUME TypeOK, LoopIsFree, NEW c \in Callers, caller[c].pc = "waiting"
    PROVE  ~Settled(caller[c].from)
BY DEF TypeOK, LoopIsFree, Pending

(* A call that takes a token which is valid long enough.                    *)
LEMMA UseKeeps ==
    ASSUME Inv, NEW c \in Callers, NEW token \in Tokens, Use(c, token),
           token.told => now + MaxTransit < token.until,
           UNCHANGED <<now, key, inflight, refresh>>, cache' \in {cache, token},
           InTime(token)
    PROVE  Inv'
<1>1. \A d \in Callers : d # c => caller'[d] = caller[d]
  BY DEF Use, Inv, TypeOK
<1>2. caller'[c] = [pc |-> "using", from |-> None, token |-> token, since |-> now]
  BY DEF Use, Inv, TypeOK
<1>3. TypeOK'
  BY <1>1, <1>2, TokenAssumption DEF Use, Inv, TypeOK
<1>4. OneIsOpen' /\ AnswersAreYoung'
  BY DEF Inv, OneIsOpen, AnswersAreYoung, Open, Young
<1>5. TakenAreYoung'
  BY <1>1, <1>2 DEF Inv, TakenAreYoung, Taken, Young
<1>6. KeptInTime'
  BY DEF Inv, KeptInTime, InTime
<1>7. UsedInTime'
  <2>1. SUFFICES ASSUME NEW d \in Callers, caller'[d].pc = "using"
        PROVE /\ caller'[d].since <= now /\ now <= caller'[d].since + MaxTransit
              /\ caller'[d].token.told => caller'[d].since + MaxTransit < caller'[d].token.until
    BY DEF UsedInTime
  <2>2. CASE d = c
    BY <1>2, <2>2, TokenAssumption DEF Inv, TypeOK
  <2>3. CASE d # c
    BY <1>1, <2>1, <2>3 DEF Inv, UsedInTime
  <2>4. QED
    BY <2>2, <2>3
<1>8. QED
  BY <1>3, <1>4, <1>5, <1>6, <1>7 DEF Inv

(* The cache serves a token as long as its call, too, ends in time.          *)
LEMMA CachedKeeps ==
    ASSUME Inv, NEW c \in Callers, CallWithCached(c)
    PROVE  Inv'
<1>1. cache \in Tokens /\ InTime(cache)
  BY DEF Inv, TypeOK, KeptInTime
<1>2. cache.told => now + MaxTransit < cache.until
  BY <1>1, TokenAssumption DEF CallWithCached, Tokens, InTime, Inv, TypeOK
<1>3. QED
  BY <1>1, <1>2, UseKeeps DEF CallWithCached

(* A call finds a refresh under way, or starts the only one.                 *)
LEMMA CallKeeps ==
    ASSUME Inv, NEW c \in Callers, Call(c)
    PROVE  Inv'
<1>1. PICK f \in Callers : /\ Wait(c, f) /\ inflight' = f
                           /\ \/ inflight = f /\ UNCHANGED refresh
                              \/ /\ inflight = None /\ ~Pending(c) /\ f = c
                                 /\ refresh' = [refresh EXCEPT ![c] =
                                        [pc |-> "key", token |-> NoToken]]
  BY DEF Call, BeginOrJoin, Begin, Join, Inv, TypeOK
<1>2. UNCHANGED <<now, key, cache>> /\ caller[c].pc = "idle"
  BY DEF Call
<1>3. NoToken \in Tokens
  BY DEF NoToken, Tokens
<1>4. /\ \A d \in Callers : d # c => caller'[d] = caller[d]
      /\ caller'[c] = [pc |-> "waiting", from |-> f, token |-> NoToken, since |-> now]
  BY <1>1 DEF Wait, Inv, TypeOK
<1>5. /\ refresh'[f].pc \in {"key", "request", "answer"}
      /\ \A d \in Callers : d # f => refresh'[d] = refresh[d]
      /\ refresh'[f].pc = "answer" => refresh'[f] = refresh[f]
  BY <1>1 DEF Inv, TypeOK, OneIsOpen, Open
<1>6. TypeOK'
  BY <1>1, <1>2, <1>3, <1>4 DEF Wait, Inv, TypeOK
<1>7. OneIsOpen'
  BY <1>1, <1>5, TokenAssumption DEF Inv, OneIsOpen, Open
<1>8. AnswersAreYoung'
  BY <1>2, <1>5 DEF Inv, AnswersAreYoung, Young
<1>9. TakenAreYoung'
  <2>1. SUFFICES ASSUME NEW d \in Callers, Taken(d)'
                 PROVE  Young(refresh[caller[d].from].token)'
    BY DEF TakenAreYoung
  <2>2. d # c /\ caller'[d].from # f
    BY <1>4, <1>5, <2>1 DEF Taken
  <2>3. caller'[d] = caller[d] /\ caller[d].from \in Callers
        /\ refresh'[caller[d].from] = refresh[caller[d].from]
    BY <1>4, <1>5, <2>1, <2>2 DEF Inv, TypeOK, Taken
  <2>4. QED
    BY <1>2, <2>1, <2>3 DEF Inv, TakenAreYoung, Taken, Young
<1>10. KeptInTime'
  BY <1>2, <1>5 DEF Inv, KeptInTime, InTime
<1>11. UsedInTime'
  BY <1>2, <1>4 DEF Inv, UsedInTime
<1>12. QED
  BY <1>6, <1>7, <1>8, <1>9, <1>10, <1>11 DEF Inv

-----------------------------------------------------------------------------
(* A refresh that is under way goes on, or ends in a failure.               *)
LEMMA RefreshKeeps ==
    ASSUME Inv, NEW c \in Callers, LoopIsFree, Open(c),
           NEW new \in [pc : {"key", "request", "answer", "done", "failed"}, token : Tokens],
           refresh' = [refresh EXCEPT ![c] = new],
           inflight' = IF new.pc \in {"done", "failed"} THEN None ELSE inflight,
           UNCHANGED <<now, cache, caller>>, key' \in {"unread", "held", "lost"},
           new.pc \in {"answer", "done"} => Young(new.token),
           new.pc = "done" => InTime(new.token)
    PROVE  Inv'
<1>1. refresh'[c] = new /\ \A d \in Callers : d # c => refresh'[d] = refresh[d]
  BY DEF Inv, TypeOK
<1>2. inflight = c /\ \A d \in Callers : d # c => ~Open(d)
  BY DEF Inv, OneIsOpen
<1>3. TypeOK'
  BY DEF Inv, TypeOK
<1>4. OneIsOpen'
  BY <1>1, <1>2, TokenAssumption DEF OneIsOpen, Open
<1>5. AnswersAreYoung'
  BY <1>1 DEF Inv, AnswersAreYoung, Young
<1>6. TakenAreYoung'
  <2>1. SUFFICES ASSUME NEW d \in Callers, Taken(d)'
                 PROVE  Young(refresh[caller[d].from].token)'
    BY DEF TakenAreYoung
  <2>2. caller[d].pc = "waiting" /\ caller[d].from \in Callers
    BY <2>1 DEF Taken, Inv, TypeOK
  <2>3. ~Settled(caller[d].from)
    BY <2>2, FreeLoop DEF Inv
  <2>4. caller[d].from = c
    BY <1>1, <2>1, <2>2, <2>3 DEF Taken, Settled
  <2>5. QED
    BY <1>1, <2>1, <2>4 DEF Taken, Young
<1>7. KeptInTime'
  BY <1>1 DEF Inv, KeptInTime, InTime
<1>8. UsedInTime'
  BY DEF Inv, UsedInTime
<1>9. QED
  BY <1>3, <1>4, <1>5, <1>6, <1>7, <1>8 DEF Inv

(* A key read or not: the refresh goes on to its request or fails.          *)
LEMMA LoadKeyKeeps ==
    ASSUME Inv, NEW c \in Callers, LoadKey(c)
    PROVE  Inv'
<1>1. refresh[c].token \in Tokens /\ NoToken \in Tokens
  BY DEF Inv, TypeOK, NoToken, Tokens
<1>2. inflight = c /\ Open(c) /\ LoopIsFree
  BY DEF LoadKey, Open, Inv, OneIsOpen
<1>3. CASE /\ key' = "held" /\ UNCHANGED inflight
           /\ refresh' = [refresh EXCEPT ![c].pc = "request"]
  <2>1. refresh' = [refresh EXCEPT ![c] = [pc |-> "request", token |-> refresh[c].token]]
    <3>1. /\ refresh[c] \in [pc : {"none", "key", "request", "answer", "done", "failed"},
                             token : Tokens]
          /\ refresh \in [Callers -> [pc : {"none", "key", "request", "answer", "done", "failed"},
                                      token : Tokens]]
      BY DEF Inv, TypeOK
    <3>2. [refresh[c] EXCEPT !.pc = "request"] = [pc |-> "request", token |-> refresh[c].token]
      BY <3>1
    <3>3. refresh' = [refresh EXCEPT ![c] = [refresh[c] EXCEPT !.pc = "request"]]
      BY <1>3, <3>1, Zenon
    <3>4. QED
      BY <3>2, <3>3
  <2>2. QED
    BY <1>1, <1>2, <1>3, <2>1, RefreshKeeps DEF LoadKey
<1>4. CASE key' = "lost" /\ Settle(c, "failed", NoToken)
  BY <1>1, <1>2, <1>4, RefreshKeeps DEF LoadKey, Settle, Forgotten
<1>5. QED
  BY <1>3, <1>4 DEF LoadKey

(* A token is young when it is issued.                                      *)
LEMMA IssueKeeps ==
    ASSUME Inv, NEW c \in Callers, Issue(c)
    PROVE  Inv'
<1>1. PICK life \in Lifetimes, told \in BOOLEAN :
         refresh' = [refresh EXCEPT ![c] = [pc |-> "answer",
             token |-> [issued |-> now, until |-> now + life, told |-> told,
                        expiresAt |-> 0]]]
  BY DEF Issue
<1> DEFINE token == [issued |-> now, until |-> now + life, told |-> told, expiresAt |-> 0]
<1>2. token \in Tokens /\ Young(token)
  BY TokenAssumption DEF Tokens, Young, Inv, TypeOK
<1>3. Open(c) /\ LoopIsFree /\ UNCHANGED <<now, key, cache, inflight, caller>>
  BY DEF Issue, Open
<1>4. key' \in {"unread", "held", "lost"}
  BY <1>3 DEF Inv, TypeOK
<1> HIDE DEF token
<1>5. QED
  BY <1>1, <1>2, <1>3, <1>4, RefreshKeeps DEF token

(* A refusal ends the refresh.                                              *)
LEMMA RefuseKeeps ==
    ASSUME Inv, NEW c \in Callers, Refuse(c)
    PROVE  Inv'
<1>1. NoToken \in Tokens /\ key' \in {"unread", "held", "lost"}
  BY DEF Refuse, Inv, TypeOK, NoToken, Tokens
<1>2. inflight = c /\ Open(c) /\ LoopIsFree
  BY DEF Refuse, Open, Inv, OneIsOpen
<1>3. QED
  BY <1>1, <1>2, RefreshKeeps DEF Refuse, Settle, Forgotten

(* A token that arrives is kept no longer than the buffer allows.            *)
LEMMA ReceiveKeeps ==
    ASSUME Inv, NEW c \in Callers, Receive(c)
    PROVE  Inv'
<1> DEFINE old == refresh[c].token
           new == [old EXCEPT !.expiresAt = ExpiresAt(old)]
<1>1. old \in Tokens /\ key' \in {"unread", "held", "lost"} /\ now \in Nat
  BY DEF Receive, Inv, TypeOK
<1>2. inflight = c /\ Open(c) /\ LoopIsFree
  BY DEF Receive, Open, Inv, OneIsOpen
<1>3. Young(old)
  BY DEF Receive, Inv, AnswersAreYoung
<1>4. /\ new.issued = old.issued /\ new.until = old.until /\ new.told = old.told
      /\ new.expiresAt = ExpiresAt(old)
  BY <1>1 DEF Tokens
<1>5. ExpiresIn(old) \in Nat
  BY <1>1, <1>3, TokenAssumption DEF ExpiresIn, Tokens, Young
<1>6. ExpiresAt(old) \in Nat
  BY <1>1, <1>5, TokenAssumption DEF ExpiresAt
<1>7. new \in Tokens
  BY <1>1, <1>6 DEF Tokens
<1>8. Young(new)
  BY <1>3, <1>4 DEF Young
<1>9. InTime(new)
  BY <1>1, <1>3, <1>4, <1>5, TokenAssumption
     DEF InTime, ExpiresAt, ExpiresIn, Young, Tokens
<1> HIDE DEF new, old
<1>10. refresh' = [refresh EXCEPT ![c] = [pc |-> "done", token |-> new]]
       /\ inflight' = None /\ UNCHANGED <<now, cache, caller>>
  BY <1>2 DEF Receive, Settle, Forgotten, new, old
<1>11. QED
  BY <1>1, <1>2, <1>7, <1>8, <1>9, <1>10, RefreshKeeps

-----------------------------------------------------------------------------
(* A caller that gets its token uses it while it is young.                  *)
LEMMA ResumeKeeps ==
    ASSUME Inv, NEW c \in Callers, Resume(c)
    PROVE  Inv'
<1> DEFINE token == refresh[caller[c].from].token
<1>1. caller[c].from \in Callers /\ token \in Tokens
  BY DEF Resume, Inv, TypeOK
<1>2. Young(token) /\ InTime(token)
  BY <1>1 DEF Resume, Inv, TakenAreYoung, Taken, KeptInTime
<1>3. now + MaxTransit < token.until
  BY <1>1, <1>2, TokenAssumption DEF Young, Tokens, Inv, TypeOK
<1>4. Use(c, token) /\ cache' = token /\ UNCHANGED <<now, key, inflight, refresh>>
  BY DEF Resume
<1> HIDE DEF token
<1>5. QED
  BY <1>1, <1>2, <1>3, <1>4, UseKeeps

(* A caller that throws, or has its answer, leaves everything else alone.    *)
LEMMA LeaveKeeps ==
    ASSUME Inv, NEW c \in Callers, Throw(c) \/ Finish(c)
    PROVE  Inv'
<1>1. caller' = [caller EXCEPT ![c] = IdleCall] /\ UNCHANGED <<now, key, cache, inflight, refresh>>
  BY DEF Throw, Finish
<1>2. caller'[c] = IdleCall /\ \A d \in Callers : d # c => caller'[d] = caller[d]
  BY <1>1 DEF Inv, TypeOK
<1>3. TypeOK'
  BY <1>1, <1>2 DEF Inv, TypeOK, IdleCall, NoToken, Tokens
<1>4. OneIsOpen' /\ AnswersAreYoung' /\ KeptInTime'
  BY <1>1 DEF Inv, OneIsOpen, AnswersAreYoung, KeptInTime, Open, Young, InTime
<1>5. TakenAreYoung' /\ UsedInTime'
  BY <1>1, <1>2 DEF Inv, TakenAreYoung, UsedInTime, Taken, Young, IdleCall
<1>6. QED
  BY <1>3, <1>4, <1>5 DEF Inv

(* Time passes only while tokens that are under way may be.                  *)
LEMMA TickKeeps ==
    ASSUME Inv, Tick
    PROVE  Inv'
<1>1. now' = now + 1 /\ UNCHANGED <<key, cache, inflight, refresh, caller>>
  BY DEF Tick
<1>2. TypeOK'
  BY <1>1 DEF Inv, TypeOK
<1>3. OneIsOpen' /\ KeptInTime'
  BY <1>1 DEF Inv, OneIsOpen, KeptInTime, Open, InTime
<1>4. AnswersAreYoung'
  <2>1. SUFFICES ASSUME NEW c \in Callers, refresh[c].pc = "answer"
                 PROVE  Young(refresh[c].token)'
    BY <1>1 DEF AnswersAreYoung
  <2>2. Young(refresh[c].token) /\ now < refresh[c].token.issued + MaxLatency
        /\ refresh[c].token \in Tokens
    BY <2>1 DEF Inv, AnswersAreYoung, Tick, TypeOK
  <2>3. QED
    BY <1>1, <2>2, TokenAssumption DEF Young, Tokens, Inv, TypeOK
<1>5. TakenAreYoung'
  <2>1. SUFFICES ASSUME NEW c \in Callers, Taken(c) PROVE FALSE
    BY <1>1 DEF TakenAreYoung, Taken
  <2>2. QED
    BY <2>1, FreeLoop DEF Taken, Settled, Tick, Inv
<1>6. UsedInTime'
  <2>1. SUFFICES ASSUME NEW c \in Callers, caller[c].pc = "using"
        PROVE /\ caller[c].since <= now + 1 /\ now + 1 <= caller[c].since + MaxTransit
              /\ caller[c].token.told => caller[c].since + MaxTransit < caller[c].token.until
    BY <1>1 DEF UsedInTime
  <2>2. now < caller[c].since + MaxTransit /\ caller[c].since \in Nat /\ now \in Nat
    BY <2>1 DEF Tick, Inv, TypeOK
  <2>3. QED
    BY <2>1, <2>2, TokenAssumption DEF Inv, UsedInTime
<1>7. QED
  BY <1>2, <1>3, <1>4, <1>5, <1>6 DEF Inv

-----------------------------------------------------------------------------
(* Nothing is under way at first.                                           *)
LEMMA InitHolds == Init => Inv
<1>1. NoToken \in Tokens /\ NoToken.told = FALSE
  BY DEF NoToken, Tokens
<1>2. SUFFICES ASSUME Init PROVE Inv
  OBVIOUS
<1>3. /\ \A c \in Callers : refresh[c].pc = "none" /\ caller[c].pc = "idle"
      /\ inflight = None
  BY <1>2 DEF Init, NoRefresh, IdleCall
<1>4. TypeOK
  BY <1>1, <1>2 DEF TypeOK, Init, NoRefresh, IdleCall
<1>5. OneIsOpen
  BY <1>3, TokenAssumption DEF OneIsOpen, Open
<1>6. AnswersAreYoung /\ TakenAreYoung /\ UsedInTime
  BY <1>3 DEF AnswersAreYoung, TakenAreYoung, UsedInTime, Taken
<1>7. KeptInTime
  BY <1>1, <1>2, <1>3 DEF KeptInTime, InTime, Init
<1>8. QED
  BY <1>4, <1>5, <1>6, <1>7 DEF Inv

(* Every step of a caller, of a refresh or of the clock keeps the invariant. *)
LEMMA NextKeeps == Inv /\ [Next]_vars => Inv'
<1>1. SUFFICES ASSUME Inv, [Next]_vars PROVE Inv'
  OBVIOUS
<1>2. CASE UNCHANGED vars
  BY <1>1, <1>2 DEF vars, Inv, TypeOK, OneIsOpen, AnswersAreYoung, TakenAreYoung,
     KeptInTime, UsedInTime, Open, Taken, Young, InTime
<1>3. CASE Tick
  BY <1>1, <1>3, TickKeeps
<1>4. ASSUME NEW c \in Callers, CallWithCached(c) \/ Call(c) \/ Work(c)
      PROVE  Inv'
  BY <1>1, <1>4, CachedKeeps, CallKeeps, LoadKeyKeeps, IssueKeeps, RefuseKeeps,
     ReceiveKeeps, ResumeKeeps, LeaveKeeps DEF Work
<1>5. QED
  BY <1>1, <1>2, <1>3, <1>4 DEF Next

(* What the theorems below rest on: one refresh at a time, and tokens that   *)
(* are young when they are taken and in time when they are cached.           *)
THEOREM InvHolds == Spec => []Inv
BY InitHolds, NextKeeps, PTL DEF Spec

(* The cache, the refreshes and the calls have their types, and whoever      *)
(* waits waits for a caller's refresh.                                      *)
THEOREM TypeCorrect == Spec => []TypeOK
<1>1. Inv => TypeOK
  BY DEF Inv
<1>2. QED
  BY <1>1, InvHolds, PTL

(* A token that a call carries, whether it was cached or just received, does *)
(* not expire before the API has seen it.                                   *)
THEOREM ServedValid == Spec => []ServedIsValid
<1>1. Inv => ServedIsValid
  <2>1. SUFFICES ASSUME Inv, NEW c \in Callers, caller[c].pc = "using", caller[c].token.told
                 PROVE  now < caller[c].token.until
    BY DEF ServedIsValid
  <2>2. now <= caller[c].since + MaxTransit /\ caller[c].since + MaxTransit < caller[c].token.until
    BY <2>1 DEF Inv, UsedInTime
  <2>3. now \in Nat /\ caller[c].since \in Nat /\ caller[c].token \in Tokens
    BY <2>1 DEF Inv, TypeOK
  <2>4. QED
    BY <2>2, <2>3, TokenAssumption DEF Tokens
<1>2. QED
  BY <1>1, InvHolds, PTL

(* Only a refresh that is under way gets a new caller: errors and tokens of  *)
(* earlier refreshes are not kept for later calls.                          *)
THEOREM SettledNotShared == Spec => SettledIsNotShared
<1> DEFINE Step == \A c \in Callers : caller[c].pc # "waiting" /\ caller'[c].pc = "waiting" =>
                      refresh'[caller'[c].from].pc \notin {"done", "failed"}
<1>1. Inv /\ [Next]_vars => [Step]_vars
  <2>1. SUFFICES ASSUME Inv, Next, NEW c \in Callers, caller[c].pc # "waiting",
                        caller'[c].pc = "waiting"
                 PROVE  refresh'[caller'[c].from].pc \notin {"done", "failed"}
    OBVIOUS
  <2>2. PICK d \in Callers : CallWithCached(d) \/ Call(d) \/ Work(d)
    BY <2>1 DEF Next, Tick
  <2>3. ~CallWithCached(d) /\ ~Work(d)
    BY <2>1 DEF Inv, TypeOK, CallWithCached, Use, Work, LoadKey, Issue, Refuse, Receive,
       Resume, Throw, Finish, IdleCall
  <2>4. Call(d)
    BY <2>2, <2>3
  <2>5. PICK f \in Callers : /\ Wait(d, f)
                             /\ \/ inflight = f /\ UNCHANGED refresh
                                \/ refresh' = [refresh EXCEPT ![f] =
                                       [pc |-> "key", token |-> NoToken]]
    BY <2>1, <2>4 DEF Call, BeginOrJoin, Begin, Join, Inv, TypeOK
  <2>6. caller'[c].from = f
    BY <2>1, <2>5 DEF Wait, Inv, TypeOK
  <2>7. QED
    BY <2>1, <2>5, <2>6 DEF Inv, TypeOK, OneIsOpen, Open
<1>2. QED
  BY <1>1, InvHolds, PTL DEF Spec, SettledIsNotShared

-----------------------------------------------------------------------------
(* Nothing is newer than the present, what is under way is not older than    *)
(* what is kept, and whoever takes a token now takes the same one.           *)
Newer ==
    /\ cache.issued <= now
    /\ \A c \in Callers : refresh[c].pc = "answer" => cache.issued <= refresh[c].token.issued
    /\ \A c \in Callers : Taken(c) =>
          /\ cache.issued <= refresh[caller[c].from].token.issued
          /\ \A d \in Callers : refresh[d].pc # "answer"
          /\ \A d \in Callers : Taken(d) => caller[d].from = caller[c].from

(* While the loop is free nobody takes a token.                             *)
LEMMA FreeLoopTakesNothing ==
    ASSUME Inv, LoopIsFree
    PROVE  \A c \in Callers : ~Taken(c)
BY FreeLoop DEF Inv, Taken, Settled

(* A refresh goes on while nobody takes a token, and there is only one, so   *)
(* that those who take a token after it take the one it has brought.         *)
LEMMA RefreshIsNewer ==
    ASSUME Inv, Inv', Newer, NEW c \in Callers,
           LoadKey(c) \/ Issue(c) \/ Refuse(c) \/ Receive(c)
    PROVE  Newer'
<1>1. /\ LoopIsFree /\ inflight = c /\ UNCHANGED <<now, cache, caller>>
      /\ \A d \in Callers : d # c => refresh'[d] = refresh[d]
  BY DEF LoadKey, Issue, Refuse, Receive, Settle, Inv, TypeOK, OneIsOpen, Open
<1>2. \A d \in Callers : ~Taken(d)
  BY <1>1, FreeLoopTakesNothing
<1>3. \A d \in Callers : d # c => refresh'[d].pc # "answer"
  BY <1>1 DEF Inv, OneIsOpen, Open
<1>4. \A d \in Callers : Taken(d)' => caller'[d].from = c
  BY <1>1, <1>2 DEF Taken, Inv, TypeOK
<1>5. refresh'[c].pc \in {"answer", "done"} => cache.issued <= refresh'[c].token.issued
  <2>1. CASE LoadKey(c)
    BY <2>1 DEF LoadKey, Settle, Inv, TypeOK
  <2>2. CASE Issue(c)
    BY <2>2 DEF Issue, Inv, TypeOK, Newer
  <2>3. CASE Refuse(c)
    BY <2>3 DEF Refuse, Settle, Inv, TypeOK
  <2>4. CASE Receive(c)
    <3>1. refresh[c] \in [pc : {"none", "key", "request", "answer", "done", "failed"},
                          token : Tokens]
      BY DEF Inv, TypeOK
    <3>2. refresh'[c].token = [refresh[c].token EXCEPT !.expiresAt = ExpiresAt(refresh[c].token)]
      BY <2>4 DEF Receive, Settle, Inv, TypeOK
    <3>3. refresh'[c].token.issued = refresh[c].token.issued
      BY <3>1, <3>2 DEF Tokens
    <3>4. QED
      BY <2>4, <3>3 DEF Receive, Newer
  <2>5. QED
    BY <2>1, <2>2, <2>3, <2>4
<1>6. ASSUME NEW d \in Callers, Taken(d)'
      PROVE  refresh'[c].pc = "done"
  BY <1>4, <1>6 DEF Taken
<1>7. QED
  BY <1>1, <1>3, <1>4, <1>5, <1>6 DEF Newer, Taken

(* A caller that takes its token leaves the others the same one to take.     *)
LEMMA ResumeIsNewer ==
    ASSUME Inv, Newer, NEW c \in Callers, Resume(c)
    PROVE  Newer' /\ cache.issued <= cache'.issued
<1>1. Taken(c) /\ cache' = refresh[caller[c].from].token /\ UNCHANGED <<now, refresh>>
  BY DEF Resume, Taken
<1>2. \A d \in Callers : Taken(d)' => Taken(d) /\ caller'[d].from = caller[d].from
  BY DEF Resume, Use, Taken, Inv, TypeOK
<1>3. cache'.issued <= now
  BY <1>1 DEF Inv, TakenAreYoung, Young
<1>4. cache' \in Tokens
  BY <1>1 DEF Inv, TypeOK, Taken
<1>5. ASSUME NEW d \in Callers, Taken(d)'
      PROVE  cache'.issued <= refresh'[caller'[d].from].token.issued
  BY <1>1, <1>2, <1>4, <1>5 DEF Newer, Tokens
<1>6. QED
  BY <1>1, <1>2, <1>3, <1>5 DEF Newer

(* A call takes nothing yet, one that leaves takes nothing more, and time    *)
(* makes nothing older than the cache.                                      *)
LEMMA OthersAreNewer ==
    ASSUME Inv, Newer, NEW c \in Callers,
           CallWithCached(c) \/ Call(c) \/ Throw(c) \/ Finish(c) \/ Tick
    PROVE  Newer' /\ cache' = cache
<1>1. cache' = cache /\ now' >= now
  BY DEF CallWithCached, Call, Throw, Finish, Tick, Inv, TypeOK
<1>2. \A d \in Callers : refresh'[d].pc \in {"answer", "done"} => refresh'[d] = refresh[d]
  BY DEF CallWithCached, Call, BeginOrJoin, Begin, Join, Throw, Finish, Tick, Inv, TypeOK
<1>3. \A d \in Callers : Taken(d)' => Taken(d) /\ caller'[d].from = caller[d].from
  <2>1. CASE Call(c)
    <3>1. PICK f \in Callers : Wait(c, f) /\ refresh'[f].pc \notin {"done", "failed"}
      BY <2>1 DEF Call, BeginOrJoin, Begin, Join, Inv, TypeOK, OneIsOpen, Open
    <3>2. ~Taken(c)'
      BY <3>1 DEF Wait, Taken, Inv, TypeOK
    <3>3. \A d \in Callers : d # c => caller'[d] = caller[d]
      BY <3>1 DEF Wait, Inv, TypeOK
    <3>4. QED
      BY <1>2, <3>2, <3>3 DEF Taken, Inv, TypeOK
  <2>2. CASE CallWithCached(c) \/ Throw(c) \/ Finish(c)
    BY <2>2 DEF CallWithCached, Use, Throw, Finish, IdleCall, Taken, Inv, TypeOK
  <2>3. CASE Tick
    BY <2>3 DEF Tick, Taken
  <2>4. QED
    BY <2>1, <2>2, <2>3
<1>4. cache.issued <= now'
  BY <1>1 DEF Newer, Tick, CallWithCached, Call, Throw, Finish, Inv, TypeOK, Tokens
<1>5. QED
  BY <1>1, <1>2, <1>3, <1>4 DEF Newer, Taken, Inv, TypeOK

(* What a caller puts in the cache is not older than what it replaces.       *)
LEMMA NewerSteps == Inv /\ Inv' /\ Newer /\ [Next]_vars => Newer' /\ cache'.issued >= cache.issued
<1>1. SUFFICES ASSUME Inv, Inv', Newer, [Next]_vars
               PROVE  Newer' /\ cache'.issued >= cache.issued
  OBVIOUS
<1>2. cache.issued \in Nat /\ cache'.issued \in Nat
  BY <1>1 DEF Inv, TypeOK, Tokens
<1>3. CASE UNCHANGED vars
  BY <1>1, <1>2, <1>3 DEF vars, Newer, Taken
<1>4. CASE \E c \in Callers : LoadKey(c) \/ Issue(c) \/ Refuse(c) \/ Receive(c)
  <2>1. cache' = cache
    BY <1>4 DEF LoadKey, Issue, Refuse, Receive
  <2>2. QED
    BY <1>1, <1>2, <1>4, <2>1, RefreshIsNewer
<1>5. CASE \E c \in Callers : Resume(c)
  BY <1>1, <1>2, <1>5, ResumeIsNewer
<1>6. CASE \E c \in Callers :
               CallWithCached(c) \/ Call(c) \/ Throw(c) \/ Finish(c)
  BY <1>1, <1>2, <1>6, OthersAreNewer
<1>7. CASE Tick
  <2>1. CASE Callers = {}
    BY <1>1, <1>2, <1>7, <2>1 DEF Tick, Newer, Inv, TypeOK
  <2>2. CASE Callers # {}
    BY <1>1, <1>2, <1>7, <2>2, OthersAreNewer
  <2>3. QED
    BY <2>1, <2>2
<1>8. QED
  BY <1>1, <1>3, <1>4, <1>5, <1>6, <1>7 DEF Next, Work

(* Callers that go on late, one after the other, do not put an old token in  *)
(* the place of a newer one.                                                *)
THEOREM CacheNotSetBack == Spec => CacheIsNotSetBack
<1>1. Init => Newer
  BY DEF Init, Newer, NoRefresh, IdleCall, NoToken, Taken
<1>2. Inv /\ Inv' /\ Newer /\ [Next]_vars => Newer'
  BY NewerSteps
<1>3. Inv /\ Inv' /\ Newer /\ [Next]_vars => [cache'.issued >= cache.issued]_vars
  BY NewerSteps
<1>4. QED
  BY <1>1, <1>2, <1>3, InvHolds, PTL DEF Spec, CacheIsNotSetBack
=============================================================================
