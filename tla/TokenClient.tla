---------------------------- MODULE TokenClient ----------------------------
(***************************************************************************)
(* The provisioner's client for an API behind OAuth: getToken keeps one     *)
(* token, and callers that find it expired share one refresh.  The code     *)
(* runs on one event loop: a call runs up to its `await', and when a        *)
(* refresh is settled its callers go on one after the other before the loop *)
(* takes the next answer from the network.  Time is in whole seconds.       *)
(***************************************************************************)
EXTENDS Naturals

CONSTANTS
    Callers,     \* the calls of the API that may be under way
    None,        \* no caller
    Buffer,      \* REFRESH_BUFFER_SECONDS
    Default,     \* the lifetime taken for granted when none is told
    Lifetimes,   \* the lifetimes the issuer may give a token
    MaxLatency,  \* bound on the time a token takes from the issuer
    MaxTransit,  \* bound on the time a call takes to the API
    MaxTime      \* bound on the time

ASSUME TokenAssumption ==
    /\ None \notin Callers
    /\ Buffer \in Nat /\ Default \in Nat /\ MaxTime \in Nat
    /\ MaxLatency \in Nat /\ MaxTransit \in Nat
    /\ MaxLatency + MaxTransit <= Buffer
    /\ Lifetimes \subseteq Nat
    /\ \A life \in Lifetimes : MaxLatency + MaxTransit < life

VARIABLES
    now,       \* Date.now() in seconds
    key,       \* the signing key: not read yet, held, or failed to load
    cache,     \* the token kept
    inflight,  \* the caller whose refresh others join
    refresh,   \* refresh[c]: the refresh that caller c started last
    caller     \* caller[c]: the progress of a call

vars == <<now, key, cache, inflight, refresh, caller>>

Time == 0..MaxTime

(* expiresAt is what the client computes, until is when the issuer and the   *)
(* API let the token expire; told: the issuer told how long it lives.        *)
NoToken == [issued |-> 0, until |-> 0, told |-> FALSE, expiresAt |-> 0]

NoRefresh == [pc |-> "none", token |-> NoToken]
IdleCall == [pc |-> "idle", from |-> None, token |-> NoToken, since |-> 0]

Settled(c) == refresh[c].pc \in {"done", "failed"}

(* A caller whose refresh is settled goes on before anything else happens.   *)
Pending(f) == \E c \in Callers : caller[c].pc = "waiting" /\ caller[c].from = f /\ Settled(f)
LoopIsFree == \A f \in Callers : ~Pending(f)

-----------------------------------------------------------------------------
Use(c, token) ==
    caller' = [caller EXCEPT ![c] =
        [pc |-> "using", from |-> None, token |-> token, since |-> now]]

(* The cached token: nothing is cached when it has no expiry.                *)
CallWithCached(c) ==
    /\ caller[c].pc = "idle"
    /\ cache.expiresAt > now
    /\ Use(c, cache)
    /\ UNCHANGED <<now, key, cache, inflight, refresh>>

(* Fault: a caller waits for what was in flight before it called.            *)
WaitForEarlier(c, f) ==
    caller' = [caller EXCEPT ![c] =
        [pc |-> "waiting", from |-> inflight, token |-> NoToken, since |-> now]]

Wait(c, f) ==
    caller' = [caller EXCEPT ![c] =
        [pc |-> "waiting", from |-> f, token |-> NoToken, since |-> now]]

Join(c) ==
    /\ inflight # None
    /\ Wait(c, inflight)
    /\ UNCHANGED <<inflight, refresh>>

(* A caller's own refresh is over when it calls again.                      *)
Begin(c) ==
    /\ ~Pending(c)
    /\ Wait(c, c)
    /\ inflight' = c
    /\ refresh' = [refresh EXCEPT ![c] = [pc |-> "key", token |-> NoToken]]

(* Fault: a caller starts a refresh whether or not there is one.             *)
BeginOrJoinUnshared(c) == Begin(c)

(* inflight ??= refresh()                                                   *)
BeginOrJoin(c) == Join(c) \/ (inflight = None /\ Begin(c))

Call(c) ==
    /\ caller[c].pc = "idle"
    /\ cache.expiresAt <= now
    /\ BeginOrJoin(c)
    /\ UNCHANGED <<now, key, cache>>

-----------------------------------------------------------------------------
(* Fault: only a refresh that succeeds is forgotten.                         *)
ForgottenOnSuccess(c, result) ==
    IF inflight = c /\ result = "done" THEN None ELSE inflight

(* `finally': the refresh is forgotten whatever its result.                  *)
Forgotten(c, result) == IF inflight = c THEN None ELSE inflight

Settle(c, result, token) ==
    /\ refresh' = [refresh EXCEPT ![c] = [pc |-> result, token |-> token]]
    /\ inflight' = Forgotten(c, result)

(* keyPromise ??= loadJwsKeyFromJwk(): a promise that was rejected is kept.  *)
LoadKey(c) ==
    /\ refresh[c].pc = "key" /\ LoopIsFree
    /\ \/ /\ key \in {"unread", "held"}
          /\ key' = "held"
          /\ refresh' = [refresh EXCEPT ![c].pc = "request"]
          /\ UNCHANGED inflight
       \/ /\ key \in {"unread", "lost"}
          /\ key' = "lost"
          /\ Settle(c, "failed", NoToken)
    /\ UNCHANGED <<now, cache, caller>>

(* The issuer answers with a token, which is on its way.                     *)
Issue(c) ==
    /\ refresh[c].pc = "request" /\ LoopIsFree
    /\ \E life \in Lifetimes, told \in BOOLEAN :
          refresh' = [refresh EXCEPT ![c] = [pc |-> "answer",
              token |-> [issued |-> now, until |-> now + life, told |-> told,
                         expiresAt |-> 0]]]
    /\ UNCHANGED <<now, key, cache, inflight, caller>>

(* Fault: a refresh that fails is tried again, whoever waits for it.         *)
RefuseRetried(c) ==
    /\ refresh[c].pc = "request" /\ LoopIsFree
    /\ refresh' = [refresh EXCEPT ![c].pc = "key"]
    /\ UNCHANGED <<now, key, cache, inflight, caller>>

(* The issuer refuses, or cannot be reached.                                *)
Refuse(c) ==
    /\ refresh[c].pc = "request" /\ LoopIsFree
    /\ Settle(c, "failed", NoToken)
    /\ UNCHANGED <<now, key, cache, caller>>

ExpiresIn(token) == IF token.told THEN token.until - token.issued ELSE Default

(* Fault: the token is kept for as long as it lives.                         *)
ExpiresAtUnbuffered(token) == now + ExpiresIn(token)

(* A token that lives no longer than the buffer is never taken from the      *)
(* cache; a difference below 0 is as good as 0.                             *)
ExpiresAt(token) ==
    IF now + ExpiresIn(token) <= Buffer THEN 0 ELSE now + ExpiresIn(token) - Buffer

Receive(c) ==
    /\ refresh[c].pc = "answer" /\ LoopIsFree
    /\ Settle(c, "done", [refresh[c].token EXCEPT !.expiresAt = ExpiresAt(refresh[c].token)])
    /\ UNCHANGED <<now, key, cache, caller>>

(* cache = await inflight: every caller of the refresh assigns it.           *)
Resume(c) ==
    LET f == caller[c].from IN
    /\ caller[c].pc = "waiting"
    /\ refresh[f].pc = "done"
    /\ cache' = refresh[f].token
    /\ Use(c, refresh[f].token)
    /\ UNCHANGED <<now, key, inflight, refresh>>

Throw(c) ==
    /\ caller[c].pc = "waiting"
    /\ refresh[caller[c].from].pc = "failed"
    /\ caller' = [caller EXCEPT ![c] = IdleCall]
    /\ UNCHANGED <<now, key, cache, inflight, refresh>>

(* The API has seen the token.                                              *)
Finish(c) ==
    /\ caller[c].pc = "using"
    /\ caller' = [caller EXCEPT ![c] = IdleCall]
    /\ UNCHANGED <<now, key, cache, inflight, refresh>>

-----------------------------------------------------------------------------
Tick ==
    /\ now < MaxTime /\ LoopIsFree
    /\ \A c \in Callers :
          /\ refresh[c].pc = "answer" => now < refresh[c].token.issued + MaxLatency
          /\ caller[c].pc = "using" => now < caller[c].since + MaxTransit
    /\ now' = now + 1
    /\ UNCHANGED <<key, cache, inflight, refresh, caller>>

Init ==
    /\ now = 0 /\ key = "unread" /\ cache = NoToken /\ inflight = None
    /\ refresh = [c \in Callers |-> NoRefresh]
    /\ caller = [c \in Callers |-> IdleCall]

Work(c) ==
    \/ LoadKey(c) \/ Issue(c) \/ Refuse(c) \/ Receive(c)
    \/ Resume(c) \/ Throw(c) \/ Finish(c)

Next ==
    \/ \E c \in Callers : CallWithCached(c) \/ Call(c) \/ Work(c)
    \/ Tick

Spec == Init /\ [][Next]_vars

(* The event loop goes on, and the issuer and the API answer or time out;    *)
(* nobody has to call.                                                      *)
Fairness == \A c \in Callers : WF_vars(Work(c))

FairSpec == Spec /\ Fairness

-----------------------------------------------------------------------------
(* Properties                                                              *)

Tokens == [issued : Nat, until : Nat, told : BOOLEAN, expiresAt : Nat]

TypeOK ==
    /\ now \in Nat
    /\ key \in {"unread", "held", "lost"}
    /\ cache \in Tokens
    /\ inflight \in Callers \cup {None}
    /\ refresh \in [Callers -> [pc : {"none", "key", "request", "answer", "done", "failed"},
                                token : Tokens]]
    /\ caller \in [Callers -> [pc : {"idle", "waiting", "using"},
                               from : Callers \cup {None}, token : Tokens, since : Nat]]
    /\ \A c \in Callers : caller[c].pc = "waiting" => caller[c].from \in Callers

(* A token whose lifetime the issuer has told is valid for as long as a call *)
(* that carries it is under way, however long it was cached.                 *)
ServedIsValid ==
    \A c \in Callers :
        caller[c].pc = "using" /\ caller[c].token.told => now < caller[c].token.until

(* A caller never waits for a refresh that is over: neither a failure nor an *)
(* expired token is handed to those who call later.                         *)
SettledIsNotShared ==
    [][\A c \in Callers : caller[c].pc # "waiting" /\ caller'[c].pc = "waiting" =>
           refresh'[caller'[c].from].pc \notin {"done", "failed"}]_vars

(* The cache is never set back to an older token.                           *)
CacheIsNotSetBack == [][cache'.issued >= cache.issued]_vars

(* Every call gets its token or an error.                                   *)
CallsAreAnswered == \A c \in Callers : caller[c].pc = "waiting" ~> caller[c].pc # "waiting"
=============================================================================
