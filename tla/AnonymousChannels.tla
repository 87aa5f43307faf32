--------------------------- MODULE AnonymousChannels ---------------------------
(***************************************************************************)
(* The channels that hookie listen uses without a login.  The relay makes  *)
(* one for an IP that has fewer than IpLimit of them, as keys in Redis     *)
(* that live for two hours; ingest takes webhooks for it, the relay        *)
(* streams them to the client that asked for it, and the pruner removes    *)
(* what has run out.  Each of them makes its decision from one call to     *)
(* Redis and acts on it in another.                                        *)
(*                                                                         *)
(* A channel is one CreateAnonymousChannel call: its id is a fresh KSUID.  *)
(* The clock ticks in seconds.  EXPIRE takes whole seconds and rounds      *)
(* down, and time.Until(expiresAt) is a little less than the two hours, so *)
(* the keys live one second less than the channel.  A pipeline of commands *)
(* is one step: they go out in one write; one whose connection breaks has  *)
(* executed some of the first of them.  The set relay:topics:<channel> is  *)
(* the subject of SubscriptionTracking, the windows of the rate limit that *)
(* of RateLimiter; nothing reads anon:connected:<channel>.                 *)
(***************************************************************************)
EXTENDS Naturals, FiniteSets

CONSTANTS
  Channels,
  Ips,
  IpOf,         (* the IP that each call comes from                         *)
  Requests,     (* POST /anon/<channel>                                     *)
  IpLimit,      (* channels per IP: 3                                       *)
  Lifetime,     (* of a channel: 2 * time.Hour                              *)
  Batch,        (* channels that the pruner removes in one turn: 100        *)
  None,         (* no channel                                               *)
  Plans,        (* bound: which calls are made, and which channels are used *)
  MaxTime,      (* bound on the clock                                       *)
  MaxFaults     (* bound on the calls that fail                             *)

ASSUME AnonymousAssumption ==
  /\ IsFiniteSet(Channels) /\ None \notin Channels
  /\ IsFiniteSet(Requests) /\ Requests \cap Channels = {}
  /\ IpOf \in [Channels -> Ips]
  /\ Plans \subseteq [calls : SUBSET Channels, used : SUBSET Channels]
  /\ IpLimit \in Nat \ {0} /\ Lifetime \in Nat \ {0, 1} /\ Batch \in Nat \ {0}
  /\ MaxTime \in Nat /\ MaxFaults \in Nat

VARIABLES
  now,
  call,        (* where the CreateAnonymousChannel call is                  *)
  expiresAt,   (* what it has returned or will return                       *)
  score,       (* anon:channels, the expiry of its members, 0 for the rest  *)
  metaUntil,   (* when anon:meta:<channel> goes, 0 where it does not exist  *)
  disabled,    (* its field "disabled"; kept when the key has gone          *)
  slots,       (* anon:ip:<ip>                                              *)
  slotsUntil,  (* when that key goes, 0 where it does not exist             *)
  stream,      (* whether anon:topics:<channel> exists                      *)
  row,         (* the channel's row of anonymous_topics                     *)
  count,       (* its request_count                                         *)
  hook,        (* where the request is                                      *)
  target,      (* the channel it is for                                     *)
  seen,        (* the request_count it has read                             *)
  sub,         (* where handleAnonymousSubscribe for the channel is         *)
  todo,        (* what ZRANGEBYSCORE has returned to the pruner             *)
  faults,
  madeAt,      (* history: when the keys were written                       *)
  peak,        (* history: the most calls of an IP between check and create *)
  published,   (* history: webhooks added to the stream                     *)
  alone,       (* history: no update of request_count met another           *)
  late         (* history: requests and clients that came to a disabled one *)

keyVars  == <<score, metaUntil, disabled, slots, slotsUntil>>
callVars == <<call, expiresAt, madeAt, peak>>
hookVars == <<hook, target, seen, count, published, alone>>
vars == <<now, keyVars, callVars, hookVars, stream, row, sub, todo, faults, late>>

Ttl == Lifetime - 1
Never == MaxTime + Lifetime + 1   (* a key for which EXPIRE has not run *)

Init ==
  /\ now = 1
  /\ \E p \in Plans :
       /\ call = [c \in Channels |-> IF c \in p.calls THEN "new" ELSE "never"]
       /\ sub = [c \in Channels |-> IF c \in p.used THEN "new" ELSE "unused"]
  /\ expiresAt = [c \in Channels |-> 0]
  /\ score = [c \in Channels |-> 0]
  /\ metaUntil = [c \in Channels |-> 0]
  /\ disabled = [c \in Channels |-> FALSE]
  /\ slots = [i \in Ips |-> {}]
  /\ slotsUntil = [i \in Ips |-> 0]
  /\ stream = [c \in Channels |-> FALSE]
  /\ row = [c \in Channels |-> "none"]
  /\ count = [c \in Channels |-> 0]
  /\ hook = [r \in Requests |-> "new"]
  /\ target = [r \in Requests |-> None]
  /\ seen = [r \in Requests |-> 0]
  /\ todo = {}
  /\ faults = 0
  /\ madeAt = [c \in Channels |-> 0]
  /\ peak = [i \in Ips |-> 0]
  /\ published = [c \in Channels |-> 0]
  /\ alone = [c \in Channels |-> TRUE]
  /\ late = {}

Fault == faults < MaxFaults /\ faults' = faults + 1
Exists(c) == score[c] # 0
InFlight(i) == {c \in Channels : IpOf[c] = i /\ call[c] = "checked"}

--------------------------------------------------------------------------------
(* Time, and the keys that Redis drops as it passes.                       *)
Tick ==
  /\ now < MaxTime
  /\ now' = now + 1
  /\ metaUntil' = [c \in Channels |-> IF metaUntil[c] > now + 1 THEN metaUntil[c] ELSE 0]
  /\ slotsUntil' = [i \in Ips |-> IF slotsUntil[i] > now + 1 THEN slotsUntil[i] ELSE 0]
  /\ slots' = [i \in Ips |-> IF slotsUntil[i] > now + 1 THEN slots[i] ELSE {}]
  /\ UNCHANGED <<score, disabled, callVars, hookVars, stream, row, sub, todo, faults, late>>

(* An operator disables a channel; both services look for this.            *)
Disable(c) ==
  /\ sub[c] # "unused" /\ metaUntil[c] > now
  /\ disabled' = [disabled EXCEPT ![c] = TRUE]
  /\ UNCHANGED <<now, score, metaUntil, slots, slotsUntil, callVars, hookVars, stream,
                 row, sub, todo, faults, late>>

--------------------------------------------------------------------------------
(* CreateAnonymousChannel.  CheckAnonIPCount, and what follows before the  *)
(* next call to Redis.                                                     *)
\* Mutant: one channel too many is let through.
CheckOffByOne(c) ==
  /\ call[c] = "new"
  /\ call' = [call EXCEPT ![c] =
                IF Cardinality(slots[IpOf[c]]) > IpLimit THEN "denied" ELSE "checked"]
  /\ expiresAt' = [expiresAt EXCEPT ![c] = now + Lifetime]
  /\ peak' = [peak EXCEPT ![IpOf[c]] =
                LET n == Cardinality(InFlight(IpOf[c])) + 1 IN IF n > @ THEN n ELSE @]
  /\ UNCHANGED <<now, keyVars, madeAt, hookVars, stream, row, sub, todo, faults, late>>

CheckIPCount(c) ==
  /\ call[c] = "new"
  /\ IF Cardinality(slots[IpOf[c]]) >= IpLimit
     THEN /\ call' = [call EXCEPT ![c] = "denied"]
          /\ UNCHANGED <<expiresAt, peak>>
     ELSE /\ call' = [call EXCEPT ![c] = "checked"]
          /\ expiresAt' = [expiresAt EXCEPT ![c] = now + Lifetime]
          /\ peak' = [peak EXCEPT ![IpOf[c]] =
                        LET n == Cardinality(InFlight(IpOf[c])) + 1 IN IF n > @ THEN n ELSE @]
  /\ UNCHANGED <<now, keyVars, madeAt, hookVars, stream, row, sub, todo, faults, late>>

(* What the first k commands of the pipeline of CreateAnonChannel do: ZADD *)
(* anon:channels, HSET anon:meta, EXPIRE, SADD anon:ip, EXPIRE.            *)
\* Mutant: the set of the IP is never given a time to live.
KeysNoExpire(c, k) ==
  LET i == IpOf[c] IN
  /\ score' = IF k >= 1 THEN [score EXCEPT ![c] = expiresAt[c]] ELSE score
  /\ metaUntil' = IF k >= 2 THEN [metaUntil EXCEPT ![c] = now + Ttl] ELSE metaUntil
  /\ slots' = IF k >= 4 THEN [slots EXCEPT ![i] = @ \cup {c}] ELSE slots
  /\ slotsUntil' = IF k >= 4 THEN [slotsUntil EXCEPT ![i] = IF @ = 0 THEN Never ELSE @]
                             ELSE slotsUntil

\* Mutant: the set of the IP gets the IP.
KeysSwapped(c, k) ==
  LET i == IpOf[c] IN
  /\ score' = IF k >= 1 THEN [score EXCEPT ![c] = expiresAt[c]] ELSE score
  /\ metaUntil' = IF k >= 2 THEN [metaUntil EXCEPT ![c] = now + Ttl] ELSE metaUntil
  /\ slots' = IF k >= 4 THEN [slots EXCEPT ![i] = @ \cup {i}] ELSE slots
  /\ slotsUntil' = IF k >= 5 THEN [slotsUntil EXCEPT ![i] = now + Ttl] ELSE slotsUntil

\* Mutant: the metadata is given one second.
KeysShortMeta(c, k) ==
  LET i == IpOf[c] IN
  /\ score' = IF k >= 1 THEN [score EXCEPT ![c] = expiresAt[c]] ELSE score
  /\ metaUntil' = IF k >= 2 THEN [metaUntil EXCEPT ![c] = now + 1] ELSE metaUntil
  /\ slots' = IF k >= 4 THEN [slots EXCEPT ![i] = @ \cup {c}] ELSE slots
  /\ slotsUntil' = IF k >= 5 THEN [slotsUntil EXCEPT ![i] = now + Ttl] ELSE slotsUntil

Keys(c, k) ==
  LET i == IpOf[c] IN
  /\ score' = IF k >= 1 THEN [score EXCEPT ![c] = expiresAt[c]] ELSE score
  /\ metaUntil' = IF k < 2 THEN metaUntil
                  ELSE [metaUntil EXCEPT ![c] = IF k >= 3 THEN now + Ttl ELSE Never]
  /\ slots' = IF k >= 4 THEN [slots EXCEPT ![i] = @ \cup {c}] ELSE slots
  /\ slotsUntil' = IF k < 4 THEN slotsUntil
                   ELSE [slotsUntil EXCEPT ![i] =
                           IF k = 5 THEN now + Ttl ELSE IF @ = 0 THEN Never ELSE @]

CreateChannel(c) ==
  /\ call[c] = "checked"
  /\ Keys(c, 5)
  /\ call' = [call EXCEPT ![c] = "created"]
  /\ madeAt' = [madeAt EXCEPT ![c] = now]
  /\ row' = [row EXCEPT ![c] = IF sub[c] # "unused" THEN "inserting" ELSE @]
  /\ UNCHANGED <<now, disabled, expiresAt, peak, hookVars, stream, sub, todo, faults, late>>

(* The caller is told of an error and never learns the channel's id.       *)
CreateFails(c, k) ==
  /\ call[c] = "checked"
  /\ Keys(c, k)
  /\ Fault
  /\ call' = [call EXCEPT ![c] = "failed"]
  /\ UNCHANGED <<now, disabled, expiresAt, peak, madeAt, hookVars, stream, row, sub, todo,
                 late>>

(* The goroutine with InsertAnonymousTopic; its failure is only logged.    *)
InsertRow(c, ok) ==
  /\ row[c] = "inserting"
  /\ IF ok THEN UNCHANGED faults ELSE Fault
  /\ row' = [row EXCEPT ![c] = IF ok THEN "stored" ELSE "none"]
  /\ UNCHANGED <<now, keyVars, callVars, hookVars, stream, sub, todo, late>>

--------------------------------------------------------------------------------
(* A request that has been answered, and counted if it was published.      *)
Done(r) ==
  /\ hook' = [hook EXCEPT ![r] = "done"]
  /\ target' = [target EXCEPT ![r] = None]
  /\ seen' = [seen EXCEPT ![r] = 0]
  /\ late' = late \ {r}

(* ForAnon and HandleAnonWebhook.  The channel must be in anon:channels;   *)
(* that it has run out is not looked at.                                   *)
\* Mutant: the middleware does not look for the channel.
ArriveUnchecked(r, c) ==
  /\ hook[r] = "new" /\ sub[c] # "unused" /\ call[c] = "created"
  /\ hook' = [hook EXCEPT ![r] = "exists"]
  /\ target' = [target EXCEPT ![r] = c]
  /\ late' = IF disabled[c] THEN late \cup {r} ELSE late
  /\ UNCHANGED <<now, keyVars, callVars, seen, count, published, alone, stream, row, sub,
                 todo, faults>>

Arrive(r, c) ==
  /\ hook[r] = "new" /\ sub[c] # "unused" /\ call[c] = "created"
  /\ IF Exists(c)
     THEN /\ hook' = [hook EXCEPT ![r] = "exists"]
          /\ target' = [target EXCEPT ![r] = c]
          /\ late' = IF disabled[c] THEN late \cup {r} ELSE late
          /\ UNCHANGED seen
     ELSE Done(r)
  /\ UNCHANGED <<now, keyVars, callVars, count, published, alone, stream, row, sub, todo,
                 faults>>

(* A field of a key that has gone is not "true".                           *)
MarkedDisabled(c) == metaUntil[c] > now /\ disabled[c]

ReadDisabled(r) ==
  /\ hook[r] = "exists"
  /\ IF MarkedDisabled(target[r])
     THEN Done(r)
     ELSE hook' = [hook EXCEPT ![r] = "admitted"] /\ UNCHANGED <<target, seen, late>>
  /\ UNCHANGED <<now, keyVars, callVars, count, published, alone, stream, row, sub, todo,
                 faults>>

(* 429 from the limiter, a body that is too large, nobody listening.       *)
Turned(r) ==
  /\ hook[r] = "admitted"
  /\ Done(r)
  /\ UNCHANGED <<now, keyVars, callVars, count, published, alone, stream, row, sub, todo,
                 faults>>

Others(r) == {q \in Requests \ {r} : target[q] = target[r] /\ hook[q] \in {"published", "counting"}}

PublishWebhook(r) ==
  /\ hook[r] = "admitted"
  /\ hook' = [hook EXCEPT ![r] = "published"]
  /\ stream' = [stream EXCEPT ![target[r]] = TRUE]
  /\ published' = [published EXCEPT ![target[r]] = @ + 1]
  /\ alone' = [alone EXCEPT ![target[r]] =
                 @ /\ Others(r) = {} /\ row[target[r]] = "stored"]
  /\ UNCHANGED <<now, keyVars, callVars, target, seen, count, row, sub, todo, faults, late>>

PublishFails(r) ==
  /\ hook[r] = "admitted"
  /\ Fault
  /\ Done(r)
  /\ UNCHANGED <<now, keyVars, callVars, count, published, alone, stream, row, sub, todo>>

(* IncrementAnonTopicCount, in a goroutine of its own.                     *)
ReadCount(r) ==
  /\ hook[r] = "published"
  /\ IF row[target[r]] = "stored"
     THEN /\ hook' = [hook EXCEPT ![r] = "counting"]
          /\ seen' = [seen EXCEPT ![r] = count[target[r]]]
          /\ UNCHANGED <<target, late>>
     ELSE Done(r)
  /\ UNCHANGED <<now, keyVars, callVars, count, published, alone, stream, row, sub, todo,
                 faults>>

\* Mutant: the row's count at the time of the update is added to.
WriteCountTwice(r) ==
  /\ hook[r] = "counting"
  /\ Done(r)
  /\ count' = [count EXCEPT ![target[r]] = @ + seen[r] + 1]
  /\ UNCHANGED <<now, keyVars, callVars, published, alone, stream, row, sub, todo, faults>>

WriteCount(r) ==
  /\ hook[r] = "counting"
  /\ Done(r)
  /\ count' = [count EXCEPT ![target[r]] = seen[r] + 1]
  /\ UNCHANGED <<now, keyVars, callVars, published, alone, stream, row, sub, todo, faults>>

CountFails(r) ==
  /\ hook[r] \in {"published", "counting"}
  /\ Fault
  /\ Done(r)
  /\ alone' = [alone EXCEPT ![target[r]] = FALSE]
  /\ UNCHANGED <<now, keyVars, callVars, count, published, stream, row, sub, todo>>

--------------------------------------------------------------------------------
(* handleAnonymousSubscribe: ValidateAnonChannel, first the score.         *)
ValidateScore(c) ==
  /\ sub[c] = "new" /\ call[c] = "created"
  /\ sub' = [sub EXCEPT ![c] = IF score[c] > now THEN "exists" ELSE "ended"]
  /\ late' = IF disabled[c] THEN late \cup {c} ELSE late
  /\ UNCHANGED <<now, keyVars, callVars, hookVars, stream, row, todo, faults>>

(* Then "disabled", and SubscribeToAnonymousTopic: XGROUP CREATE MKSTREAM. *)
ValidateDisabled(c) ==
  /\ sub[c] = "exists"
  /\ IF MarkedDisabled(c)
     THEN sub' = [sub EXCEPT ![c] = "ended"] /\ UNCHANGED stream
     ELSE sub' = [sub EXCEPT ![c] = "listening"] /\ stream' = [stream EXCEPT ![c] = TRUE]
  /\ UNCHANGED <<now, keyVars, callVars, hookVars, row, todo, faults, late>>

SubscribeFails(c) ==
  /\ sub[c] = "exists"
  /\ Fault
  /\ sub' = [sub EXCEPT ![c] = "ended"]
  /\ UNCHANGED <<now, keyVars, callVars, hookVars, stream, row, todo, late>>

HangUp(c) ==
  /\ sub[c] = "listening"
  /\ sub' = [sub EXCEPT ![c] = "ended"]
  /\ UNCHANGED <<now, keyVars, callVars, hookVars, stream, row, todo, faults, late>>

--------------------------------------------------------------------------------
(* CleanExpiredAnonChannels, every five minutes: the Batch channels of     *)
(* anon:channels with the lowest scores of those that have run out.        *)
RunOut == {c \in Channels : Exists(c) /\ score[c] <= now}

ListExpired(S) ==
  /\ todo = {}
  /\ S \subseteq RunOut
  /\ S # {} /\ Cardinality(S) <= Batch
  /\ S = RunOut \/ Cardinality(S) = Batch
  /\ \A c \in S, d \in RunOut \ S : score[c] <= score[d]
  /\ todo' = S
  /\ UNCHANGED <<now, keyVars, callVars, hookVars, stream, row, sub, faults, late>>

(* HGET for the IP, and the pipeline that deletes the keys: the IP, which  *)
(* never changes, is known as long as the metadata is there.               *)
\* Mutant: the channel stays in the sorted set.
CleanNoZRem(c, ok) ==
  /\ c \in todo
  /\ IF ok
     THEN /\ UNCHANGED <<score, faults>>
          /\ metaUntil' = [metaUntil EXCEPT ![c] = 0]
          /\ stream' = [stream EXCEPT ![c] = FALSE]
     ELSE Fault /\ UNCHANGED <<score, metaUntil, stream>>
  /\ todo' = todo \ {c}
  /\ UNCHANGED <<now, disabled, slots, slotsUntil, callVars, hookVars, row, sub, late>>

CleanChannel(c, ok) ==
  /\ c \in todo
  /\ IF ok
     THEN /\ score' = [score EXCEPT ![c] = 0]
          /\ metaUntil' = [metaUntil EXCEPT ![c] = 0]
          /\ stream' = [stream EXCEPT ![c] = FALSE]
          /\ IF metaUntil[c] > now
             THEN slots' = [slots EXCEPT ![IpOf[c]] = @ \ {c}]
             ELSE UNCHANGED slots
          /\ slotsUntil' = [i \in Ips |-> IF slots'[i] = {} THEN 0 ELSE slotsUntil[i]]
          /\ UNCHANGED faults
     ELSE Fault /\ UNCHANGED <<score, metaUntil, slots, slotsUntil, stream>>
  /\ todo' = todo \ {c}
  /\ UNCHANGED <<now, disabled, callVars, hookVars, row, sub, late>>

--------------------------------------------------------------------------------
Next ==
  \/ Tick
  \/ \E c \in Channels :
       \/ Disable(c)
       \/ CheckIPCount(c) \/ CreateChannel(c)
       \/ \E k \in 0 .. 5 : CreateFails(c, k)
       \/ \E ok \in BOOLEAN : InsertRow(c, ok)
       \/ ValidateScore(c) \/ ValidateDisabled(c) \/ SubscribeFails(c) \/ HangUp(c)
       \/ \E ok \in BOOLEAN : CleanChannel(c, ok)
  \/ \E r \in Requests :
       \/ \E c \in Channels : Arrive(r, c)
       \/ ReadDisabled(r) \/ Turned(r) \/ PublishWebhook(r) \/ PublishFails(r)
       \/ ReadCount(r) \/ WriteCount(r) \/ CountFails(r)
  \/ \E S \in SUBSET Channels : ListExpired(S)

(* The pruner's ticker never stops while the relay runs.                   *)
Fairness ==
  /\ WF_vars(\E S \in SUBSET Channels : ListExpired(S))
  /\ WF_vars(\E c \in Channels, ok \in BOOLEAN : CleanChannel(c, ok))

Spec == Init /\ [][Next]_vars /\ Fairness

--------------------------------------------------------------------------------
(* The type invariant.                                                     *)
TypeOK ==
  /\ now \in Nat /\ faults \in Nat
  /\ call \in [Channels -> {"never", "new", "checked", "created", "failed", "denied"}]
  /\ expiresAt \in [Channels -> Nat] /\ score \in [Channels -> Nat]
  /\ metaUntil \in [Channels -> Nat] /\ disabled \in [Channels -> BOOLEAN]
  /\ slots \in [Ips -> SUBSET Channels] /\ slotsUntil \in [Ips -> Nat]
  /\ stream \in [Channels -> BOOLEAN]
  /\ row \in [Channels -> {"none", "inserting", "stored"}] /\ count \in [Channels -> Nat]
  /\ hook \in [Requests -> {"new", "exists", "admitted", "published", "counting", "done"}]
  /\ target \in [Requests -> Channels \cup {None}] /\ seen \in [Requests -> Nat]
  /\ sub \in [Channels -> {"unused", "new", "exists", "listening", "ended"}]
  /\ todo \subseteq Channels
  /\ madeAt \in [Channels -> Nat] /\ peak \in [Ips -> Nat]
  /\ published \in [Channels -> Nat] /\ alone \in [Channels -> BOOLEAN]
  /\ late \subseteq Channels \cup Requests

(* An IP has more than IpLimit channels only as far as its calls came at   *)
(* the same time: the number of those that were between the check and the  *)
(* creation at once, less one, is the most it can exceed the limit by.  A  *)
(* channel in its last second is not counted, as the IP's set may be gone. *)
IpBound ==
  \A i \in Ips :
    Cardinality({c \in Channels : IpOf[c] = i /\ call[c] = "created" /\ expiresAt[c] > now + 1})
      <= IpLimit + (IF peak[i] = 0 THEN 0 ELSE peak[i] - 1)

(* A channel that has run out goes on taking a slot of its IP, as the      *)
(* pruner can seldom read the IP any more; but only while the IP has made  *)
(* a call in the last two hours, or a call has failed half way.            *)
SlotsComeBack ==
  \A i \in Ips : slots[i] # {} =>
    \E c \in Channels :
      /\ IpOf[c] = i
      /\ \/ call[c] = "created" /\ now < madeAt[c] + Ttl
         \/ call[c] = "failed"

(* Neither a webhook nor a client that came after the channel had been     *)
(* disabled is let in, unless the channel is in its last second or over:   *)
(* the mark goes with the metadata while anon:channels still has it.       *)
DisabledIsRefused ==
  /\ \A r \in Requests \cap late :
       hook[r] \in {"admitted", "published", "counting"} => expiresAt[target[r]] <= now + 1
  /\ \A c \in Channels \cap late : sub[c] = "listening" => expiresAt[c] <= now + 1

(* request_count, read and written back in two calls, is never ahead of    *)
(* the webhooks published, and it is their number where no update met      *)
(* another, failed, or came before the row.                                *)
RequestCount ==
  \A c \in Channels :
    /\ count[c] <= published[c]
    /\ alone[c] => count[c] + Cardinality({r \in Requests :
                     target[r] = c /\ hook[r] \in {"published", "counting"}}) = published[c]

(* Nothing finds a channel that has been removed.  Its stream comes back   *)
(* only through a request or a client that had found it before: such a     *)
(* stream is one that nothing ever deletes.                                *)
Gone(c) == call[c] = "created" /\ ~Exists(c)
Pending(c) ==
  \/ \E r \in Requests : target[r] = c /\ hook[r] \in {"exists", "admitted"}
  \/ sub[c] = "exists"
GoneIsGone ==
  [][\A c \in Channels : Gone(c) /\ ~Pending(c) =>
       ~Pending(c)' /\ (stream'[c] => stream[c])]_vars

(* Every channel that has run out is removed from anon:channels.           *)
ExpiredAreRemoved == \A c \in Channels : (Exists(c) /\ score[c] <= now) ~> ~Exists(c)
================================================================================
