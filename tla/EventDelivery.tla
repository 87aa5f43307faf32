----------------------------- MODULE EventDelivery -----------------------------
(***************************************************************************)
(* The path of a webhook event through the relay: the Redis stream that    *)
(* the ingest service appends to, the consumer group that all relay        *)
(* instances share, the reader goroutine of each subscription, the Go      *)
(* channel between the reader and the Subscribe handler, and the Ready     *)
(* messages by which the client asks for the next event.                   *)
(*                                                                         *)
(* An event is the number of the XADD that made it; published[e] is its    *)
(* topic.  A member of Subs is one Subscribe stream: a client that         *)
(* reconnects is another member, as in the code, where every subscription  *)
(* reads under a consumer name of its own.                                 *)
(***************************************************************************)
EXTENDS Naturals, Sequences, FiniteSets

CONSTANTS
  Topics,       (* the topics, each with one stream topics:<id>             *)
  Subs,         (* the Subscribe streams                                    *)
  TopicsOf,     (* the topics of each stream: one, or all of an application *)
  Relays,       (* the relay instances                                      *)
  RelayOf,      (* the instance that serves each stream                     *)
  Unreadable,   (* the events that convertToProtoEvent rejects              *)
  ReadCount,    (* COUNT of XREADGROUP, 10 in the code                      *)
  MaxPending,   (* maxPending of readFromStream, 10 in the code             *)
  ChannelSize,  (* the capacity of eventsCh, 5000 by default                *)
  MaxLen,       (* MAXLEN of XADD, 10000 by default                         *)
  MaxEvents,    (* bound: how many events are published                     *)
  MaxFaults     (* bound: Redis faults, prunings, crashes, clients' ends    *)

ASSUME DeliveryAssumption ==
  /\ TopicsOf \in [Subs -> SUBSET Topics]
  /\ \A s \in Subs : IsFiniteSet(TopicsOf[s])
  /\ RelayOf \in [Subs -> Relays]
  /\ Unreadable \subseteq Nat
  /\ ReadCount \in Nat \ {0}
  /\ MaxPending \in Nat \ {0}
  /\ ChannelSize \in Nat \ {0}
  /\ MaxLen \in Nat \ {0}
  /\ MaxEvents \in Nat
  /\ MaxFaults \in Nat

VARIABLES
  published,  (* the topic of each event, in the order of the XADDs         *)
  stream,     (* the entries of each topic's stream                         *)
  group,      (* whether the stream has its group relay-consumers           *)
  lastId,     (* the group's last delivered entry                           *)
  pel,        (* pending entries of each topic's group, per consumer        *)
  doomed,     (* the streams a pruner has judged stale and will delete      *)
  faults      (* how many of what MaxFaults bounds there have been          *)

VARIABLES
  conn,       (* the Subscribe handler: new, select, await, returned        *)
  ctx,        (* whether the handler's context is cancelled                 *)
  gone,       (* whether the client has hung up                             *)
  recvErr,    (* whether the receive goroutine has reported an error        *)
  unread,     (* events sent that the client has not answered               *)
  readyWire,  (* Ready messages on their way to the relay                   *)
  readyCh     (* Ready messages in readyCh, which has room for one          *)

VARIABLES
  reader,     (* where the reader goroutine is                              *)
  log,        (* every event the reader has received, in order              *)
  queued,     (* how many of them it has put into eventsCh                  *)
  taken,      (* how many the handler has taken out of eventsCh             *)
  pending,    (* pendingCount of readFromStream                             *)
  throttle,   (* whether throttleCh holds its one signal                    *)
  sent        (* the events stream.Send has accepted, in order              *)

keyVars    == <<published, stream, group, lastId, pel, doomed>>
redisVars  == <<keyVars, faults>>
clientVars == <<gone, recvErr, unread, readyWire, readyCh>>
readerVars == <<reader, log, queued, pending>>
loopVars   == <<conn, taken, sent>>
vars == <<redisVars, clientVars, readerVars, loopVars, ctx, throttle>>

Events == 1 .. MaxEvents

(* A stream with a single topic is read by readFromStream, which obeys the *)
(* throttle; the streams of an application are read by readFromStreams,    *)
(* which is given the throttle channel and never looks at it.              *)
Throttled(s) == Cardinality(TopicsOf[s]) = 1

Open(s) == conn[s] \in {"select", "await"}

(* Whether the key topics:<t> exists: it has entries, or XGROUP CREATE     *)
(* MKSTREAM made it for its group.                                         *)
KeyExists(t) == group[t] \/ stream[t] # {}

(* What XREADGROUP with ">" returns for one stream: the first entries      *)
(* after the last one the group has delivered.                             *)
Undelivered(t) == {e \in stream[t] : e > lastId[t]}
FirstOf(S, n) == {e \in S : Cardinality({f \in S : f <= e}) <= n}
Readable(s) == UNION {FirstOf(Undelivered(t), ReadCount) : t \in TopicsOf[s]}

(* A reply lists the entries stream by stream, each in the order of ids.   *)
InReplyOrder(b) ==
  \A i, j \in DOMAIN b :
    i < j => \/ published[b[i]] # published[b[j]]
             \/ b[i] < b[j]

Contiguous(b) ==
  \A i, j, k \in DOMAIN b :
    (i < j /\ j < k /\ published[b[i]] = published[b[k]])
      => published[b[j]] = published[b[i]]

Replies(S) ==
  {b \in [1 .. Cardinality(S) -> S] :
     /\ \A i, j \in DOMAIN b : b[i] = b[j] => i = j
     /\ InReplyOrder(b)
     /\ Contiguous(b)}

--------------------------------------------------------------------------------
Init ==
  /\ published = <<>>
  /\ stream = [t \in Topics |-> {}]
  /\ group = [t \in Topics |-> FALSE]
  /\ lastId = [t \in Topics |-> 0]
  /\ pel = [t \in Topics |-> [s \in Subs |-> {}]]
  /\ doomed = {}
  /\ faults = 0
  /\ conn = [s \in Subs |-> "new"]
  /\ ctx = [s \in Subs |-> FALSE]
  /\ gone = [s \in Subs |-> FALSE]
  /\ recvErr = [s \in Subs |-> FALSE]
  /\ unread = [s \in Subs |-> 0]
  /\ readyWire = [s \in Subs |-> 0]
  /\ readyCh = [s \in Subs |-> 0]
  /\ reader = [s \in Subs |-> "none"]
  /\ log = [s \in Subs |-> <<>>]
  /\ queued = [s \in Subs |-> 0]
  /\ taken = [s \in Subs |-> 0]
  /\ pending = [s \in Subs |-> 0]
  /\ throttle = [s \in Subs |-> FALSE]
  /\ sent = [s \in Subs |-> <<>>]

Fault == faults < MaxFaults /\ faults' = faults + 1

--------------------------------------------------------------------------------
(* Redis, as the ingest service, the readers and the pruners use it.       *)

(* PublishWebhook: XADD with an approximate MAXLEN.  Redis drops oldest    *)
(* entries, and never so many that fewer than MaxLen are left.             *)
Publish(t) ==
  /\ Len(published) < MaxEvents
  /\ published' = Append(published, t)
  /\ \E low \in 0 .. Len(published) :
       LET all  == stream[t] \cup {Len(published) + 1}
           kept == {e \in all : e > low}
       IN  /\ kept = all \/ Cardinality(kept) >= MaxLen
           /\ stream' = [stream EXCEPT ![t] = kept]
  /\ UNCHANGED <<group, lastId, pel, doomed, faults>>
  /\ UNCHANGED <<clientVars, readerVars, loopVars, ctx, throttle>>

(* PruneStaleStreams reads the newest entry of a stream and finds that     *)
(* there is none or that it is older than the cutoff.  Time is not         *)
(* modelled: any entry may have grown old.                                 *)
PrunerFindsStale(t) ==
  /\ KeyExists(t) /\ t \notin doomed
  /\ Fault
  /\ doomed' = doomed \cup {t}
  /\ UNCHANGED <<published, stream, group, lastId, pel>>
  /\ UNCHANGED <<clientVars, readerVars, loopVars, ctx, throttle>>

(* ... and deletes it in a second call, with what was added since, its     *)
(* group and the group's pending entries.                                  *)
PrunerDeletes(t) ==
  /\ t \in doomed
  /\ doomed' = doomed \ {t}
  /\ stream' = [stream EXCEPT ![t] = {}]
  /\ group' = [group EXCEPT ![t] = FALSE]
  /\ lastId' = [lastId EXCEPT ![t] = 0]
  /\ pel' = [pel EXCEPT ![t] = [s \in Subs |-> {}]]
  /\ UNCHANGED <<published, faults>>
  /\ UNCHANGED <<clientVars, readerVars, loopVars, ctx, throttle>>

--------------------------------------------------------------------------------
(* Opening a subscription.  XGROUP CREATE ... 0 MKSTREAM succeeds for the  *)
(* topics in made and answers BUSYGROUP where the group is there; a        *)
(* failure ends a single-topic subscription and is only logged for an      *)
(* application.  An application without topics gets no reader.             *)
\* Mutant: the cursor of an existing group goes back to 0.
CreateGroupsAnew(made) ==
  /\ group' = [t \in Topics |-> group[t] \/ t \in made]
  /\ lastId' = [t \in Topics |-> IF t \in made THEN 0 ELSE lastId[t]]

CreateGroups(made) ==
  /\ group' = [t \in Topics |-> group[t] \/ t \in made]
  /\ lastId' = [t \in Topics |-> IF group[t] \/ t \notin made THEN lastId[t] ELSE 0]

Subscribe(s, made) ==
  /\ conn[s] = "new"
  /\ made \subseteq TopicsOf[s]
  /\ IF made = TopicsOf[s] THEN UNCHANGED faults ELSE Fault
  /\ Throttled(s) => made # {}
  /\ CreateGroups(made)
  /\ conn' = [conn EXCEPT ![s] = "select"]
  /\ reader' = [reader EXCEPT ![s] = IF TopicsOf[s] = {} THEN "none" ELSE "reading"]
  /\ UNCHANGED <<published, stream, pel, doomed>>
  /\ UNCHANGED <<clientVars, log, queued, pending, taken, sent, ctx, throttle>>

SubscribeFails(s) ==
  /\ conn[s] = "new"
  /\ Throttled(s)
  /\ Fault
  /\ conn' = [conn EXCEPT ![s] = "returned"]
  /\ ctx' = [ctx EXCEPT ![s] = TRUE]
  /\ UNCHANGED keyVars
  /\ UNCHANGED <<clientVars, readerVars, taken, sent, throttle>>

--------------------------------------------------------------------------------
(* The reader goroutine: readFromStream and readFromStreams.  It looks at  *)
(* the context at the top of its loop and before every message; nobody     *)
(* sees when, so the look is part of ReaderCancelled: a cancelled reader   *)
(* may stop wherever a look or a select follows, or may have looked before *)
(* and go one step on.                                                     *)

(* Where the loop goes from its top: to the throttle if too much is        *)
(* pending, else to XREADGROUP, which is called again and again while it   *)
(* returns nothing, and while it fails because a stream has no group.      *)
\* Mutant: the reader never waits for the throttle.
NextReadUnthrottled(s, pendingCount) == "reading"

NextRead(s, pendingCount) ==
  IF Throttled(s) /\ pendingCount >= MaxPending THEN "throttled" ELSE "reading"

(* The select on throttleCh and ctx.Done().                                *)
ThrottleSignal(s) ==
  /\ reader[s] = "throttled"
  /\ throttle[s]
  /\ throttle' = [throttle EXCEPT ![s] = FALSE]
  /\ pending' = [pending EXCEPT ![s] = 0]
  /\ reader' = [reader EXCEPT ![s] = "reading"]
  /\ UNCHANGED <<redisVars, clientVars, log, queued, loopVars, ctx>>

ReaderCancelled(s) ==
  /\ reader[s] \in {"throttled", "reading", "queueing"}
  /\ ctx[s]
  /\ reader' = [reader EXCEPT ![s] = "stopped"]
  /\ UNCHANGED <<redisVars, clientVars, log, queued, pending, loopVars, ctx, throttle>>

(* What XREADGROUP changes in Redis when it gives the entries S to s: the  *)
(* group's cursor moves to the last of them, and they are pending for s.   *)
Mine(S, t) == {e \in S : published[e] = t}

MoveCursors(S) ==
  /\ lastId' \in [Topics -> 0 .. MaxEvents]
  /\ \A t \in Topics :
       IF Mine(S, t) = {} THEN lastId'[t] = lastId[t]
       ELSE lastId'[t] \in Mine(S, t) /\ \A e \in Mine(S, t) : e <= lastId'[t]

\* Mutant: the group keeps no pending entries (NOACK).
DeliverNoAck(s, S) ==
  /\ MoveCursors(S)
  /\ UNCHANGED <<published, stream, group, pel, doomed>>

\* Mutant: the group hands its entries out again.
DeliverKeepingCursor(s, S) ==
  /\ pel' = [t \in Topics |-> [pel[t] EXCEPT ![s] = @ \cup Mine(S, t)]]
  /\ UNCHANGED <<published, stream, group, lastId, doomed>>

Deliver(s, S) ==
  /\ MoveCursors(S)
  /\ pel' = [t \in Topics |-> [pel[t] EXCEPT ![s] = @ \cup Mine(S, t)]]
  /\ UNCHANGED <<published, stream, group, doomed>>

CanRead(s) == (\A t \in TopicsOf[s] : group[t]) /\ Readable(s) # {}

Fetch(s) ==
  /\ reader[s] = "reading"
  /\ CanRead(s)
  /\ Deliver(s, Readable(s))
  /\ \E b \in Replies(Readable(s)) : log' = [log EXCEPT ![s] = @ \o b]
  /\ reader' = [reader EXCEPT ![s] = "queueing"]
  /\ UNCHANGED <<faults, clientVars, queued, pending, loopVars, ctx, throttle>>

(* Redis delivers the entries and the connection breaks before the reply:  *)
(* the reader sees an error and reads on, with ">" again.                  *)
FetchReplyLost(s) ==
  /\ reader[s] = "reading"
  /\ CanRead(s)
  /\ Fault
  /\ Deliver(s, Readable(s))
  /\ UNCHANGED <<clientVars, readerVars, loopVars, ctx, throttle>>

(* The send on eventsCh, which blocks while the channel is full.           *)
Enqueue(s) ==
  /\ reader[s] = "queueing"
  /\ queued[s] - taken[s] < ChannelSize
  /\ queued' = [queued EXCEPT ![s] = @ + 1]
  /\ reader' = [reader EXCEPT ![s] = "acking"]
  /\ UNCHANGED <<redisVars, clientVars, log, pending, loopVars, ctx, throttle>>

(* XACK under the handler's context: it fails once that is cancelled, or   *)
(* when Redis does; the failure is only logged.                            *)
Ack(s, ok) ==
  /\ reader[s] = "acking"
  /\ ok => ~ctx[s]
  /\ IF ok \/ ctx[s] THEN UNCHANGED faults ELSE Fault
  /\ LET e == log[s][queued[s]]
         t == published[e]
     IN  pel' = IF ok THEN [pel EXCEPT ![t][s] = @ \ {e}] ELSE pel
  /\ pending' = IF Throttled(s) THEN [pending EXCEPT ![s] = @ + 1] ELSE pending
  /\ reader' = [reader EXCEPT ![s] =
       IF queued[s] < Len(log[s]) THEN "queueing" ELSE NextRead(s, pending'[s])]
  /\ UNCHANGED <<published, stream, group, lastId, doomed>>
  /\ UNCHANGED <<clientVars, log, queued, loopVars, ctx, throttle>>

--------------------------------------------------------------------------------
(* The handler's loop.                                                     *)

(* Return from the handler; the deferred cancel() cancels the context.     *)
Return(s) ==
  /\ conn' = [conn EXCEPT ![s] = "returned"]
  /\ ctx' = [ctx EXCEPT ![s] = TRUE]

LoopReturns(s) ==
  /\ Open(s)
  /\ ctx[s] \/ recvErr[s]
  /\ Return(s)
  /\ UNCHANGED <<redisVars, clientVars, readerVars, taken, sent, throttle>>

Received(s) == conn[s] = "select" /\ taken[s] < queued[s]
\* Mutant: the newest event of the channel first.
InHandNewest(s) == log[s][queued[s]]
InHand(s) == log[s][taken[s] + 1]

(* An event that cannot be converted is logged and left behind.            *)
\* Mutant: no "continue", the loop waits for a Ready after a skipped event.
SkipEventAwaiting(s) ==
  /\ Received(s)
  /\ InHand(s) \in Unreadable
  /\ taken' = [taken EXCEPT ![s] = @ + 1]
  /\ conn' = [conn EXCEPT ![s] = "await"]
  /\ UNCHANGED <<redisVars, clientVars, readerVars, sent, ctx, throttle>>

SkipEvent(s) ==
  /\ Received(s)
  /\ InHand(s) \in Unreadable
  /\ taken' = [taken EXCEPT ![s] = @ + 1]
  /\ UNCHANGED <<redisVars, clientVars, readerVars, conn, sent, ctx, throttle>>

\* Mutant: the loop does not wait for the Ready.
SendEventUnanswered(s) ==
  /\ Received(s)
  /\ InHand(s) \notin Unreadable
  /\ ~gone[s]
  /\ taken' = [taken EXCEPT ![s] = @ + 1]
  /\ sent' = [sent EXCEPT ![s] = Append(@, InHand(s))]
  /\ unread' = [unread EXCEPT ![s] = @ + 1]
  /\ UNCHANGED <<redisVars, gone, recvErr, readyWire, readyCh, readerVars, conn, ctx, throttle>>

SendEvent(s) ==
  /\ Received(s)
  /\ InHand(s) \notin Unreadable
  /\ ~gone[s]
  /\ taken' = [taken EXCEPT ![s] = @ + 1]
  /\ sent' = [sent EXCEPT ![s] = Append(@, InHand(s))]
  /\ unread' = [unread EXCEPT ![s] = @ + 1]
  /\ conn' = [conn EXCEPT ![s] = "await"]
  /\ UNCHANGED <<redisVars, gone, recvErr, readyWire, readyCh, readerVars, ctx, throttle>>

(* stream.Send fails once the client has hung up.                          *)
SendFails(s) ==
  /\ Received(s)
  /\ InHand(s) \notin Unreadable
  /\ gone[s]
  /\ taken' = [taken EXCEPT ![s] = @ + 1]
  /\ Return(s)
  /\ UNCHANGED <<redisVars, clientVars, readerVars, sent, throttle>>

(* The Ready of the client lets the loop go on, and signals the throttle   *)
(* unless a signal is there already.                                       *)
\* Mutant: the loop does not look whether there is a Ready.
GetReadyUnseen(s) ==
  /\ conn[s] = "await"
  /\ readyCh' = [readyCh EXCEPT ![s] = @ - 1]
  /\ throttle' = [throttle EXCEPT ![s] = TRUE]
  /\ conn' = [conn EXCEPT ![s] = "select"]
  /\ UNCHANGED <<redisVars, gone, recvErr, unread, readyWire, readerVars, taken, sent, ctx>>

\* Mutant: the throttle is not signalled.
GetReadySilently(s) ==
  /\ conn[s] = "await"
  /\ readyCh[s] > 0
  /\ readyCh' = [readyCh EXCEPT ![s] = @ - 1]
  /\ conn' = [conn EXCEPT ![s] = "select"]
  /\ UNCHANGED <<redisVars, gone, recvErr, unread, readyWire, readerVars, taken, sent, ctx, throttle>>

GetReady(s) ==
  /\ conn[s] = "await"
  /\ readyCh[s] > 0
  /\ readyCh' = [readyCh EXCEPT ![s] = @ - 1]
  /\ throttle' = [throttle EXCEPT ![s] = TRUE]
  /\ conn' = [conn EXCEPT ![s] = "select"]
  /\ UNCHANGED <<redisVars, gone, recvErr, unread, readyWire, readerVars, taken, sent, ctx>>

(* The receive goroutine passes a Ready on, and blocks while readyCh is    *)
(* full.                                                                   *)
RecvReady(s) ==
  /\ Open(s) /\ ~recvErr[s]
  /\ readyWire[s] > 0 /\ readyCh[s] = 0
  /\ readyWire' = [readyWire EXCEPT ![s] = @ - 1]
  /\ readyCh' = [readyCh EXCEPT ![s] = @ + 1]
  /\ UNCHANGED <<redisVars, gone, recvErr, unread, readerVars, loopVars, ctx, throttle>>

(* It reports an error of Recv, or a second SubscribeRequest, if the       *)
(* context is not cancelled, and ends.                                     *)
RecvError(s) ==
  /\ Open(s) /\ ~ctx[s] /\ ~recvErr[s]
  /\ Fault
  /\ recvErr' = [recvErr EXCEPT ![s] = TRUE]
  /\ UNCHANGED <<keyVars, gone, unread, readyWire, readyCh, readerVars, loopVars, ctx, throttle>>

--------------------------------------------------------------------------------
(* The client, and what ends a subscription from outside.                  *)

(* The CLI answers every event it has received with one Ready.             *)
ClientReady(s) ==
  /\ unread[s] > 0 /\ ~gone[s]
  /\ unread' = [unread EXCEPT ![s] = @ - 1]
  /\ readyWire' = [readyWire EXCEPT ![s] = @ + 1]
  /\ UNCHANGED <<redisVars, gone, recvErr, readyCh, readerVars, loopVars, ctx, throttle>>

(* The client hangs up: gRPC cancels the context of the stream.            *)
Hangup(s) ==
  /\ Open(s) /\ ~gone[s]
  /\ Fault
  /\ gone' = [gone EXCEPT ![s] = TRUE]
  /\ ctx' = [ctx EXCEPT ![s] = TRUE]
  /\ UNCHANGED <<keyVars, recvErr, unread, readyWire, readyCh, readerVars, loopVars, throttle>>

(* DisconnectClientByMachineID calls the cancel function of a subscription.*)
RemoteCancel(s) ==
  /\ Open(s) /\ ~ctx[s]
  /\ Fault
  /\ ctx' = [ctx EXCEPT ![s] = TRUE]
  /\ UNCHANGED <<keyVars, clientVars, readerVars, loopVars, throttle>>

(* A relay instance dies with its channels and goroutines.                 *)
Crash(r) ==
  LET dead == {s \in Subs : RelayOf[s] = r /\ (Open(s) \/ reader[s] \notin {"none", "stopped"})}
  IN  /\ dead # {}
      /\ Fault
      /\ conn' = [s \in Subs |-> IF s \in dead THEN "returned" ELSE conn[s]]
      /\ reader' = [s \in Subs |-> IF s \in dead THEN "stopped" ELSE reader[s]]
      /\ ctx' = [s \in Subs |-> ctx[s] \/ s \in dead]
      /\ gone' = [s \in Subs |-> gone[s] \/ s \in dead]
      /\ UNCHANGED keyVars
      /\ UNCHANGED <<recvErr, unread, readyWire, readyCh, log, queued, pending, taken, sent, throttle>>

--------------------------------------------------------------------------------
ReaderStep(s) ==
  \/ ThrottleSignal(s) \/ ReaderCancelled(s)
  \/ Fetch(s) \/ FetchReplyLost(s)
  \/ Enqueue(s) \/ \E ok \in BOOLEAN : Ack(s, ok)

LoopStep(s) ==
  \/ LoopReturns(s) \/ SkipEvent(s) \/ SendEvent(s) \/ SendFails(s) \/ GetReady(s)

Next ==
  \/ \E t \in Topics : Publish(t) \/ PrunerFindsStale(t) \/ PrunerDeletes(t)
  \/ \E s \in Subs :
       \/ \E made \in SUBSET TopicsOf[s] : Subscribe(s, made)
       \/ SubscribeFails(s)
       \/ ReaderStep(s) \/ LoopStep(s)
       \/ RecvReady(s) \/ RecvError(s) \/ ClientReady(s)
       \/ Hangup(s) \/ RemoteCancel(s)
  \/ \E r \in Relays : Crash(r)

Spec == Init /\ [][Next]_vars

(* Goroutines that can run do run, and a connected CLI answers every event *)
(* it has been sent.  Nothing obliges events, clients, pruners or faults   *)
(* to come.                                                                *)
Fairness ==
  \A s \in Subs :
    /\ WF_vars(ReaderStep(s))
    /\ WF_vars(LoopStep(s))
    /\ WF_vars(RecvReady(s))
    /\ WF_vars(ClientReady(s))

FairSpec == Spec /\ Fairness

--------------------------------------------------------------------------------
RedisTypes ==
  /\ published \in Seq(Topics) /\ Len(published) <= MaxEvents
  /\ stream \in [Topics -> SUBSET Events]
  /\ group \in [Topics -> BOOLEAN]
  /\ lastId \in [Topics -> 0 .. MaxEvents]
  /\ pel \in [Topics -> [Subs -> SUBSET Events]]
  /\ doomed \in SUBSET Topics

ClientTypes ==
  /\ gone \in [Subs -> BOOLEAN]
  /\ recvErr \in [Subs -> BOOLEAN]
  /\ unread \in [Subs -> Nat]
  /\ readyWire \in [Subs -> Nat]
  /\ readyCh \in [Subs -> Nat]

ReaderTypes ==
  /\ reader \in [Subs -> {"none", "throttled", "reading", "queueing", "acking",
                          "stopped"}]
  /\ log \in [Subs -> Seq(Events)]
  /\ queued \in [Subs -> Nat]
  /\ pending \in [Subs -> Nat]

LoopTypes ==
  /\ conn \in [Subs -> {"new", "select", "await", "returned"}]
  /\ taken \in [Subs -> Nat]
  /\ sent \in [Subs -> Seq(Events)]

TypeOK ==
  /\ RedisTypes /\ ClientTypes /\ ReaderTypes /\ LoopTypes
  /\ faults \in 0 .. MaxFaults
  /\ ctx \in [Subs -> BOOLEAN]
  /\ throttle \in [Subs -> BOOLEAN]

(* No webhook is sent twice: neither on one stream nor on two, of one      *)
(* relay or of several, whatever clients reconnect, instances crash and    *)
(* streams are pruned.  Consumers share the group's cursor, subscribing    *)
(* leaves the cursor of an existing group alone, and no reader claims the  *)
(* pending entries of another.                                             *)
AtMostOnce ==
  \A s1, s2 \in Subs : \A i \in DOMAIN sent[s1], j \in DOMAIN sent[s2] :
    sent[s1][i] = sent[s2][j] => s1 = s2 /\ i = j

(* A client sees the webhooks of a topic in the order of their XADDs,      *)
(* though it may miss some that another client has been given.             *)
InOrder ==
  \A s \in Subs : \A i, j \in DOMAIN sent[s] :
    i < j /\ published[sent[s][i]] = published[sent[s][j]]
      => sent[s][i] < sent[s][j]

(* "After sending each event, wait for Ready before sending next": one     *)
(* event at most is with a client that has not answered, counting its      *)
(* answer until the loop has seen it, and none when the loop may send.     *)
OneOutstanding ==
  \A s \in Subs :
    LET outstanding == unread[s] + readyWire[s] + readyCh[s]
    IN  /\ outstanding <= 1
        /\ conn[s] = "select" => outstanding = 0

(* Until an event is in a Go channel Redis still has it: an entry that     *)
(* was neither trimmed nor pruned is undelivered, or pending for the       *)
(* consumer that was given it, or has been put into eventsCh.              *)
Waiting(e) ==
  /\ e \in DOMAIN published
  /\ e \in Undelivered(published[e])

EventsAccounted ==
  \A e \in DOMAIN published :
    LET t == published[e]
    IN  e \in stream[t] =>
          \/ Waiting(e)
          \/ \E s \in Subs : e \in pel[t][s]
          \/ \E s \in Subs : \E i \in 1 .. queued[s] : log[s][i] = e

(* How far a single-topic reader runs ahead of its client: every Ready     *)
(* lets it take from Redis one window of at most MaxPending + ReadCount -  *)
(* 1 events, and it has one to begin with.  (The backlog itself is bounded *)
(* only by the channel: windows add up when events are not converted.)     *)
Window == MaxPending + ReadCount - 1

ReadAhead ==
  \A s \in Subs : Throttled(s) => Len(log[s]) <= (Len(sent[s]) + 1) * Window

Alive(s) == Open(s) /\ ~ctx[s] /\ ~recvErr[s]

(* While a subscription lives, an event that waits in one of its streams   *)
(* is eventually read by somebody or pruned - unless one of the streams    *)
(* has lost its group, for then every read of the subscription fails.      *)
WaitingEventsAreRead ==
  \A e \in Events, s \in Subs :
    (Waiting(e) /\ published[e] \in TopicsOf[s] /\ Alive(s))
      ~> (~Waiting(e) \/ ~Alive(s) \/ \E t \in TopicsOf[s] : ~group[t])

(* Every event that a reader has received is eventually taken out of the   *)
(* channel by its handler, or the subscription ends.                       *)
ReceivedEventsAreTaken ==
  \A s \in Subs, i \in Events :
    (i <= Len(log[s]) /\ Alive(s)) ~> (i <= taken[s] \/ ~Alive(s))

(* The relay keeps the promise of WebhookDelivery: what waits is what the  *)
(* groups have not delivered; what a subscription has been given and not   *)
(* yet dealt with is assigned to it while its handler runs, and lost after.*)
Promise == INSTANCE WebhookDelivery WITH
  Connections <- Subs,
  Bound       <- MaxEvents,
  accepted    <- Len(published),
  waiting     <- {e \in DOMAIN published : Waiting(e)},
  assigned    <- [s \in Subs |->
                    IF Open(s) THEN {log[s][i] : i \in taken[s] + 1 .. Len(log[s])}
                    ELSE {}],
  sent        <- [s \in Subs |-> {sent[s][i] : i \in DOMAIN sent[s]}]

KeepsPromise == Promise!Spec
================================================================================
