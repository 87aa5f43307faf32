------------------------- MODULE EventDelivery_proofs -------------------------
(***************************************************************************)
(* Proofs about EventDelivery, for every set of topics and subscriptions   *)
(* and every value of the bounds.                                          *)
(***************************************************************************)
EXTENDS EventDelivery, FiniteSetTheorems, SequenceTheorems, TLAPS

(* What a single XREADGROUP can return is a finite set of events.          *)
LEMMA ReadableIsFinite ==
  ASSUME TypeOK, NEW s \in Subs
  PROVE  /\ Readable(s) \in SUBSET Events
         /\ IsFiniteSet(Readable(s))
         /\ Cardinality(Readable(s)) \in Nat
<1>1. Readable(s) \in SUBSET Events
  BY DeliveryAssumption DEF TypeOK, RedisTypes, Readable, FirstOf, Undelivered
<1>2. IsFiniteSet(Events)
  BY FS_Interval, DeliveryAssumption DEF Events
<1>3. QED
  BY <1>1, <1>2, FS_Subset, FS_CardinalityType

(* A reply is a sequence of events.                                        *)
LEMMA ReplyIsSeq ==
  ASSUME TypeOK, NEW s \in Subs, NEW b \in Replies(Readable(s))
  PROVE  /\ b \in Seq(Events)
         /\ b \in Seq(Readable(s))
         /\ Len(b) = Cardinality(Readable(s))
<1>1. b \in [1 .. Cardinality(Readable(s)) -> Readable(s)]
  BY DEF Replies
<1>2. b \in [1 .. Cardinality(Readable(s)) -> Events]
  BY <1>1, ReadableIsFinite
<1>3. QED
  BY <1>1, <1>2, ReadableIsFinite

(* Where a reader stands in what it has received: taken events have been   *)
(* queued, queued ones received, and a reader that goes to Redis has put   *)
(* everything it received into the channel.                                *)
Positions ==
  \A s \in Subs :
    /\ taken[s] <= queued[s]
    /\ queued[s] <= Len(log[s])
    /\ reader[s] = "queueing" => queued[s] < Len(log[s])
    /\ reader[s] = "acking" => queued[s] > 0
    /\ reader[s] \in {"none", "reading", "throttled"} => queued[s] = Len(log[s])
    /\ conn[s] = "new" => reader[s] = "none"

(* A read that returns anything lengthens the log.                         *)
LEMMA FetchLengthensLog ==
  ASSUME TypeOK, NEW s \in Subs, Fetch(s)
  PROVE  \E b \in Replies(Readable(s)) :
           /\ log' = [log EXCEPT ![s] = @ \o b]
           /\ Len(log'[s]) = Len(log[s]) + Len(b)
           /\ Len(b) \in Nat \ {0}
<1>1. PICK b \in Replies(Readable(s)) : log' = [log EXCEPT ![s] = @ \o b]
  BY DEF Fetch
<1>2. Len(b) = Cardinality(Readable(s)) /\ b \in Seq(Events)
  BY ReplyIsSeq
<1>3. Cardinality(Readable(s)) # 0
  BY ReadableIsFinite, FS_EmptySet DEF Fetch, CanRead
<1>4. log'[s] = log[s] \o b /\ log[s] \in Seq(Events)
  BY <1>1 DEF TypeOK, ReaderTypes
<1>5. Len(log'[s]) = Len(log[s]) + Len(b)
  BY <1>2, <1>4, ConcatProperties
<1>6. Len(b) \in Nat \ {0}
  BY <1>2, <1>3, ReadableIsFinite
<1>7. QED
  BY <1>1, <1>5, <1>6

(* What a step leaves alone keeps its types.                               *)
LEMMA TypesUnchanged ==
  /\ RedisTypes /\ UNCHANGED keyVars => RedisTypes'
  /\ ClientTypes /\ UNCHANGED clientVars => ClientTypes'
  /\ ReaderTypes /\ UNCHANGED readerVars => ReaderTypes'
  /\ LoopTypes /\ UNCHANGED loopVars => LoopTypes'
<1>1. RedisTypes /\ UNCHANGED keyVars => RedisTypes'
  BY DEF RedisTypes, keyVars
<1>2. ClientTypes /\ UNCHANGED clientVars => ClientTypes'
  BY DEF ClientTypes, clientVars
<1>3. ReaderTypes /\ UNCHANGED readerVars => ReaderTypes'
  BY DEF ReaderTypes, readerVars
<1>4. LoopTypes /\ UNCHANGED loopVars => LoopTypes'
  BY DEF LoopTypes, loopVars
<1>5. QED
  BY <1>1, <1>2, <1>3, <1>4

LEMMA TakenOut ==
  ASSUME NEW P \in [Topics -> [Subs -> SUBSET Events]], NEW t, NEW s, NEW X
  PROVE  [P EXCEPT ![t][s] = @ \ {X}] \in [Topics -> [Subs -> SUBSET Events]]
<1>1. CASE t \in Topics /\ s \in Subs
  BY <1>1
<1>2. CASE ~(t \in Topics /\ s \in Subs)
  BY <1>2
<1>3. QED
  BY <1>1, <1>2

(* Every step keeps the types; only SendEvent needs more than the types,   *)
(* for the event in hand has to be one that was received.                  *)
LEMMA TypeStep == TypeOK /\ Positions /\ [Next]_vars => TypeOK'
<1> SUFFICES ASSUME TypeOK, Positions, [Next]_vars PROVE TypeOK'
  OBVIOUS
<1> USE DeliveryAssumption, TypesUnchanged
<1>1. ASSUME NEW t \in Topics, Publish(t) PROVE TypeOK'
  <2>1. PICK low \in 0 .. Len(published) :
          stream' = [stream EXCEPT ![t] =
            {e \in stream[t] \cup {Len(published) + 1} : e > low}]
    BY <1>1 DEF Publish
  <2>2. published' \in Seq(Topics) /\ Len(published') = Len(published) + 1
    BY <1>1 DEF Publish, TypeOK, RedisTypes
  <2>3. Len(published) + 1 \in Events
    BY <1>1 DEF Publish, TypeOK, RedisTypes, Events
  <2>4. stream' \in [Topics -> SUBSET Events]
    BY <2>1, <2>3 DEF TypeOK, RedisTypes
  <2>5. Len(published') <= MaxEvents
    BY <1>1, <2>2 DEF Publish, TypeOK, RedisTypes
  <2>6. RedisTypes'
    BY <1>1, <2>2, <2>4, <2>5 DEF Publish, TypeOK, RedisTypes
  <2>7. QED
    BY <1>1, <2>6 DEF Publish, TypeOK
<1>2. ASSUME NEW t \in Topics, PrunerFindsStale(t) PROVE TypeOK'
  <2>1. RedisTypes'
    BY <1>2 DEF PrunerFindsStale, TypeOK, RedisTypes
  <2>2. QED
    BY <1>2, <2>1 DEF PrunerFindsStale, Fault, TypeOK
<1>3. ASSUME NEW t \in Topics, PrunerDeletes(t) PROVE TypeOK'
  <2>1. RedisTypes'
    BY <1>3 DEF PrunerDeletes, TypeOK, RedisTypes
  <2>2. QED
    BY <1>3, <2>1 DEF PrunerDeletes, TypeOK
<1>4. ASSUME NEW s \in Subs, NEW made \in SUBSET TopicsOf[s], Subscribe(s, made)
      PROVE TypeOK'
  <2>1. RedisTypes'
    BY <1>4 DEF Subscribe, CreateGroups, TypeOK, RedisTypes
  <2>2. faults' \in 0 .. MaxFaults
    BY <1>4 DEF Subscribe, Fault, TypeOK
  <2>3. ReaderTypes' /\ LoopTypes'
    BY <1>4 DEF Subscribe, TypeOK, ReaderTypes, LoopTypes
  <2>4. QED
    BY <1>4, <2>1, <2>2, <2>3 DEF Subscribe, TypeOK
<1>5. ASSUME NEW s \in Subs, SubscribeFails(s) PROVE TypeOK'
  <2>1. LoopTypes'
    BY <1>5 DEF SubscribeFails, TypeOK, LoopTypes
  <2>2. QED
    BY <1>5, <2>1 DEF SubscribeFails, Fault, TypeOK
<1>6. ASSUME NEW s \in Subs, ThrottleSignal(s) \/ ReaderCancelled(s) PROVE TypeOK'
  <2>1. CASE ThrottleSignal(s)
    <3>1. ReaderTypes' /\ throttle' \in [Subs -> BOOLEAN]
      BY <2>1 DEF ThrottleSignal, TypeOK, ReaderTypes
    <3>2. QED
      BY <2>1, <3>1 DEF ThrottleSignal, TypeOK, redisVars
  <2>2. CASE ReaderCancelled(s)
    <3>1. ReaderTypes'
      BY <2>2 DEF ReaderCancelled, TypeOK, ReaderTypes
    <3>2. QED
      BY <2>2, <3>1 DEF ReaderCancelled, TypeOK, redisVars
  <2>3. QED
    BY <1>6, <2>1, <2>2
<1>7. ASSUME NEW s \in Subs, Deliver(s, Readable(s)) PROVE RedisTypes'
  <2>1. \A t \in Topics : Mine(Readable(s), t) \in SUBSET Events
    BY ReadableIsFinite DEF Mine
  <2>2. pel' \in [Topics -> [Subs -> SUBSET Events]]
    BY <1>7, <2>1 DEF Deliver, TypeOK, RedisTypes
  <2>3. QED
    BY <1>7, <2>2 DEF Deliver, MoveCursors, TypeOK, RedisTypes
<1>8. ASSUME NEW s \in Subs, Fetch(s) PROVE TypeOK'
  <2>1. PICK b \in Replies(Readable(s)) : log' = [log EXCEPT ![s] = @ \o b]
    BY <1>8 DEF Fetch
  <2>2. b \in Seq(Events)
    BY ReplyIsSeq
  <2>3. log' \in [Subs -> Seq(Events)]
    BY <2>1, <2>2 DEF TypeOK, ReaderTypes
  <2>4. ReaderTypes'
    BY <1>8, <2>3 DEF Fetch, TypeOK, ReaderTypes
  <2>5. RedisTypes'
    BY <1>7, <1>8 DEF Fetch
  <2>6. QED
    BY <1>8, <2>4, <2>5 DEF Fetch, TypeOK
<1>9. ASSUME NEW s \in Subs, FetchReplyLost(s) PROVE TypeOK'
  <2>1. RedisTypes'
    BY <1>7, <1>9 DEF FetchReplyLost
  <2>2. QED
    BY <1>9, <2>1 DEF FetchReplyLost, Fault, TypeOK
<1>10. ASSUME NEW s \in Subs, Enqueue(s) PROVE TypeOK'
  <2>1. ReaderTypes'
    BY <1>10 DEF Enqueue, TypeOK, ReaderTypes
  <2>2. QED
    BY <1>10, <2>1 DEF Enqueue, TypeOK, redisVars
<1>11. ASSUME NEW s \in Subs, NEW ok \in BOOLEAN, Ack(s, ok) PROVE TypeOK'
  <2>1. RedisTypes'
    <3> DEFINE e == log[s][queued[s]]
               t == published[e]
    <3>1. pel' = pel \/ pel' = [pel EXCEPT ![t][s] = @ \ {e}]
      BY <1>11 DEF Ack
    <3> HIDE DEF e, t
    <3>2. pel \in [Topics -> [Subs -> SUBSET Events]]
      BY DEF TypeOK, RedisTypes
    <3>3. [pel EXCEPT ![t][s] = @ \ {e}] \in [Topics -> [Subs -> SUBSET Events]]
      BY <3>2, TakenOut
    <3>4. pel' \in [Topics -> [Subs -> SUBSET Events]]
      BY <3>1, <3>2, <3>3, Zenon
    <3>5. QED
      BY <1>11, <3>4 DEF Ack, TypeOK, RedisTypes
  <2>2. pending' \in [Subs -> Nat] /\ faults' \in 0 .. MaxFaults
    BY <1>11 DEF Ack, Fault, TypeOK, ReaderTypes
  <2>3. ReaderTypes'
    BY <1>11, <2>2 DEF Ack, NextRead, TypeOK, ReaderTypes
  <2>4. QED
    BY <1>11, <2>1, <2>2, <2>3 DEF Ack, TypeOK
<1>12. ASSUME NEW s \in Subs, LoopReturns(s) PROVE TypeOK'
  <2>1. LoopTypes' /\ ctx' \in [Subs -> BOOLEAN]
    BY <1>12 DEF LoopReturns, Return, TypeOK, LoopTypes
  <2>2. QED
    BY <1>12, <2>1 DEF LoopReturns, TypeOK, redisVars
<1>13. ASSUME NEW s \in Subs, SkipEvent(s) PROVE TypeOK'
  <2>1. LoopTypes'
    BY <1>13 DEF SkipEvent, TypeOK, LoopTypes
  <2>2. QED
    BY <1>13, <2>1 DEF SkipEvent, TypeOK, redisVars
<1>14. ASSUME NEW s \in Subs, SendEvent(s) PROVE TypeOK'
  <2>1. taken[s] + 1 \in 1 .. Len(log[s])
    BY <1>14 DEF SendEvent, Received, Positions, TypeOK, ReaderTypes, LoopTypes
  <2>2. InHand(s) \in Events
    BY <2>1, ElementOfSeq DEF InHand, TypeOK, ReaderTypes
  <2>3. LoopTypes'
    BY <1>14, <2>2 DEF SendEvent, TypeOK, LoopTypes
  <2>4. ClientTypes'
    BY <1>14 DEF SendEvent, TypeOK, ClientTypes
  <2>5. QED
    BY <1>14, <2>3, <2>4 DEF SendEvent, TypeOK, redisVars
<1>15. ASSUME NEW s \in Subs, SendFails(s) PROVE TypeOK'
  <2>1. LoopTypes' /\ ctx' \in [Subs -> BOOLEAN]
    BY <1>15 DEF SendFails, Return, TypeOK, LoopTypes
  <2>2. QED
    BY <1>15, <2>1 DEF SendFails, TypeOK, redisVars
<1>16. ASSUME NEW s \in Subs, GetReady(s) PROVE TypeOK'
  <2>1. LoopTypes'
    BY <1>16 DEF GetReady, TypeOK, LoopTypes
  <2>2. readyCh' \in [Subs -> Nat]
    <3>1. readyCh[s] - 1 \in Nat /\ readyCh' = [readyCh EXCEPT ![s] = readyCh[s] - 1]
      BY <1>16 DEF GetReady, TypeOK, ClientTypes
    <3>2. QED
      BY <3>1 DEF TypeOK, ClientTypes
  <2>3. throttle' \in [Subs -> BOOLEAN]
    <3>1. throttle \in [Subs -> BOOLEAN] /\ throttle' = [throttle EXCEPT ![s] = TRUE]
      BY <1>16 DEF GetReady, TypeOK
    <3>2. QED
      BY <3>1, Zenon
  <2>4. UNCHANGED <<gone, recvErr, unread, readyWire, ctx, faults>> /\ UNCHANGED readerVars
        /\ UNCHANGED redisVars
    BY <1>16 DEF GetReady, redisVars
  <2>5. ClientTypes'
    BY <2>2, <2>4 DEF TypeOK, ClientTypes
  <2>6. QED
    BY <2>1, <2>3, <2>4, <2>5 DEF TypeOK, redisVars
<1>17. ASSUME NEW s \in Subs, RecvReady(s) \/ ClientReady(s) PROVE TypeOK'
  <2>1. ClientTypes'
    BY <1>17 DEF RecvReady, ClientReady, TypeOK, ClientTypes
  <2>2. QED
    BY <1>17, <2>1 DEF RecvReady, ClientReady, TypeOK, redisVars
<1>18. ASSUME NEW s \in Subs, RecvError(s) \/ Hangup(s) PROVE TypeOK'
  <2>1. ClientTypes' /\ ctx' \in [Subs -> BOOLEAN]
    BY <1>18 DEF RecvError, Hangup, TypeOK, ClientTypes
  <2>2. QED
    BY <1>18, <2>1 DEF RecvError, Hangup, Fault, TypeOK
<1>19. ASSUME NEW s \in Subs, RemoteCancel(s) PROVE TypeOK'
  BY <1>19 DEF RemoteCancel, Fault, TypeOK
<1>20. ASSUME NEW r \in Relays, Crash(r) PROVE TypeOK'
  <2> DEFINE dead == {s \in Subs : /\ RelayOf[s] = r
                                   /\ Open(s) \/ reader[s] \notin {"none", "stopped"}}
  <2>1. /\ conn' = [s \in Subs |-> IF s \in dead THEN "returned" ELSE conn[s]]
        /\ reader' = [s \in Subs |-> IF s \in dead THEN "stopped" ELSE reader[s]]
        /\ ctx' = [s \in Subs |-> ctx[s] \/ s \in dead]
        /\ gone' = [s \in Subs |-> gone[s] \/ s \in dead]
    BY <1>20 DEF Crash
  <2>2. /\ Fault /\ UNCHANGED keyVars
        /\ UNCHANGED <<recvErr, unread, readyWire, readyCh, log, queued, pending, taken,
                      sent, throttle>>
    BY <1>20 DEF Crash
  <2> HIDE DEF dead
  <2>3. ctx' \in [Subs -> BOOLEAN] /\ gone' \in [Subs -> BOOLEAN]
    BY <2>1, Zenon
  <2>4. LoopTypes' /\ ReaderTypes'
    BY <2>1, <2>2 DEF TypeOK, LoopTypes, ReaderTypes
  <2>5. ClientTypes'
    BY <2>2, <2>3 DEF TypeOK, ClientTypes
  <2>6. QED
    BY <2>2, <2>3, <2>4, <2>5 DEF Fault, TypeOK
<1>21. CASE UNCHANGED vars
  BY <1>21 DEF vars, TypeOK, redisVars
<1>22. QED
  BY <1>1, <1>2, <1>3, <1>4, <1>5, <1>6, <1>8, <1>9, <1>10, <1>11, <1>12, <1>13, <1>14,
     <1>15, <1>16, <1>17, <1>18, <1>19, <1>20, <1>21 DEF Next, ReaderStep, LoopStep

(* The steps that move a reader or the handler along the log.              *)
LEMMA PositionsStep == TypeOK /\ Positions /\ [Next]_vars => Positions'
<1> SUFFICES ASSUME TypeOK, Positions, [Next]_vars PROVE Positions'
  OBVIOUS
<1> USE DeliveryAssumption
<1>1. CASE UNCHANGED <<taken, queued, log, reader>> /\ \A s \in Subs : conn'[s] = "new" => conn[s] = "new"
  BY <1>1 DEF Positions
<1>2. ASSUME NEW s \in Subs, NEW made \in SUBSET TopicsOf[s], Subscribe(s, made)
      PROVE Positions'
  BY <1>2 DEF Subscribe, Positions, TypeOK, ReaderTypes, LoopTypes
<1>3. ASSUME NEW s \in Subs, ThrottleSignal(s) \/ ReaderCancelled(s) PROVE Positions'
  BY <1>3 DEF ThrottleSignal, ReaderCancelled, Positions, TypeOK, ReaderTypes, LoopTypes, loopVars
<1>4. ASSUME NEW s \in Subs, Fetch(s) PROVE Positions'
  <2>1. PICK b \in Replies(Readable(s)) :
          /\ log' = [log EXCEPT ![s] = @ \o b]
          /\ Len(log'[s]) = Len(log[s]) + Len(b)
          /\ Len(b) \in Nat \ {0}
    BY <1>4, FetchLengthensLog
  <2>2. \A r \in Subs : r # s => log'[r] = log[r]
    BY <2>1 DEF TypeOK, ReaderTypes, LoopTypes
  <2>3. Len(log[s]) \in Nat
    BY DEF TypeOK, ReaderTypes, LoopTypes
  <2>4. QED
    BY <1>4, <2>1, <2>2, <2>3 DEF Fetch, Positions, TypeOK, ReaderTypes, LoopTypes, loopVars
<1>5. ASSUME NEW s \in Subs, Enqueue(s) PROVE Positions'
  BY <1>5 DEF Enqueue, Positions, TypeOK, ReaderTypes, LoopTypes, loopVars
<1>6. ASSUME NEW s \in Subs, NEW ok \in BOOLEAN, Ack(s, ok) PROVE Positions'
  <2>1. reader' = [reader EXCEPT ![s] =
          IF queued[s] < Len(log[s]) THEN "queueing" ELSE NextRead(s, pending'[s])]
    BY <1>6 DEF Ack
  <2>2. NextRead(s, pending'[s]) \in {"reading", "throttled"}
    BY DEF NextRead
  <2>3. UNCHANGED <<taken, queued, log, conn>> /\ reader[s] = "acking"
    BY <1>6 DEF Ack, loopVars
  <2>4. QED
    BY <2>1, <2>2, <2>3 DEF Positions, TypeOK, ReaderTypes, LoopTypes
<1>7. ASSUME NEW s \in Subs, SkipEvent(s) \/ SendEvent(s) \/ SendFails(s) PROVE Positions'
  <2>1. /\ Received(s)
        /\ taken' = [taken EXCEPT ![s] = @ + 1]
        /\ UNCHANGED <<reader, log, queued>>
        /\ \A r \in Subs : conn'[r] = "new" => conn[r] = "new"
    BY <1>7 DEF SkipEvent, SendEvent, SendFails, Return, readerVars, TypeOK, LoopTypes
  <2>2. QED
    BY <2>1 DEF Received, Positions, TypeOK, ReaderTypes, LoopTypes
<1>8. ASSUME NEW r \in Relays, Crash(r) PROVE Positions'
  <2>1. UNCHANGED <<taken, queued, log>>
    BY <1>8 DEF Crash
  <2>2. \A s \in Subs : \/ reader'[s] = reader[s] /\ conn'[s] = conn[s]
                        \/ reader'[s] = "stopped" /\ conn'[s] = "returned"
    BY <1>8 DEF Crash
  <2>3. QED
    BY <2>1, <2>2 DEF Positions
<1>9. ASSUME NEW s \in Subs, SubscribeFails(s) \/ LoopReturns(s) \/ GetReady(s)
      PROVE Positions'
  <2>1. \A r \in Subs : conn'[r] = "new" => conn[r] = "new"
    BY <1>9 DEF SubscribeFails, LoopReturns, GetReady, Return, TypeOK, LoopTypes
  <2>2. UNCHANGED <<taken, queued, log, reader>>
    BY <1>9 DEF SubscribeFails, LoopReturns, GetReady, readerVars
  <2>3. QED
    BY <2>1, <2>2 DEF Positions
<1>10. QED
  BY <1>1, <1>2, <1>3, <1>4, <1>5, <1>6, <1>7, <1>8, <1>9
     DEF Next, vars, ReaderStep, LoopStep, Publish, PrunerFindsStale, PrunerDeletes,
         FetchReplyLost, RecvReady, RecvError, ClientReady, Hangup, RemoteCancel,
         readerVars, loopVars

(* Every variable always has its type, whatever the topics, subscriptions  *)
(* and bounds: no reader queues what it did not receive, no handler takes  *)
(* what was not queued, and readyCh never goes below zero.                 *)
THEOREM TypeCorrect == Spec => [](TypeOK /\ Positions)
<1>1. Init => TypeOK /\ Positions
  <2> SUFFICES ASSUME Init PROVE TypeOK /\ Positions
    OBVIOUS
  <2>1. RedisTypes /\ ClientTypes /\ ReaderTypes /\ LoopTypes
    BY DeliveryAssumption DEF Init, RedisTypes, ClientTypes, ReaderTypes, LoopTypes
  <2>2. TypeOK
    BY <2>1, DeliveryAssumption DEF Init, TypeOK
  <2>3. QED
    BY <2>2 DEF Init, Positions
<1>2. TypeOK /\ Positions /\ [Next]_vars => (TypeOK /\ Positions)'
  BY TypeStep, PositionsStep
<1>3. QED
  BY <1>1, <1>2, PTL DEF Spec

--------------------------------------------------------------------------------
(* What the consumer group and the readers have between them.              *)

(* A stream holds events of its topic, numbers that were given out, and    *)
(* the cursor stands on such a number, or on 0 while there is no group.    *)
StreamsAreTopics ==
  \A t \in Topics :
    /\ \A e \in stream[t] : e \in DOMAIN published /\ published[e] = t
    /\ lastId[t] <= Len(published)
    /\ ~group[t] => lastId[t] = 0

LogsArePublished ==
  \A s \in Subs : \A i \in DOMAIN log[s] : log[s][i] \in DOMAIN published

(* What waits in a stream is newer than all that any reader has received   *)
(* from it; this outlives the pruning of the stream, which sets the cursor *)
(* back to 0.                                                              *)
WaitingAreNewer ==
  \A t \in Topics : \A e \in Undelivered(t) :
    \A s \in Subs : \A i \in DOMAIN log[s] : published[log[s][i]] = t => log[s][i] < e

LoggedOnce ==
  \A s1, s2 \in Subs : \A i \in DOMAIN log[s1], j \in DOMAIN log[s2] :
    log[s1][i] = log[s2][j] => s1 = s2 /\ i = j

LogInOrder ==
  \A s \in Subs : \A i, j \in DOMAIN log[s] :
    i < j /\ published[log[s][i]] = published[log[s][j]] => log[s][i] < log[s][j]

(* What was sent is a part of what was taken, in the same order.           *)
SentFromLog ==
  \A s \in Subs :
    /\ \A i \in DOMAIN sent[s] : \E k \in 1 .. taken[s] : sent[s][i] = log[s][k]
    /\ \A i, j \in DOMAIN sent[s] :
         i < j => \E k, l \in 1 .. taken[s] :
                    k < l /\ sent[s][i] = log[s][k] /\ sent[s][j] = log[s][l]

LogInv ==
  /\ StreamsAreTopics /\ LogsArePublished /\ WaitingAreNewer
  /\ LoggedOnce /\ LogInOrder /\ SentFromLog
  /\ EventsAccounted

DeliveryInv == TypeOK /\ Positions /\ LogInv

(* What a read returns waits in a stream of the subscription, and with an  *)
(* event everything that waits before it.                                  *)
LEMMA ReadableWaits ==
  ASSUME TypeOK, StreamsAreTopics, NEW s \in Subs
  PROVE  /\ \A e \in Readable(s) :
              /\ e \in DOMAIN published
              /\ published[e] \in TopicsOf[s]
              /\ e \in Undelivered(published[e])
         /\ \A f \in Readable(s) : \A e \in Undelivered(published[f]) :
              e <= f => e \in Readable(s)
<1> USE DeliveryAssumption
<1>1. ASSUME NEW e \in Readable(s)
      PROVE  /\ e \in DOMAIN published
             /\ published[e] \in TopicsOf[s]
             /\ e \in FirstOf(Undelivered(published[e]), ReadCount)
  <2>1. PICK t \in TopicsOf[s] : e \in FirstOf(Undelivered(t), ReadCount)
    BY DEF Readable
  <2>2. t \in Topics /\ e \in stream[t]
    BY <2>1 DEF FirstOf, Undelivered
  <2>3. e \in DOMAIN published /\ published[e] = t
    BY <2>2 DEF StreamsAreTopics
  <2>4. QED
    BY <2>1, <2>3
<1>2. ASSUME NEW f \in Readable(s), NEW e \in Undelivered(published[f]), e <= f
      PROVE  e \in Readable(s)
  <2> DEFINE U == Undelivered(published[f])
             upto(x) == {g \in U : g <= x}
  <2>1. published[f] \in TopicsOf[s] /\ published[f] \in Topics
    BY <1>1
  <2>2. U \in SUBSET Events
    BY <2>1 DEF Undelivered, TypeOK, RedisTypes
  <2>3. U \in SUBSET Nat /\ e \in Nat /\ f \in Nat
    <3>1. f \in U /\ e \in U
      BY <1>1 DEF FirstOf
    <3>2. QED
      BY <2>2, <3>1 DEF Events
  <2>4. IsFiniteSet(upto(f)) /\ upto(e) \subseteq upto(f)
    <3>1. IsFiniteSet(Events)
      BY FS_Interval DEF Events
    <3>2. QED
      BY <1>2, <2>2, <2>3, <3>1, FS_Subset
  <2>5. Cardinality(upto(e)) <= Cardinality(upto(f))
    BY <2>4, FS_Subset
  <2>6. Cardinality(upto(f)) <= ReadCount
    BY <1>1 DEF FirstOf
  <2>7. Cardinality(upto(e)) \in Nat /\ Cardinality(upto(f)) \in Nat
    BY <2>4, FS_Subset, FS_CardinalityType
  <2>8. e \in FirstOf(U, ReadCount)
    BY <1>2, <2>5, <2>6, <2>7 DEF FirstOf
  <2>9. QED
    BY <2>1, <2>8 DEF Readable
<1>3. QED
  BY <1>1, <1>2 DEF FirstOf

(* How a read moves the cursors: what still waits waited before and comes  *)
(* after all that was read; what waits no more was read.                   *)
LEMMA DeliverMoves ==
  ASSUME TypeOK, StreamsAreTopics,
         NEW s \in Subs, CanRead(s), Deliver(s, Readable(s))
  PROVE  /\ StreamsAreTopics'
         /\ \A t \in Topics : \A e \in Undelivered(t)' :
              e \in Undelivered(t) /\ \A f \in Mine(Readable(s), t) : f < e
         /\ \A t \in Topics : \A e \in Undelivered(t) :
              e \notin Undelivered(t)' => e \in Mine(Readable(s), t)
<1> DEFINE S == Readable(s)
<1>1. /\ \A e \in S : /\ e \in DOMAIN published /\ published[e] \in TopicsOf[s]
                      /\ e \in Undelivered(published[e])
      /\ \A f \in S : \A e \in Undelivered(published[f]) : e <= f => e \in S
  BY ReadableWaits
<1>2. /\ UNCHANGED <<published, stream, group>>
      /\ \A t \in Topics :
           IF Mine(S, t) = {} THEN lastId'[t] = lastId[t]
           ELSE lastId'[t] \in Mine(S, t) /\ \A e \in Mine(S, t) : e <= lastId'[t]
  BY DEF Deliver, MoveCursors
<1>3. \A t \in Topics : lastId[t] \in Nat /\ \A e \in stream[t] : e \in Nat
  BY DeliveryAssumption DEF TypeOK, RedisTypes, Events
<1>4. Len(published) \in Nat /\ DOMAIN published = 1 .. Len(published)
  BY DEF TypeOK, RedisTypes
<1> HIDE DEF S
<1>5. ASSUME NEW t \in Topics
      PROVE  /\ lastId'[t] \in Nat /\ lastId'[t] <= Len(published)
             /\ ~group[t] => lastId'[t] = 0
             /\ lastId[t] <= lastId'[t]
  <2>1. CASE Mine(S, t) = {}
    BY <1>2, <1>3, <2>1 DEF StreamsAreTopics
  <2>2. CASE Mine(S, t) # {}
    <3>1. lastId'[t] \in S /\ published[lastId'[t]] = t
      BY <1>2, <2>2 DEF Mine
    <3>2. t \in TopicsOf[s] /\ lastId'[t] \in 1 .. Len(published)
      BY <1>1, <1>4, <3>1
    <3>3. lastId'[t] > lastId[t]
      BY <1>1, <3>1 DEF Undelivered
    <3>4. QED
      BY <1>3, <1>4, <3>2, <3>3 DEF CanRead
  <2>3. QED
    BY <2>1, <2>2
<1>6. StreamsAreTopics'
  BY <1>2, <1>5 DEF StreamsAreTopics
<1>7. ASSUME NEW t \in Topics, NEW e \in Undelivered(t)'
      PROVE  e \in Undelivered(t) /\ \A f \in Mine(S, t) : f < e
  <2>1. e \in stream[t] /\ e > lastId'[t]
    BY <1>2, <1>7 DEF Undelivered
  <2>2. e \in Undelivered(t)
    BY <1>3, <1>5, <2>1 DEF Undelivered
  <2>3. \A f \in Mine(S, t) : f <= lastId'[t] /\ f \in Nat
    BY <1>1, <1>2, <1>4 DEF Mine
  <2>4. QED
    BY <1>3, <1>5, <2>1, <2>2, <2>3
<1>8. ASSUME NEW t \in Topics, NEW e \in Undelivered(t), e \notin Undelivered(t)'
      PROVE  e \in Mine(S, t)
  <2>1. e \in stream[t] /\ e > lastId[t] /\ e <= lastId'[t]
    BY <1>2, <1>3, <1>5, <1>8 DEF Undelivered
  <2>2. lastId'[t] \in S /\ published[lastId'[t]] = t
    BY <1>2, <1>3, <2>1 DEF Mine
  <2>3. published[e] = t
    BY <2>1 DEF StreamsAreTopics
  <2>4. QED
    BY <1>1, <1>8, <2>1, <2>2, <2>3 DEF Mine
<1>9. QED
  BY <1>6, <1>7, <1>8 DEF S

(* A published event is new to every log, and waits in its stream.         *)
LEMMA PublishKeepsLog ==
  ASSUME DeliveryInv, NEW t \in Topics, Publish(t)
  PROVE  LogInv'
<1> USE DEF DeliveryInv
<1>1. PICK low \in 0 .. Len(published) :
        stream' = [stream EXCEPT ![t] =
          {e \in stream[t] \cup {Len(published) + 1} : e > low}]
  BY DEF Publish
<1>2. /\ published' = Append(published, t)
      /\ UNCHANGED <<group, lastId, pel, log, queued, taken, sent>>
  BY DEF Publish, readerVars, loopVars
<1> DEFINE new == Len(published) + 1
<1>3. /\ DOMAIN published = 1 .. Len(published) /\ Len(published) \in Nat
      /\ DOMAIN published' = 1 .. new /\ published'[new] = t /\ Len(published') = new
      /\ \A e \in DOMAIN published : e \in DOMAIN published' /\ published'[e] = published[e]
  BY <1>2 DEF TypeOK, RedisTypes
<1>4. \A u \in Topics : /\ lastId[u] \in Nat /\ lastId[u] < new
                       /\ \A e \in stream'[u] : e \in stream[u] \/ (e = new /\ u = t)
  BY <1>1, <1>3 DEF TypeOK, RedisTypes, LogInv, StreamsAreTopics
<1>5. \A s \in Subs : \A i \in DOMAIN log[s] : log[s][i] \in 1 .. Len(published)
  BY <1>3 DEF LogInv, LogsArePublished
<1>6. StreamsAreTopics'
  <2>1. ASSUME NEW u \in Topics, NEW e \in stream'[u]
        PROVE  e \in DOMAIN published' /\ published'[e] = u
    BY <1>3, <1>4, <2>1 DEF LogInv, StreamsAreTopics
  <2>2. ASSUME NEW u \in Topics
        PROVE  lastId'[u] <= Len(published') /\ (~group'[u] => lastId'[u] = 0)
    BY <1>2, <1>3, <1>4 DEF LogInv, StreamsAreTopics
  <2>3. QED
    BY <2>1, <2>2 DEF StreamsAreTopics
<1>7. LogsArePublished'
  BY <1>2, <1>3 DEF LogInv, LogsArePublished
<1>8. WaitingAreNewer'
  <2> SUFFICES ASSUME NEW u \in Topics, NEW e \in Undelivered(u)',
                      NEW s \in Subs, NEW i \in DOMAIN log[s], published'[log[s][i]] = u
               PROVE  log[s][i] < e
    BY <1>2 DEF WaitingAreNewer
  <2>1. e \in stream'[u] /\ e > lastId[u]
    BY <1>2 DEF Undelivered
  <2>2. CASE e \in stream[u]
    BY <1>3, <1>5, <2>1, <2>2 DEF Undelivered, LogInv, WaitingAreNewer
  <2>3. CASE e = new
    BY <1>3, <1>5, <2>3
  <2>4. QED
    BY <1>4, <2>1, <2>2, <2>3
<1>9. LoggedOnce' /\ SentFromLog'
  BY <1>2 DEF LogInv, LoggedOnce, SentFromLog
<1>10. LogInOrder'
  BY <1>2, <1>3, <1>5 DEF LogInv, LogInOrder
<1>11. EventsAccounted'
  <2> SUFFICES ASSUME NEW e \in DOMAIN published', e \in stream'[published'[e]]
               PROVE  \/ Waiting(e)'
                      \/ \E s \in Subs : e \in pel'[published'[e]][s]
                      \/ \E s \in Subs : \E i \in 1 .. queued'[s] : log'[s][i] = e
    BY DEF EventsAccounted
  <2>1. published'[e] \in Topics
    BY <1>2, <1>3 DEF TypeOK, RedisTypes
  <2>2. CASE e = new
    BY <1>2, <1>3, <1>4, <2>1, <2>2 DEF Waiting, Undelivered
  <2>3. CASE e # new
    <3>1. e \in DOMAIN published /\ published'[e] = published[e]
      BY <1>3, <2>3
    <3>2. e \in stream[published[e]]
      BY <1>4, <2>1, <2>3, <3>1
    <3>3. Waiting(e) => Waiting(e)'
      BY <1>2, <3>1 DEF Waiting, Undelivered
    <3>4. QED
      BY <1>2, <3>1, <3>2, <3>3 DEF LogInv, EventsAccounted
  <2>4. QED
    BY <2>2, <2>3
<1>12. QED
  BY <1>6, <1>7, <1>8, <1>9, <1>10, <1>11 DEF LogInv

(* Pruning empties a stream, so nothing of it is waiting or unaccounted.   *)
LEMMA PruneKeepsLog ==
  ASSUME DeliveryInv, NEW t \in Topics, PrunerDeletes(t)
  PROVE  LogInv'
<1> USE DEF DeliveryInv
<1>1. /\ stream' = [stream EXCEPT ![t] = {}] /\ group' = [group EXCEPT ![t] = FALSE]
      /\ lastId' = [lastId EXCEPT ![t] = 0]
      /\ pel' = [pel EXCEPT ![t] = [s \in Subs |-> {}]]
      /\ UNCHANGED <<published, log, queued, taken, sent>>
  BY DEF PrunerDeletes, readerVars, loopVars
<1>2. \A u \in Topics : u # t => Undelivered(u)' = Undelivered(u)
  BY <1>1 DEF Undelivered, TypeOK, RedisTypes
<1>3. Undelivered(t)' = {}
  BY <1>1 DEF Undelivered, TypeOK, RedisTypes
<1>4. StreamsAreTopics'
  BY <1>1 DEF LogInv, StreamsAreTopics, TypeOK, RedisTypes
<1>5. LogsArePublished' /\ LoggedOnce' /\ LogInOrder' /\ SentFromLog'
  BY <1>1 DEF LogInv, LogsArePublished, LoggedOnce, LogInOrder, SentFromLog
<1>6. WaitingAreNewer'
  BY <1>1, <1>2, <1>3 DEF LogInv, WaitingAreNewer
<1>7. EventsAccounted'
  <2> SUFFICES ASSUME NEW e \in DOMAIN published, e \in stream'[published[e]]
               PROVE  \/ Waiting(e)'
                      \/ \E s \in Subs : e \in pel'[published[e]][s]
                      \/ \E s \in Subs : \E i \in 1 .. queued[s] : log[s][i] = e
    BY <1>1 DEF EventsAccounted
  <2>1. published[e] \in Topics
    BY DEF TypeOK, RedisTypes
  <2>2. published[e] # t /\ e \in stream[published[e]]
    BY <1>1, <2>1 DEF TypeOK, RedisTypes
  <2>3. Waiting(e) => Waiting(e)'
    BY <1>1, <1>2, <2>1, <2>2 DEF Waiting
  <2>4. pel'[published[e]] = pel[published[e]]
    BY <1>1, <2>1, <2>2 DEF TypeOK, RedisTypes
  <2>5. QED
    BY <2>2, <2>3, <2>4 DEF LogInv, EventsAccounted
<1>8. QED
  BY <1>4, <1>5, <1>6, <1>7 DEF LogInv

(* Subscribing makes groups and moves no cursor: a cursor without a group  *)
(* is 0 already.                                                           *)
LEMMA SubscribeKeepsLog ==
  ASSUME DeliveryInv, NEW s \in Subs, NEW made \in SUBSET TopicsOf[s], Subscribe(s, made)
  PROVE  LogInv'
<1> USE DEF DeliveryInv
<1>1. UNCHANGED <<published, stream, pel, log, queued, taken, sent>>
  BY DEF Subscribe
<1>2. lastId' = lastId
  BY DEF Subscribe, CreateGroups, LogInv, StreamsAreTopics, TypeOK, RedisTypes
<1>3. \A t \in Topics : ~group'[t] => ~group[t]
  BY DEF Subscribe, CreateGroups
<1>4. StreamsAreTopics'
  BY <1>1, <1>2, <1>3 DEF LogInv, StreamsAreTopics
<1>5. QED
  BY <1>1, <1>2, <1>4 DEF LogInv, LogsArePublished, WaitingAreNewer, LoggedOnce, LogInOrder,
     SentFromLog, EventsAccounted, Waiting, Undelivered

(* A read keeps every event accounted for: what no longer waits is pending.*)
LEMMA DeliverAccounts ==
  ASSUME DeliveryInv, NEW s \in Subs, CanRead(s), Deliver(s, Readable(s)), UNCHANGED queued,
         \A r \in Subs : \A i \in 1 .. queued[r] : log'[r][i] = log[r][i]
  PROVE  EventsAccounted'
<1> USE DEF DeliveryInv
<1>1. /\ UNCHANGED <<published, stream>>
      /\ pel' = [t \in Topics |-> [pel[t] EXCEPT ![s] = @ \cup Mine(Readable(s), t)]]
  BY DEF Deliver
<1> SUFFICES ASSUME NEW e \in DOMAIN published', e \in stream'[published'[e]]
             PROVE  \/ Waiting(e)'
                    \/ \E r \in Subs : e \in pel'[published'[e]][r]
                    \/ \E r \in Subs : \E i \in 1 .. queued'[r] : log'[r][i] = e
  BY Zenon DEF EventsAccounted
<1>a. e \in DOMAIN published /\ e \in stream[published[e]]
  BY <1>1
<1>2. published[e] \in Topics
  BY <1>a DEF TypeOK, RedisTypes
<1>3. CASE Waiting(e) /\ ~Waiting(e)'
  <2>1. e \in Mine(Readable(s), published[e])
    BY <1>1, <1>a, <1>2, <1>3, DeliverMoves DEF Waiting, LogInv
  <2>2. DOMAIN pel = Topics /\ DOMAIN pel[published[e]] = Subs
    BY <1>2 DEF TypeOK, RedisTypes
  <2>3. pel'[published[e]] = [pel[published[e]] EXCEPT ![s] = @ \cup Mine(Readable(s), published[e])]
    BY <1>1, <1>2
  <2>4. e \in pel'[published[e]][s]
    BY <2>1, <2>2, <2>3
  <2>5. QED
    BY <1>1, <2>4
<1>4. CASE \E r \in Subs : e \in pel[published[e]][r]
  BY <1>1, <1>2, <1>4 DEF TypeOK, RedisTypes
<1>5. CASE \E r \in Subs : \E i \in 1 .. queued[r] : log[r][i] = e
  BY <1>5
<1>6. QED
  BY <1>a, <1>3, <1>4, <1>5 DEF LogInv, EventsAccounted

(* The two reads: one puts the reply at the end of the log, the other      *)
(* loses it.                                                               *)
LEMMA FetchReplyLostKeepsLog ==
  ASSUME DeliveryInv, NEW s \in Subs, FetchReplyLost(s)
  PROVE  LogInv'
<1> USE DEF DeliveryInv
<1>1. /\ CanRead(s) /\ Deliver(s, Readable(s))
      /\ UNCHANGED <<published, log, queued, taken, sent>>
  BY DEF FetchReplyLost, Deliver, readerVars, loopVars
<1>2. StreamsAreTopics' /\ WaitingAreNewer'
  BY <1>1, DeliverMoves DEF LogInv, WaitingAreNewer
<1>3. EventsAccounted'
  BY <1>1, DeliverAccounts
<1>4. QED
  BY <1>1, <1>2, <1>3 DEF LogInv, LogsArePublished, LoggedOnce, LogInOrder, SentFromLog

LEMMA FetchKeepsLog ==
  ASSUME DeliveryInv, NEW s \in Subs, Fetch(s)
  PROVE  LogInv'
<1> USE DEF DeliveryInv
<1>1. /\ CanRead(s) /\ Deliver(s, Readable(s))
      /\ UNCHANGED <<published, queued, taken, sent>>
  BY DEF Fetch, Deliver, loopVars
<1>2. PICK b \in Replies(Readable(s)) : log' = [log EXCEPT ![s] = @ \o b]
  BY DEF Fetch
<1> DEFINE n == Len(log[s])
<1>3. /\ b \in Seq(Readable(s))
      /\ \A i, j \in DOMAIN b : b[i] = b[j] => i = j
      /\ InReplyOrder(b)
  BY <1>2, ReplyIsSeq DEF Replies
<1>4. \A r \in Subs : r # s => log'[r] = log[r]
  BY <1>2 DEF TypeOK, ReaderTypes
<1>5. /\ n \in Nat /\ DOMAIN log[s] = 1 .. n
      /\ log'[s] = log[s] \o b /\ log[s] \in Seq(Events)
  BY <1>2 DEF TypeOK, ReaderTypes
<1>6. /\ DOMAIN log'[s] = 1 .. n + Len(b)
      /\ \A i \in 1 .. n : log'[s][i] = log[s][i]
      /\ \A i \in DOMAIN log'[s] : i > n => i - n \in DOMAIN b /\ log'[s][i] = b[i - n]
  BY <1>3, <1>5
<1>7. \A i \in DOMAIN b : b[i] \in Readable(s)
  BY <1>3
<1>8. \A e \in Readable(s) : /\ e \in DOMAIN published /\ published[e] \in Topics
                            /\ e \in Undelivered(published[e])
  BY ReadableWaits, DeliveryAssumption DEF LogInv
<1>9. \A r \in Subs : \A i \in DOMAIN log[r] : \A e \in Readable(s) :
        published[log[r][i]] = published[e] => log[r][i] < e
  BY <1>8 DEF LogInv, WaitingAreNewer
<1>10. \A r \in Subs : \A i \in DOMAIN log[r] : log[r][i] \in Nat
  <2>1. Events \subseteq Nat
    BY DeliveryAssumption DEF Events
  <2>2. QED
    <3> TAKE r \in Subs
    <3>1. log[r] \in Seq(Events)
      BY DEF TypeOK, ReaderTypes
    <3>2. QED
      BY <2>1, <3>1, ElementOfSeq, LenProperties
<1> DEFINE Old(r, k) == k \in DOMAIN log[r] /\ log'[r][k] = log[r][k]
           New(r, k) == r = s /\ k - n \in DOMAIN b /\ log'[r][k] = b[k - n]
<1>11. \A r \in Subs : \A k \in DOMAIN log'[r] : Old(r, k) \/ New(r, k)
  <2> TAKE r \in Subs
  <2>1. CASE r # s
    BY <1>4, <2>1
  <2>2. CASE r = s
    <3> TAKE k \in DOMAIN log'[r]
    <3>1. CASE k \in 1 .. n
      BY <1>5, <1>6, <2>2, <3>1
    <3>2. CASE k \notin 1 .. n
      <4>1. k > n
        BY <1>3, <1>5, <1>6, <2>2, <3>2
      <4>2. QED
        BY <1>6, <2>2, <4>1
    <3>3. QED
      BY <3>1, <3>2
  <2>3. QED
    BY <2>1, <2>2
<1>12. /\ DOMAIN b \subseteq Nat \ {0}
       /\ \A r \in Subs : DOMAIN log[r] \subseteq Nat \ {0}
       /\ \A r \in Subs : DOMAIN log'[r] \subseteq Nat \ {0}
  <2>1. \A S : \A q \in Seq(S) : DOMAIN q \subseteq Nat \ {0}
    BY LenProperties
  <2>2. \A r \in Subs : log[r] \in Seq(Events)
    BY DEF TypeOK, ReaderTypes
  <2>3. Len(b) \in Nat /\ DOMAIN log'[s] \subseteq Nat \ {0}
    BY <1>3, <1>5, <1>6
  <2>4. QED
    BY <1>3, <1>4, <2>1, <2>2, <2>3
<1>13. \A r \in Subs : \A i \in DOMAIN log'[r] :
         New(r, i) => log'[r][i] \in Readable(s) /\ i > n
  BY <1>5, <1>7, <1>12
<1>14. \A r \in Subs : \A i \in DOMAIN log[r] : i \in DOMAIN log'[r] /\ Old(r, i)
  <2>1. 1 .. n \subseteq DOMAIN log'[s]
    BY <1>3, <1>5, <1>6
  <2>2. QED
    BY <1>4, <1>5, <1>6, <2>1
<1> HIDE DEF n, Old, New
<1>15. StreamsAreTopics'
  BY <1>1, DeliverMoves DEF LogInv
<1>16. LogsArePublished'
  <2> SUFFICES ASSUME NEW r \in Subs, NEW i \in DOMAIN log'[r]
               PROVE  log'[r][i] \in DOMAIN published
    BY <1>1 DEF LogsArePublished
  <2>1. CASE Old(r, i)
    BY <2>1 DEF Old, LogInv, LogsArePublished
  <2>2. CASE New(r, i)
    BY <1>8, <1>13, <2>2
  <2>3. QED
    BY <1>11, <2>1, <2>2
<1>17. WaitingAreNewer'
  <2> SUFFICES ASSUME NEW t \in Topics, NEW e \in Undelivered(t)',
                      NEW r \in Subs, NEW i \in DOMAIN log'[r], published[log'[r][i]] = t
               PROVE  log'[r][i] < e
    BY <1>1 DEF WaitingAreNewer
  <2>1. e \in Undelivered(t) /\ \A f \in Mine(Readable(s), t) : f < e
    BY <1>1, DeliverMoves DEF LogInv
  <2>2. CASE Old(r, i)
    BY <2>1, <2>2 DEF Old, LogInv, WaitingAreNewer
  <2>3. CASE New(r, i)
    BY <1>13, <2>1, <2>3 DEF Mine
  <2>4. QED
    BY <1>11, <2>2, <2>3
<1>18. LoggedOnce'
  <2> SUFFICES ASSUME NEW p \in Subs, NEW r \in Subs,
                      NEW i \in DOMAIN log'[p], NEW j \in DOMAIN log'[r],
                      log'[p][i] = log'[r][j]
               PROVE  p = r /\ i = j
    BY DEF LoggedOnce
  <2>1. CASE Old(p, i) /\ Old(r, j)
    <3>1. i \in DOMAIN log[p] /\ j \in DOMAIN log[r] /\ log[p][i] = log[r][j]
      BY <2>1 DEF Old
    <3>2. LoggedOnce
      BY DEF LogInv
    <3>3. QED
      BY <3>1, <3>2 DEF LoggedOnce
  <2>2. CASE New(p, i) /\ New(r, j)
    <3>1. i - n = j - n
      BY <1>3, <2>2 DEF New
    <3>2. QED
      BY <1>5, <1>12, <2>2, <3>1 DEF New, n
  <2>3. CASE Old(p, i) /\ New(r, j)
    <3>1. log[p][i] = log'[r][j] /\ log[p][i] < log'[r][j] /\ log[p][i] \in Nat
      BY <1>9, <1>10, <1>13, <2>3 DEF Old
    <3>2. QED
      BY <3>1
  <2>4. CASE New(p, i) /\ Old(r, j)
    <3>1. log[r][j] = log'[p][i] /\ log[r][j] < log'[p][i] /\ log[r][j] \in Nat
      BY <1>9, <1>10, <1>13, <2>4 DEF Old
    <3>2. QED
      BY <3>1
  <2>5. QED
    BY <1>11, <2>1, <2>2, <2>3, <2>4
<1>19. LogInOrder'
  <2> SUFFICES ASSUME NEW r \in Subs, NEW i \in DOMAIN log'[r], NEW j \in DOMAIN log'[r],
                      i < j, published[log'[r][i]] = published[log'[r][j]]
               PROVE  log'[r][i] < log'[r][j]
    BY <1>1 DEF LogInOrder
  <2>1. CASE Old(r, i) /\ Old(r, j)
    BY <2>1 DEF Old, LogInv, LogInOrder
  <2>2. CASE Old(r, i) /\ New(r, j)
    BY <1>9, <1>13, <2>2 DEF Old
  <2>3. CASE New(r, i) /\ New(r, j)
    <3>1. i - n < j - n
      BY <1>5, <1>12 DEF n
    <3>2. QED
      BY <1>3, <2>3, <3>1 DEF New, InReplyOrder
  <2>4. CASE New(r, i) /\ Old(r, j)
    <3>1. r = s /\ i > n /\ j <= n
      BY <1>5, <1>13, <2>4 DEF New, Old, n
    <3>2. QED
      BY <1>5, <1>12, <3>1 DEF n
  <2>5. QED
    BY <1>11, <2>1, <2>2, <2>3, <2>4
<1>20. \A r \in Subs : \A i \in 1 .. queued[r] : log'[r][i] = log[r][i]
  <2>1. \A r \in Subs : 1 .. queued[r] \subseteq DOMAIN log[r]
    BY DEF Positions, TypeOK, ReaderTypes
  <2>2. QED
    BY <1>14, <2>1 DEF Old
<1>21. SentFromLog'
  <2>1. \A r \in Subs : 1 .. taken[r] \subseteq 1 .. queued[r]
    BY DEF Positions, TypeOK, ReaderTypes, LoopTypes
  <2>2. \A r \in Subs : \A i \in 1 .. taken[r] : log'[r][i] = log[r][i]
    BY <1>20, <2>1
  <2>3. QED
    BY <1>1, <2>2 DEF LogInv, SentFromLog
<1>22. EventsAccounted'
  BY <1>1, <1>20, DeliverAccounts
<1>23. QED
  BY <1>15, <1>16, <1>17, <1>18, <1>19, <1>21, <1>22 DEF LogInv

(* Putting an event into the channel accounts for it, so that Ack may take *)
(* it off the pending entries.                                             *)
LEMMA EnqueueKeepsLog ==
  ASSUME DeliveryInv, NEW s \in Subs, Enqueue(s)
  PROVE  LogInv'
<1> USE DEF DeliveryInv
<1>1. /\ UNCHANGED <<published, stream, group, lastId, pel, log, taken, sent>>
      /\ queued' = [queued EXCEPT ![s] = @ + 1]
  BY DEF Enqueue, redisVars, keyVars, loopVars
<1>2. \A r \in Subs : 1 .. queued[r] \subseteq 1 .. queued'[r]
  BY <1>1 DEF TypeOK, ReaderTypes
<1>3. EventsAccounted'
  BY <1>1, <1>2 DEF LogInv, EventsAccounted, Waiting, Undelivered
<1>4. QED
  BY <1>1, <1>3 DEF LogInv, StreamsAreTopics, LogsArePublished, WaitingAreNewer,
     Undelivered, LoggedOnce, LogInOrder, SentFromLog

LEMMA AckKeepsLog ==
  ASSUME DeliveryInv, NEW s \in Subs, NEW ok \in BOOLEAN, Ack(s, ok)
  PROVE  LogInv'
<1> USE DEF DeliveryInv
<1> DEFINE e0 == log[s][queued[s]]
           t0 == published[e0]
<1>1. /\ UNCHANGED <<published, stream, group, lastId, log, queued, taken, sent>>
      /\ pel' = IF ok THEN [pel EXCEPT ![t0][s] = @ \ {e0}] ELSE pel
      /\ reader[s] = "acking"
  BY DEF Ack, loopVars
<1>2. queued[s] \in 1 .. queued[s]
  BY <1>1 DEF Positions, TypeOK, ReaderTypes
<1> HIDE DEF e0, t0
<1>3. EventsAccounted'
  <2> SUFFICES ASSUME NEW e \in DOMAIN published, e \in stream[published[e]]
               PROVE  \/ Waiting(e)'
                      \/ \E r \in Subs : e \in pel'[published[e]][r]
                      \/ \E r \in Subs : \E i \in 1 .. queued[r] : log[r][i] = e
    BY <1>1 DEF EventsAccounted
  <2>1. CASE e = e0
    BY <1>2, <2>1 DEF e0
  <2>2. CASE e # e0
    <3>1. published[e] \in Topics
      BY DEF TypeOK, RedisTypes
    <3>2. \A r \in Subs : e \in pel[published[e]][r] => e \in pel'[published[e]][r]
      BY <1>1, <2>2, <3>1 DEF TypeOK, RedisTypes
    <3>3. Waiting(e) => Waiting(e)'
      BY <1>1 DEF Waiting, Undelivered
    <3>4. QED
      BY <3>2, <3>3 DEF LogInv, EventsAccounted
  <2>3. QED
    BY <2>1, <2>2
<1>4. QED
  BY <1>1, <1>3 DEF LogInv, StreamsAreTopics, LogsArePublished, WaitingAreNewer,
     Undelivered, LoggedOnce, LogInOrder, SentFromLog

(* The handler takes the next event of the log, and sends it or not.       *)
LEMMA TakeKeepsLog ==
  ASSUME DeliveryInv, NEW s \in Subs, SkipEvent(s) \/ SendEvent(s) \/ SendFails(s)
  PROVE  LogInv'
<1> USE DEF DeliveryInv
<1>1. /\ UNCHANGED <<published, stream, group, lastId, pel, log, queued>>
      /\ taken' = [taken EXCEPT ![s] = @ + 1]
      /\ sent' = sent \/ sent' = [sent EXCEPT ![s] = Append(@, InHand(s))]
  BY DEF SkipEvent, SendEvent, SendFails, redisVars, keyVars, readerVars
<1>2. \A r \in Subs : /\ 1 .. taken[r] \subseteq 1 .. taken'[r]
                     /\ \A k \in 1 .. taken[r] : k \in Nat
  BY <1>1 DEF TypeOK, LoopTypes
<1>3. taken[s] + 1 \in 1 .. taken'[s] /\ \A k \in 1 .. taken[s] : k < taken[s] + 1
  BY <1>1 DEF TypeOK, LoopTypes
<1>4. SentFromLog'
  <2>1. CASE sent' = sent
    <3>1. ASSUME NEW r \in Subs, NEW i \in DOMAIN sent[r]
          PROVE  \E k \in 1 .. taken'[r] : sent[r][i] = log[r][k]
      BY <1>2 DEF LogInv, SentFromLog
    <3>2. ASSUME NEW r \in Subs, NEW i \in DOMAIN sent[r], NEW j \in DOMAIN sent[r], i < j
          PROVE  \E k, l \in 1 .. taken'[r] :
                   k < l /\ sent[r][i] = log[r][k] /\ sent[r][j] = log[r][l]
      BY <1>2, <3>2 DEF LogInv, SentFromLog
    <3>3. QED
      BY <1>1, <2>1, <3>1, <3>2 DEF SentFromLog
  <2>2. CASE sent' = [sent EXCEPT ![s] = Append(@, InHand(s))]
    <3> DEFINE m == Len(sent[s]) + 1
    <3>1. /\ \A r \in Subs : r # s => sent'[r] = sent[r]
          /\ DOMAIN sent[s] = 1 .. Len(sent[s]) /\ Len(sent[s]) \in Nat
          /\ DOMAIN sent'[s] = 1 .. m
          /\ sent'[s][m] = log[s][taken[s] + 1]
          /\ \A i \in DOMAIN sent[s] : sent'[s][i] = sent[s][i]
      BY <2>2 DEF TypeOK, LoopTypes, InHand
    <3>2. ASSUME NEW r \in Subs, NEW i \in DOMAIN sent'[r]
          PROVE  \/ i \in DOMAIN sent[r] /\ sent'[r][i] = sent[r][i]
                 \/ r = s /\ i = m /\ sent'[r][i] = log[s][taken[s] + 1]
      BY <3>1
    <3>3. ASSUME NEW r \in Subs, NEW i \in DOMAIN sent'[r]
          PROVE  \E k \in 1 .. taken'[r] : sent'[r][i] = log[r][k]
      <4>1. CASE i \in DOMAIN sent[r] /\ sent'[r][i] = sent[r][i]
        BY <1>2, <4>1 DEF LogInv, SentFromLog
      <4>2. CASE r = s /\ i = m /\ sent'[r][i] = log[s][taken[s] + 1]
        BY <1>3, <4>2
      <4>3. QED
        BY <3>2, <4>1, <4>2
    <3>4. ASSUME NEW r \in Subs, NEW i \in DOMAIN sent'[r], NEW j \in DOMAIN sent'[r], i < j
          PROVE  \E k, l \in 1 .. taken'[r] :
                   k < l /\ sent'[r][i] = log[r][k] /\ sent'[r][j] = log[r][l]
      <4>1. CASE j \in DOMAIN sent[r] /\ sent'[r][j] = sent[r][j]
        <5>1. i \in DOMAIN sent[r] /\ sent'[r][i] = sent[r][i]
          BY <3>1, <3>2, <3>4, <4>1
        <5>2. QED
          BY <1>2, <3>4, <4>1, <5>1 DEF LogInv, SentFromLog
      <4>2. CASE r = s /\ j = m /\ sent'[r][j] = log[s][taken[s] + 1]
        <5>1. i \in DOMAIN sent[s] /\ sent'[s][i] = sent[s][i]
          BY <3>1, <3>4, <4>2
        <5>2. PICK k \in 1 .. taken[s] : sent[s][i] = log[s][k]
          BY <5>1 DEF LogInv, SentFromLog
        <5>3. QED
          BY <1>2, <1>3, <4>2, <5>1, <5>2
      <4>3. QED
        BY <3>2, <4>1, <4>2
    <3>5. QED
      BY <1>1, <3>3, <3>4 DEF SentFromLog
  <2>3. QED
    BY <1>1, <2>1, <2>2
<1>5. QED
  BY <1>1, <1>4 DEF LogInv, StreamsAreTopics, LogsArePublished, WaitingAreNewer,
     Undelivered, LoggedOnce, LogInOrder, EventsAccounted, Waiting

(* All other steps touch neither the streams nor the logs.                 *)
LEMMA OthersKeepLog ==
  ASSUME DeliveryInv,
         UNCHANGED <<published, stream, group, lastId, pel, log, queued, taken, sent>>
  PROVE  LogInv'
BY DEF DeliveryInv, LogInv, StreamsAreTopics, LogsArePublished, WaitingAreNewer, Undelivered,
   LoggedOnce, LogInOrder, SentFromLog, EventsAccounted, Waiting

(* The invariant on which the delivery guarantees rest.                    *)
THEOREM DeliveryInvariant == Spec => []DeliveryInv
<1>1. Init => LogInv
  BY DEF Init, LogInv, StreamsAreTopics, LogsArePublished, WaitingAreNewer, Undelivered,
     LoggedOnce, LogInOrder, SentFromLog, EventsAccounted
<1>2. DeliveryInv /\ [Next]_vars => LogInv'
  <2> SUFFICES ASSUME DeliveryInv, [Next]_vars PROVE LogInv'
    OBVIOUS
  <2>1. ASSUME NEW t \in Topics, Publish(t) \/ PrunerFindsStale(t) \/ PrunerDeletes(t)
        PROVE  LogInv'
    <3>1. CASE PrunerFindsStale(t)
      BY <3>1, OthersKeepLog DEF PrunerFindsStale, readerVars, loopVars
    <3>2. QED
      BY <2>1, <3>1, PublishKeepsLog, PruneKeepsLog
  <2>2. ASSUME NEW s \in Subs, ReaderStep(s) PROVE LogInv'
    <3>1. CASE ThrottleSignal(s) \/ ReaderCancelled(s)
      BY <3>1, OthersKeepLog DEF ThrottleSignal, ReaderCancelled, redisVars, keyVars, loopVars
    <3>2. QED
      BY <2>2, <3>1, FetchKeepsLog, FetchReplyLostKeepsLog, EnqueueKeepsLog, AckKeepsLog
         DEF ReaderStep
  <2>3. ASSUME NEW s \in Subs, LoopStep(s) PROVE LogInv'
    <3>1. CASE LoopReturns(s) \/ GetReady(s)
      BY <3>1, OthersKeepLog DEF LoopReturns, GetReady, redisVars, keyVars, readerVars
    <3>2. QED
      BY <2>3, <3>1, TakeKeepsLog DEF LoopStep
  <2>4. ASSUME NEW s \in Subs,
               \/ \E made \in SUBSET TopicsOf[s] : Subscribe(s, made)
               \/ SubscribeFails(s)
               \/ RecvReady(s) \/ RecvError(s) \/ ClientReady(s)
               \/ Hangup(s) \/ RemoteCancel(s)
        PROVE  LogInv'
    <3>1. CASE SubscribeFails(s)
      BY <3>1, OthersKeepLog DEF SubscribeFails, keyVars, readerVars
    <3>2. CASE RecvReady(s) \/ RecvError(s) \/ ClientReady(s)
      BY <3>2, OthersKeepLog DEF RecvReady, RecvError, ClientReady, redisVars, keyVars,
         readerVars, loopVars
    <3>3. CASE Hangup(s) \/ RemoteCancel(s)
      BY <3>3, OthersKeepLog DEF Hangup, RemoteCancel, keyVars, readerVars, loopVars
    <3>4. QED
      BY <2>4, <3>1, <3>2, <3>3, SubscribeKeepsLog
  <2>5. ASSUME NEW r \in Relays, Crash(r) PROVE LogInv'
    BY <2>5, OthersKeepLog DEF Crash, keyVars
  <2>6. CASE UNCHANGED vars
    BY <2>6, OthersKeepLog DEF vars, redisVars, keyVars, readerVars, loopVars
  <2>7. QED
    BY <2>1, <2>2, <2>3, <2>4, <2>5, <2>6 DEF Next
<1>3. QED
  BY <1>1, <1>2, TypeCorrect, PTL DEF Spec, DeliveryInv

(* No webhook is sent twice, on one stream or on two, by one relay or by   *)
(* several, whatever is pruned, cancelled or crashed in between.           *)
THEOREM SentAtMostOnce == Spec => []AtMostOnce
<1>1. DeliveryInv => AtMostOnce
  <2> SUFFICES ASSUME DeliveryInv, NEW s1 \in Subs, NEW s2 \in Subs,
                      NEW i \in DOMAIN sent[s1], NEW j \in DOMAIN sent[s2],
                      sent[s1][i] = sent[s2][j]
               PROVE  s1 = s2 /\ i = j
    BY DEF AtMostOnce
  <2> USE DEF DeliveryInv, LogInv
  <2>1. ASSUME NEW s \in Subs PROVE 1 .. taken[s] \subseteq DOMAIN log[s]
    <3>1. /\ taken[s] \in Nat /\ queued[s] \in Nat /\ Len(log[s]) \in Nat
          /\ DOMAIN log[s] = 1 .. Len(log[s])
      BY DEF TypeOK, ReaderTypes, LoopTypes
    <3>2. taken[s] <= queued[s] /\ queued[s] <= Len(log[s])
      BY DEF Positions
    <3>3. QED
      BY <3>1, <3>2
  <2>2. s1 = s2
    BY <2>1 DEF SentFromLog, LoggedOnce
  <2>3. ASSUME NEW k \in DOMAIN sent[s1], NEW l \in DOMAIN sent[s1], k < l
        PROVE  sent[s1][k] # sent[s1][l]
    <3>1. PICK x, y \in 1 .. taken[s1] :
            x < y /\ sent[s1][k] = log[s1][x] /\ sent[s1][l] = log[s1][y]
      BY <2>3 DEF SentFromLog
    <3>2. x \in Nat /\ y \in Nat
      BY <3>1 DEF TypeOK, LoopTypes
    <3>3. QED
      BY <2>1, <3>1, <3>2 DEF LoggedOnce
  <2>4. i \in Nat /\ j \in Nat
    BY DEF TypeOK, LoopTypes
  <2>5. QED
    BY <2>2, <2>3, <2>4
<1>2. QED
  BY <1>1, DeliveryInvariant, PTL

(* Each client is sent the webhooks of a topic in the order of their XADDs.*)
THEOREM SentInOrder == Spec => []InOrder
<1>1. DeliveryInv => InOrder
  <2> SUFFICES ASSUME DeliveryInv, NEW s \in Subs,
                      NEW i \in DOMAIN sent[s], NEW j \in DOMAIN sent[s],
                      i < j, published[sent[s][i]] = published[sent[s][j]]
               PROVE  sent[s][i] < sent[s][j]
    BY DEF InOrder
  <2> USE DEF DeliveryInv, LogInv
  <2>1. 1 .. taken[s] \subseteq DOMAIN log[s]
    BY DEF Positions, TypeOK, ReaderTypes, LoopTypes
  <2>2. PICK k, l \in 1 .. taken[s] :
          k < l /\ sent[s][i] = log[s][k] /\ sent[s][j] = log[s][l]
    BY DEF SentFromLog
  <2>3. QED
    BY <2>1, <2>2 DEF LogInOrder
<1>2. QED
  BY <1>1, DeliveryInvariant, PTL

(* Until a webhook is in a channel of a relay, Redis still has it.         *)
THEOREM AllAccountedFor == Spec => []EventsAccounted
<1>1. DeliveryInv => EventsAccounted
  BY DEF DeliveryInv, LogInv
<1>2. QED
  BY <1>1, DeliveryInvariant, PTL

--------------------------------------------------------------------------------
(* Flow control: how many events are with a client that has not answered,  *)
(* and how far a reader runs ahead.                                        *)

(* OneOutstanding is nearly inductive: a stream that is not open yet has   *)
(* nothing outstanding either.                                             *)
Outstanding(s) == unread[s] + readyWire[s] + readyCh[s]

AskedFirst ==
  \A s \in Subs :
    /\ Outstanding(s) <= 1
    /\ conn[s] \in {"new", "select"} => Outstanding(s) = 0

LEMMA AskedFirstStep == TypeOK /\ AskedFirst /\ [Next]_vars => AskedFirst'
<1> SUFFICES ASSUME TypeOK, AskedFirst, [Next]_vars PROVE AskedFirst'
  OBVIOUS
<1>1. ASSUME UNCHANGED <<unread, readyWire, readyCh>>,
             \A s \in Subs : conn'[s] \in {"new", "select"} => conn[s] \in {"new", "select"}
      PROVE  AskedFirst'
  BY <1>1 DEF AskedFirst, Outstanding
<1>2. ASSUME NEW s \in Subs, SendEvent(s) PROVE AskedFirst'
  BY <1>2 DEF SendEvent, Received, AskedFirst, Outstanding, TypeOK, ClientTypes, LoopTypes
<1>3. ASSUME NEW s \in Subs, GetReady(s) PROVE AskedFirst'
  BY <1>3, SMTT(20) DEF GetReady, AskedFirst, Outstanding, TypeOK, ClientTypes, LoopTypes
<1>4. ASSUME NEW s \in Subs, RecvReady(s) \/ ClientReady(s) PROVE AskedFirst'
  <2>1. \A r \in Subs : Outstanding(r)' = Outstanding(r)
    BY <1>4 DEF RecvReady, ClientReady, Outstanding, TypeOK, ClientTypes
  <2>2. UNCHANGED conn
    BY <1>4 DEF RecvReady, ClientReady, loopVars
  <2>3. QED
    BY <2>1, <2>2 DEF AskedFirst
<1>5. ASSUME NEW s \in Subs,
             \/ \E made \in SUBSET TopicsOf[s] : Subscribe(s, made)
             \/ SubscribeFails(s) \/ LoopReturns(s) \/ SendFails(s)
      PROVE  AskedFirst'
  <2>1. UNCHANGED <<unread, readyWire, readyCh>>
    BY <1>5 DEF Subscribe, SubscribeFails, LoopReturns, SendFails, clientVars
  <2>2. \A r \in Subs : conn'[r] \in {"new", "select"} => conn[r] \in {"new", "select"}
    BY <1>5 DEF Subscribe, SubscribeFails, LoopReturns, SendFails, Return, TypeOK, LoopTypes
  <2>3. QED
    BY <1>1, <2>1, <2>2
<1>6. ASSUME NEW s \in Subs, ReaderStep(s) \/ SkipEvent(s) PROVE AskedFirst'
  <2>1. UNCHANGED <<unread, readyWire, readyCh, conn>>
    BY <1>6 DEF ReaderStep, ThrottleSignal, ReaderCancelled, Fetch, FetchReplyLost, Enqueue, Ack,
       SkipEvent, clientVars, loopVars
  <2>2. QED
    BY <1>1, <2>1
<1>7. ASSUME NEW s \in Subs, RecvError(s) \/ Hangup(s) \/ RemoteCancel(s) PROVE AskedFirst'
  <2>1. UNCHANGED <<unread, readyWire, readyCh, conn>>
    BY <1>7 DEF RecvError, Hangup, RemoteCancel, clientVars, loopVars
  <2>2. QED
    BY <1>1, <2>1
<1>8. ASSUME NEW r \in Relays, Crash(r) PROVE AskedFirst'
  <2>1. UNCHANGED <<unread, readyWire, readyCh>>
    BY <1>8 DEF Crash
  <2>2. \A s \in Subs : conn'[s] = conn[s] \/ conn'[s] = "returned"
    BY <1>8 DEF Crash
  <2>3. QED
    BY <1>1, <2>1, <2>2
<1>9. ASSUME NEW t \in Topics, Publish(t) \/ PrunerFindsStale(t) \/ PrunerDeletes(t)
      PROVE  AskedFirst'
  BY <1>1, <1>9 DEF Publish, PrunerFindsStale, PrunerDeletes, clientVars, loopVars
<1>10. CASE UNCHANGED vars
  BY <1>1, <1>10 DEF vars, clientVars, loopVars
<1>11. QED
  BY <1>2, <1>3, <1>4, <1>5, <1>6, <1>7, <1>8, <1>9, <1>10 DEF Next, LoopStep

(* "After sending each event, wait for Ready before sending next": for any *)
(* number of streams, whatever is cancelled or lost, one event at most is  *)
(* with a client that has not answered.                                    *)
THEOREM OneAtATime == Spec => []OneOutstanding
<1>1. Init => AskedFirst
  BY DEF Init, AskedFirst, Outstanding
<1>2. AskedFirst => OneOutstanding
  BY DEF AskedFirst, Outstanding, OneOutstanding
<1>3. QED
  BY <1>1, <1>2, AskedFirstStep, TypeCorrect, PTL DEF Spec

--------------------------------------------------------------------------------
(* A finite set of numbers has a largest member.                           *)
LEMMA FiniteHasMax ==
  ASSUME NEW T \in SUBSET Nat, IsFiniteSet(T), T # {}
  PROVE  \E x \in T : \A y \in T : y <= x
<1> DEFINE up(x) == {y \in T : y > x}
           U == {up(x) : x \in T}
<1>1. \A x \in T : x \in Nat
  OBVIOUS
<1>2. U \subseteq FiniteSubsetsOf(T) /\ U # {}
  <2>1. \A x \in T : up(x) \in SUBSET T /\ IsFiniteSet(up(x))
    BY FS_Subset
  <2>2. QED
    BY <2>1 DEF FiniteSubsetsOf
<1>3. IsWellFoundedOn(StrictSubsetOrdering(T), FiniteSubsetsOf(T))
  BY FS_StrictSubsetOrderingWellFounded
<1>4. PICK m \in U : \A v \in U : ~ (<<v, m>> \in StrictSubsetOrdering(T))
  BY <1>2, <1>3, WFMin
<1>5. PICK x \in T : m = up(x)
  BY <1>4
<1>6. ASSUME NEW y \in T, y > x PROVE FALSE
  <2>1. x \in Nat /\ y \in Nat
    BY <1>1
  <2>2. \A z \in T : z > y => z > x
    BY <1>1, <1>6, <2>1
  <2>3. ~ (y > y)
    BY <2>1
  <2>4. up(y) \subseteq up(x)
    BY <2>2
  <2>5. y \in up(x) /\ y \notin up(y)
    BY <1>6, <2>3
  <2>6. <<up(y), up(x)>> \in StrictSubsetOrdering(T)
    BY <2>4, <2>5 DEF StrictSubsetOrdering
  <2>7. QED
    BY <1>4, <1>5, <2>6
<1>7. QED
  BY <1>1, <1>6

(* COUNT bounds what a read returns of one stream.                         *)
LEMMA FirstOfIsBounded ==
  ASSUME NEW S \in SUBSET Nat, IsFiniteSet(S), NEW n \in Nat
  PROVE  Cardinality(FirstOf(S, n)) <= n
<1> DEFINE F == FirstOf(S, n)
<1>1. F \in SUBSET S /\ IsFiniteSet(F)
  BY FS_Subset DEF FirstOf
<1>2. CASE F = {}
  BY <1>2, FS_EmptySet
<1>3. CASE F # {}
  <2>1. PICK m \in F : \A e \in F : e <= m
    BY <1>1, <1>3, FiniteHasMax
  <2> DEFINE upto == {f \in S : f <= m}
  <2>2. F \subseteq upto /\ upto \subseteq S
    BY <1>1, <2>1
  <2>3. Cardinality(upto) <= n
    BY <2>1 DEF FirstOf
  <2>4. IsFiniteSet(upto) /\ Cardinality(F) <= Cardinality(upto)
    BY <2>2, FS_Subset
  <2>5. Cardinality(F) \in Nat /\ Cardinality(upto) \in Nat
    BY <1>1, <2>4, FS_CardinalityType
  <2> HIDE DEF upto, F
  <2>6. Cardinality(F) <= n
    BY <2>3, <2>4, <2>5
  <2>7. QED
    BY <2>6 DEF F
<1>4. QED
  BY <1>2, <1>3

LEMMA ReplyIsBounded ==
  ASSUME TypeOK, NEW s \in Subs, Throttled(s)
  PROVE  Cardinality(Readable(s)) <= ReadCount
<1>1. IsFiniteSet(TopicsOf[s])
  BY DeliveryAssumption
<1>2. PICK t : TopicsOf[s] = {t}
  BY <1>1, FS_Singleton DEF Throttled
<1>3. t \in Topics
  BY <1>2, DeliveryAssumption
<1>4. Readable(s) = FirstOf(Undelivered(t), ReadCount)
  BY <1>2 DEF Readable
<1>5. Undelivered(t) \in SUBSET Events
  BY <1>3 DEF Undelivered, TypeOK, RedisTypes
<1>6. IsFiniteSet(Undelivered(t)) /\ Undelivered(t) \in SUBSET Nat
  <2>1. IsFiniteSet(Events) /\ Events \in SUBSET Nat
    BY FS_Interval, DeliveryAssumption DEF Events
  <2>2. QED
    BY <1>5, <2>1, FS_Subset
<1>7. QED
  BY <1>4, <1>6, FirstOfIsBounded, DeliveryAssumption

--------------------------------------------------------------------------------
(* What the reader of a single topic may have taken: a window to begin     *)
(* with, and one for each signal that it has consumed.  Those are the      *)
(* answered events less the one that still is in the throttle.             *)
Windows(s) ==
  Len(sent[s]) - (IF conn[s] = "await" THEN 1 ELSE 0) - (IF throttle[s] THEN 1 ELSE 0)

(* The length of the log when the last signal was consumed.                *)
Base(s) == (IF reader[s] = "acking" THEN queued[s] - 1 ELSE queued[s]) - pending[s]

FlowOf(s) ==
  /\ Windows(s) \in Nat
  /\ Len(log[s]) <= (Windows(s) + 1) * Window
  /\ reader[s] # "stopped" =>
       /\ Base(s) \in Nat
       /\ Base(s) <= Windows(s) * Window
       /\ Len(log[s]) <= Base(s) + Window
  /\ reader[s] \in {"none", "reading"} => pending[s] < MaxPending

Flow == \A s \in Subs : Throttled(s) => FlowOf(s)

LEMMA Products ==
  ASSUME NEW k \in Nat, NEW l \in Nat, NEW w \in Nat, k <= l
  PROVE  /\ k * w \in Nat /\ l * w \in Nat
         /\ k * w <= l * w
         /\ (k + 1) * w = k * w + w
<1>1. PICK d \in Nat : l = k + d
  <2>1. l - k \in Nat /\ l = k + (l - k)
    OBVIOUS
  <2>2. QED
    BY <2>1
<1>2. l * w = k * w + d * w
  BY <1>1
<1>3. k * w \in Nat /\ d * w \in Nat
  OBVIOUS
<1>4. QED
  BY <1>2, <1>3

LEMMA FlowTypes ==
  ASSUME TypeOK, NEW s \in Subs
  PROVE  /\ Len(log[s]) \in Nat /\ Len(sent[s]) \in Nat
         /\ queued[s] \in Nat /\ pending[s] \in Nat
         /\ Window \in Nat
         /\ MaxPending \in Nat \ {0} /\ ReadCount \in Nat \ {0}
         /\ Window = MaxPending + ReadCount - 1
<1>1. Len(log[s]) \in Nat /\ Len(sent[s]) \in Nat /\ queued[s] \in Nat /\ pending[s] \in Nat
  BY DEF TypeOK, ReaderTypes, LoopTypes
<1>2. QED
  BY <1>1, DeliveryAssumption DEF Window

(* A step that leaves the reader where it is, or stops it, and may add to  *)
(* the windows.                                                            *)
LEMMA WindowsGrow ==
  ASSUME TypeOK, NEW s \in Subs, FlowOf(s),
         log'[s] = log[s], queued'[s] = queued[s], pending'[s] = pending[s],
         reader'[s] \in {reader[s], "stopped"},
         Windows(s)' \in Nat, Windows(s) <= Windows(s)'
  PROVE  FlowOf(s)'
<1> DEFINE k == Windows(s)
           l == Windows(s)'
<1>1. k \in Nat /\ l \in Nat /\ k <= l
  BY DEF FlowOf
<1>2. Window \in Nat /\ Len(log[s]) \in Nat /\ Window' = Window /\ Len(log'[s]) = Len(log[s])
  BY FlowTypes DEF Window
<1>3. Base(s)' = Base(s) \/ reader'[s] = "stopped"
  BY DEF Base
<1>4. /\ Len(log[s]) <= (k + 1) * Window
      /\ reader[s] # "stopped" =>
           Base(s) \in Nat /\ Base(s) <= k * Window /\ Len(log[s]) <= Base(s) + Window
      /\ reader[s] \in {"none", "reading"} => pending[s] < MaxPending
  BY DEF FlowOf
<1> HIDE DEF k, l
<1>5. k * Window <= l * Window /\ k * Window \in Nat /\ l * Window \in Nat
  BY <1>1, <1>2, Products
<1>6. (k + 1) * Window = k * Window + Window
  BY <1>1, <1>2, Products
<1>7. (l + 1) * Window = l * Window + Window
  BY <1>1, <1>2, Products
<1>8. Len(log'[s]) <= (l + 1) * Window
  BY <1>2, <1>4, <1>5, <1>6, <1>7
<1>9. reader'[s] # "stopped" =>
        Base(s)' \in Nat /\ Base(s)' <= l * Window /\ Len(log'[s]) <= Base(s)' + Window
  BY <1>2, <1>3, <1>4, <1>5
<1>10. QED
  BY <1>1, <1>2, <1>4, <1>8, <1>9 DEF FlowOf, k, l

(* The reader's own steps.                                                 *)
LEMMA FlowThrottleSignal ==
  ASSUME TypeOK, Positions, NEW s \in Subs, FlowOf(s), ThrottleSignal(s)
  PROVE  FlowOf(s)'
<1> DEFINE k == Windows(s)
<1>1. /\ throttle[s] /\ ~throttle'[s] /\ pending'[s] = 0
      /\ reader[s] = "throttled" /\ reader'[s] = "reading"
      /\ UNCHANGED <<log, queued, sent, conn>>
  BY DEF ThrottleSignal, TypeOK, ReaderTypes, loopVars
<1>2. queued[s] = Len(log[s])
  BY <1>1 DEF Positions
<1>3. /\ Len(log[s]) \in Nat /\ Len(sent[s]) \in Nat /\ queued[s] \in Nat
      /\ Window \in Nat /\ MaxPending \in Nat \ {0} /\ Window' = Window
  BY FlowTypes DEF Window
<1>4. k \in Nat /\ Windows(s)' = k + 1
  BY <1>1, <1>3 DEF Windows, FlowOf
<1>5. Base(s)' = queued[s]
  BY <1>1, <1>3 DEF Base
<1>6. Base(s) \in Nat /\ Base(s) <= k * Window /\ Len(log[s]) <= Base(s) + Window
  BY <1>1 DEF FlowOf
<1> HIDE DEF k
<1>7. /\ k * Window \in Nat /\ (k + 1) * Window = k * Window + Window
      /\ (k + 1 + 1) * Window = (k + 1) * Window + Window
  BY <1>3, <1>4, Products
<1>8. Len(log[s]) <= (k + 1) * Window
  BY <1>3, <1>6, <1>7
<1>9. QED
  BY <1>1, <1>2, <1>3, <1>4, <1>5, <1>7, <1>8, SMTT(30) DEF FlowOf

LEMMA FlowFetch ==
  ASSUME TypeOK, Positions, NEW s \in Subs, Throttled(s), FlowOf(s), Fetch(s)
  PROVE  FlowOf(s)'
<1> DEFINE k == Windows(s)
<1>1. /\ reader[s] = "reading" /\ reader'[s] = "queueing"
      /\ UNCHANGED <<queued, pending, sent, conn, throttle>>
  BY DEF Fetch, TypeOK, ReaderTypes, loopVars
<1>2. PICK b \in Replies(Readable(s)) : Len(log'[s]) = Len(log[s]) + Len(b) /\ Len(b) \in Nat
  BY FetchLengthensLog
<1>3. Len(b) <= ReadCount
  BY ReplyIsSeq, ReplyIsBounded
<1>4. queued[s] = Len(log[s]) /\ pending[s] < MaxPending
  BY <1>1 DEF Positions, FlowOf
<1>5. /\ Len(log[s]) \in Nat /\ Len(sent[s]) \in Nat /\ queued[s] \in Nat /\ pending[s] \in Nat
      /\ Window \in Nat /\ Window = MaxPending + ReadCount - 1 /\ Window' = Window
      /\ MaxPending \in Nat \ {0} /\ ReadCount \in Nat \ {0}
  BY FlowTypes DEF Window
<1>6. k \in Nat /\ Windows(s)' = k
  BY <1>1 DEF Windows, FlowOf
<1>7. Base(s)' = Base(s) /\ Base(s) = queued[s] - pending[s]
  BY <1>1 DEF Base
<1>8. Base(s) \in Nat /\ Base(s) <= k * Window
  BY <1>1 DEF FlowOf
<1> HIDE DEF k
<1>9. k * Window \in Nat /\ (k + 1) * Window = k * Window + Window
  BY <1>5, <1>6, Products
<1>10. Len(log'[s]) <= Base(s) + Window
  BY <1>2, <1>3, <1>4, <1>5, <1>7
<1>11. Len(log'[s]) <= (k + 1) * Window
  BY <1>2, <1>5, <1>8, <1>9, <1>10
<1>12. QED
  BY <1>1, <1>5, <1>6, <1>7, <1>8, <1>10, <1>11 DEF FlowOf

LEMMA FlowEnqueueAck ==
  ASSUME TypeOK, Positions, NEW s \in Subs, Throttled(s), FlowOf(s),
         Enqueue(s) \/ \E ok \in BOOLEAN : Ack(s, ok)
  PROVE  FlowOf(s)'
<1>1. UNCHANGED <<log, sent, conn, throttle>>
  BY DEF Enqueue, Ack, loopVars
<1>2. /\ queued[s] \in Nat /\ pending[s] \in Nat /\ MaxPending \in Nat \ {0}
      /\ Window' = Window
  BY FlowTypes DEF Window
<1>3. Windows(s)' = Windows(s)
  BY <1>1 DEF Windows
<1>4. reader[s] # "stopped" /\ Base(s)' = Base(s)
  <2>1. CASE Enqueue(s)
    BY <1>2, <2>1 DEF Enqueue, Base, TypeOK, ReaderTypes
  <2>2. CASE \E ok \in BOOLEAN : Ack(s, ok)
    <3>1. /\ reader[s] = "acking" /\ reader'[s] # "acking"
          /\ pending'[s] = pending[s] + 1 /\ queued' = queued
      BY <2>2 DEF Ack, NextRead, TypeOK, ReaderTypes
    <3>2. QED
      BY <1>2, <3>1 DEF Base
  <2>3. QED
    BY <2>1, <2>2
<1>5. reader'[s] \in {"none", "reading"} => pending'[s] < MaxPending
  <2>1. CASE Enqueue(s)
    BY <2>1 DEF Enqueue, TypeOK, ReaderTypes
  <2>2. CASE \E ok \in BOOLEAN : Ack(s, ok)
    <3>1. pending'[s] = pending[s] + 1
      BY <2>2 DEF Ack, TypeOK, ReaderTypes
    <3>2. reader'[s] \in {"queueing", NextRead(s, pending'[s])}
      BY <2>2 DEF Ack, TypeOK, ReaderTypes
    <3>3. NextRead(s, pending'[s]) \in {"none", "reading"} => pending'[s] < MaxPending
      BY <1>2, <3>1 DEF NextRead
    <3>4. QED
      BY <3>2, <3>3
  <2>3. QED
    BY <2>1, <2>2
<1>6. QED
  BY <1>1, <1>2, <1>3, <1>4, <1>5 DEF FlowOf

(* Every step keeps the flow of one reader: its own steps by the lemmas    *)
(* above, the handler's because they never take a window back.             *)
LEMMA FlowStep ==
  ASSUME TypeOK, Positions, [Next]_vars, NEW s \in Subs, Throttled(s), FlowOf(s)
  PROVE  FlowOf(s)'
<1> DEFINE Still(x) == /\ log'[x] = log[x] /\ queued'[x] = queued[x] /\ pending'[x] = pending[x]
                       /\ reader'[x] \in {reader[x], "stopped"}
           Same(x)  == sent'[x] = sent[x] /\ throttle'[x] = throttle[x]
<1>1. Windows(s) \in Nat /\ Len(sent[s]) \in Nat
  BY FlowTypes DEF FlowOf
<1>2. ASSUME Still(s), Same(s), (conn'[s] = "await") => (conn[s] = "await") PROVE FlowOf(s)'
  <2>1. Windows(s)' \in Nat /\ Windows(s) <= Windows(s)'
    BY <1>1, <1>2 DEF Windows
  <2>2. QED
    BY <1>2, <2>1, WindowsGrow
<1>3. ASSUME NEW r \in Subs, ReaderStep(r), r # s PROVE FlowOf(s)'
  <2>1. Still(s) /\ Same(s) /\ conn' = conn
    <3>1. CASE ThrottleSignal(r) \/ ReaderCancelled(r) \/ Fetch(r) \/ FetchReplyLost(r)
      BY <1>3, <3>1 DEF ThrottleSignal, ReaderCancelled, Fetch, FetchReplyLost, loopVars,
         readerVars, TypeOK, ReaderTypes
    <3>2. CASE Enqueue(r) \/ \E ok \in BOOLEAN : Ack(r, ok)
      BY <1>3, <3>2 DEF Enqueue, Ack, loopVars, TypeOK, ReaderTypes
    <3>3. QED
      BY <1>3, <3>1, <3>2 DEF ReaderStep
  <2>2. QED
    BY <1>2, <2>1
<1>4. ASSUME ReaderStep(s) PROVE FlowOf(s)'
  <2>1. CASE ReaderCancelled(s) \/ FetchReplyLost(s)
    <3>1. Still(s) /\ Same(s) /\ conn' = conn
      BY <2>1 DEF ReaderCancelled, FetchReplyLost, loopVars, readerVars, TypeOK, ReaderTypes
    <3>2. QED
      BY <1>2, <3>1
  <2>2. QED
    BY <1>4, <2>1, FlowThrottleSignal, FlowFetch, FlowEnqueueAck DEF ReaderStep
<1>5. ASSUME NEW r \in Subs, LoopReturns(r) \/ SkipEvent(r) \/ SendFails(r) PROVE FlowOf(s)'
  <2>1. Still(s) /\ Same(s) /\ conn'[s] \in {conn[s], "returned"}
    BY <1>5 DEF LoopReturns, SkipEvent, SendFails, Return, readerVars, TypeOK, LoopTypes
  <2>2. QED
    BY <1>2, <2>1
<1>6. ASSUME NEW r \in Subs, SendEvent(r) \/ GetReady(r) PROVE FlowOf(s)'
  <2>1. Still(s)
    BY <1>6 DEF SendEvent, GetReady, readerVars
  <2>2. CASE r # s
    <3>1. Same(s) /\ conn'[s] = conn[s]
      BY <1>6, <2>2 DEF SendEvent, GetReady, TypeOK, LoopTypes
    <3>2. QED
      BY <1>2, <2>1, <3>1
  <2>3. CASE r = s /\ SendEvent(s)
    <3>1. /\ conn[s] = "select" /\ conn'[s] = "await" /\ throttle' = throttle
          /\ sent'[s] = Append(sent[s], InHand(s)) /\ sent[s] \in Seq(Events)
      BY <2>3 DEF SendEvent, Received, TypeOK, LoopTypes
    <3>2. Len(sent'[s]) = Len(sent[s]) + 1
      BY <3>1
    <3>3. Windows(s)' = Windows(s)
      BY <1>1, <3>1, <3>2 DEF Windows
    <3>4. QED
      BY <1>1, <2>1, <3>3, WindowsGrow
  <2>4. CASE r = s /\ GetReady(s)
    <3>1. conn[s] = "await" /\ conn'[s] = "select" /\ sent'[s] = sent[s] /\ throttle'[s]
      BY <2>4 DEF GetReady, loopVars, TypeOK, LoopTypes
    <3>2. Windows(s)' = Len(sent[s]) - 1
      BY <1>1, <3>1 DEF Windows
    <3>3. \E x \in {0, 1} : Windows(s) = Len(sent[s]) - 1 - x
      BY <1>1, <3>1 DEF Windows
    <3>4. Windows(s)' \in Nat /\ Windows(s) <= Windows(s)'
      BY <1>1, <3>2, <3>3
    <3>5. QED
      BY <2>1, <3>4, WindowsGrow
  <2>5. QED
    BY <1>6, <2>2, <2>3, <2>4
<1>7. ASSUME NEW r \in Subs, NEW made \in SUBSET TopicsOf[r], Subscribe(r, made)
      PROVE  FlowOf(s)'
  <2>1. /\ log' = log /\ queued' = queued /\ pending' = pending /\ Same(s)
        /\ (conn'[s] = "await") => (conn[s] = "await")
    BY <1>7 DEF Subscribe, TypeOK, LoopTypes
  <2>2. CASE r # s
    <3>1. Still(s)
      BY <1>7, <2>1, <2>2 DEF Subscribe, TypeOK, ReaderTypes
    <3>2. QED
      BY <1>2, <2>1, <3>1
  <2>3. CASE r = s
    <3>1. reader[s] = "none" /\ reader'[s] \in {"none", "reading"}
          /\ conn[s] = "new" /\ conn'[s] = "select"
      BY <1>7, <2>3 DEF Subscribe, Positions, TypeOK, ReaderTypes, LoopTypes
    <3>2. Windows(s)' = Windows(s) /\ Base(s)' = Base(s) /\ Window' = Window
      BY <2>1, <3>1 DEF Windows, Base, Window
    <3>3. QED
      BY <2>1, <3>1, <3>2 DEF FlowOf
  <2>4. QED
    BY <2>2, <2>3
<1>8. ASSUME NEW r \in Subs,
             \/ SubscribeFails(r) \/ RecvReady(r) \/ RecvError(r) \/ ClientReady(r)
             \/ Hangup(r) \/ RemoteCancel(r)
      PROVE  FlowOf(s)'
  <2>1. Still(s) /\ Same(s)
    BY <1>8 DEF SubscribeFails, RecvReady, RecvError, ClientReady, Hangup, RemoteCancel,
       readerVars, loopVars
  <2>2. conn'[s] \in {conn[s], "returned"}
    BY <1>8 DEF SubscribeFails, RecvReady, RecvError, ClientReady, Hangup, RemoteCancel,
       loopVars, TypeOK, LoopTypes
  <2>3. QED
    BY <1>2, <2>1, <2>2
<1>9. ASSUME NEW t \in Topics, Publish(t) \/ PrunerFindsStale(t) \/ PrunerDeletes(t)
      PROVE  FlowOf(s)'
  <2>1. Still(s) /\ Same(s) /\ conn' = conn
    BY <1>9 DEF Publish, PrunerFindsStale, PrunerDeletes, readerVars, loopVars
  <2>2. QED
    BY <1>2, <2>1
<1>10. ASSUME NEW r \in Relays, Crash(r) PROVE FlowOf(s)'
  <2>1. /\ UNCHANGED <<log, queued, pending, sent, throttle>>
        /\ conn'[s] \in {conn[s], "returned"} /\ reader'[s] \in {reader[s], "stopped"}
    BY <1>10 DEF Crash
  <2>2. QED
    BY <1>2, <2>1
<1>11. CASE UNCHANGED vars
  <2>1. Still(s) /\ Same(s) /\ conn' = conn
    BY <1>11 DEF vars, readerVars, loopVars
  <2>2. QED
    BY <1>2, <2>1
<1>12. QED
  BY <1>3, <1>4, <1>5, <1>6, <1>7, <1>8, <1>9, <1>10, <1>11 DEF Next, LoopStep

(* Nothing has been received to begin with.                                *)
LEMMA FlowInit == Init => Flow
<1> SUFFICES ASSUME Init, NEW s \in Subs PROVE FlowOf(s)
  BY DEF Flow
<1>1. MaxPending \in Nat \ {0} /\ ReadCount \in Nat \ {0} /\ Window \in Nat
  BY DeliveryAssumption DEF Window
<1>2. Windows(s) = 0 /\ Base(s) = 0 /\ Len(log[s]) = 0 /\ pending[s] = 0
  BY DEF Init, Windows, Base
<1>3. QED
  BY <1>1, <1>2 DEF FlowOf

(* The reader of a single topic runs ahead of its client by one window for *)
(* each answer and one more, for every COUNT, throttle limit and channel   *)
(* size, and however many streams there are.                               *)
THEOREM RunsAheadByWindows == Spec => []ReadAhead
<1>1. Init => Flow
  BY FlowInit
<1>2. Flow /\ TypeOK /\ Positions /\ [Next]_vars => Flow'
  BY FlowStep DEF Flow, Throttled
<1>3. Flow /\ TypeOK => ReadAhead
  <2> SUFFICES ASSUME Flow, TypeOK, NEW s \in Subs, Throttled(s)
               PROVE  Len(log[s]) <= (Len(sent[s]) + 1) * Window
    BY DEF ReadAhead
  <2> DEFINE k == Windows(s)
             l == Len(sent[s])
  <2>1. Window \in Nat /\ l \in Nat /\ Len(log[s]) \in Nat
    BY FlowTypes
  <2>2. k \in Nat /\ Len(log[s]) <= (k + 1) * Window
    BY DEF Flow, FlowOf
  <2>3. k <= l
    <3>1. \E x, y \in {0, 1} : k = l - x - y
      BY <2>1 DEF Windows
    <3>2. QED
      BY <2>1, <2>2, <3>1
  <2> HIDE DEF k, l
  <2>4. (k + 1) * Window <= (l + 1) * Window
    BY <2>1, <2>2, <2>3, Products
  <2>5. (k + 1) * Window \in Nat /\ (l + 1) * Window \in Nat
    BY <2>1, <2>2
  <2>6. QED
    BY <2>1, <2>2, <2>4, <2>5 DEF l
<1>4. QED
  BY <1>1, <1>2, <1>3, TypeCorrect, DeliveryInvariant, PTL DEF Spec, DeliveryInv

--------------------------------------------------------------------------------
(* No wake-up of a throttled reader is lost, except with events that       *)
(* cannot be converted.  The argument follows the events that the reader   *)
(* has put into the channel since it last consumed a signal, those after   *)
(* Base: as long as no signal is in the throttle, the handler has passed   *)
(* none of them that it could send.                                        *)

(* The events the handler is done with: the one it awaits a Ready for is   *)
(* still in its hands.                                                     *)
Passed(s) == IF conn[s] = "await" THEN taken[s] - 1 ELSE taken[s]

SignalOwed(s) ==
  /\ reader[s] = "throttled" => pending[s] >= MaxPending
  /\ reader[s] # "stopped" /\ conn[s] # "returned" /\ ~throttle[s] =>
       \A i \in 1 .. Passed(s) : i > Base(s) => log[s][i] \in Unreadable

AnswerOwed == \A s \in Subs : conn[s] = "await" => Outstanding(s) = 1

Owed == AnswerOwed /\ \A s \in Subs : Throttled(s) => SignalOwed(s)

LEMMA AnswerOwedStep == TypeOK /\ AskedFirst /\ AnswerOwed /\ [Next]_vars => AnswerOwed'
<1> SUFFICES ASSUME TypeOK, AskedFirst, AnswerOwed, [Next]_vars PROVE AnswerOwed'
  OBVIOUS
<1>1. ASSUME NEW s \in Subs, SendEvent(s) PROVE AnswerOwed'
  <2>1. Outstanding(s) = 0 /\ Outstanding(s)' = Outstanding(s) + 1
    BY <1>1 DEF SendEvent, Received, AskedFirst, Outstanding, TypeOK, ClientTypes
  <2>2. \A r \in Subs : r # s => Outstanding(r)' = Outstanding(r) /\ conn'[r] = conn[r]
    BY <1>1 DEF SendEvent, Outstanding, TypeOK, ClientTypes, LoopTypes
  <2>3. QED
    BY <2>1, <2>2 DEF AnswerOwed
<1>2. ASSUME NEW s \in Subs, GetReady(s) PROVE AnswerOwed'
  <2>1. conn'[s] = "select"
    BY <1>2 DEF GetReady, TypeOK, LoopTypes
  <2>2. \A r \in Subs : r # s => Outstanding(r)' = Outstanding(r) /\ conn'[r] = conn[r]
    BY <1>2 DEF GetReady, Outstanding, TypeOK, ClientTypes, LoopTypes
  <2>3. QED
    BY <2>1, <2>2 DEF AnswerOwed
<1>3. ASSUME \A r \in Subs : Outstanding(r)' = Outstanding(r),
             \A r \in Subs : conn'[r] = "await" => conn[r] = "await"
      PROVE  AnswerOwed'
  BY <1>3 DEF AnswerOwed
<1>4. ASSUME NEW s \in Subs, RecvReady(s) \/ ClientReady(s) PROVE AnswerOwed'
  <2>1. \A r \in Subs : Outstanding(r)' = Outstanding(r)
    BY <1>4 DEF RecvReady, ClientReady, Outstanding, TypeOK, ClientTypes
  <2>2. conn' = conn
    BY <1>4 DEF RecvReady, ClientReady, loopVars
  <2>3. QED
    BY <1>3, <2>1, <2>2
<1>5. ASSUME NEW s \in Subs,
             \/ ReaderStep(s) \/ SkipEvent(s)
             \/ RecvError(s) \/ Hangup(s) \/ RemoteCancel(s)
      PROVE  AnswerOwed'
  <2>1. UNCHANGED <<unread, readyWire, readyCh, conn>>
    BY <1>5 DEF ReaderStep, ThrottleSignal, ReaderCancelled, Fetch, FetchReplyLost, Enqueue, Ack,
       SkipEvent, RecvError, Hangup, RemoteCancel, clientVars, loopVars
  <2>2. QED
    BY <1>3, <2>1 DEF Outstanding
<1>6. ASSUME NEW s \in Subs,
             \/ LoopReturns(s) \/ SendFails(s) \/ SubscribeFails(s)
             \/ \E made \in SUBSET TopicsOf[s] : Subscribe(s, made)
      PROVE  AnswerOwed'
  <2>1. UNCHANGED <<unread, readyWire, readyCh>>
    BY <1>6 DEF LoopReturns, SendFails, SubscribeFails, Subscribe, clientVars
  <2>2. \A r \in Subs : conn'[r] = "await" => conn[r] = "await"
    BY <1>6 DEF LoopReturns, SendFails, Return, SubscribeFails, Subscribe, TypeOK, LoopTypes
  <2>3. QED
    BY <1>3, <2>1, <2>2 DEF Outstanding
<1>7. ASSUME NEW t \in Topics, Publish(t) \/ PrunerFindsStale(t) \/ PrunerDeletes(t)
      PROVE  AnswerOwed'
  <2>1. UNCHANGED <<unread, readyWire, readyCh, conn>>
    BY <1>7 DEF Publish, PrunerFindsStale, PrunerDeletes, clientVars, loopVars
  <2>2. QED
    BY <1>3, <2>1 DEF Outstanding
<1>8. ASSUME NEW r \in Relays, Crash(r) PROVE AnswerOwed'
  <2>1. UNCHANGED <<unread, readyWire, readyCh>>
    BY <1>8 DEF Crash
  <2>2. \A s \in Subs : conn'[s] = "await" => conn[s] = "await"
    BY <1>8 DEF Crash
  <2>3. QED
    BY <1>3, <2>1, <2>2 DEF Outstanding
<1>9. CASE UNCHANGED vars
  BY <1>3, <1>9 DEF vars, clientVars, loopVars, Outstanding
<1>10. QED
  BY <1>1, <1>2, <1>4, <1>5, <1>6, <1>7, <1>8, <1>9 DEF Next, LoopStep

(* A step that takes nothing, consumes no signal and opens no stream.      *)
LEMMA SignalOwedUnchanged ==
  ASSUME TypeOK, NEW s \in Subs, SignalOwed(s),
         log'[s] = log[s], queued'[s] = queued[s], pending'[s] = pending[s],
         taken'[s] = taken[s], throttle'[s] = throttle[s],
         reader'[s] \in {reader[s], "stopped"}, conn'[s] \in {conn[s], "returned"}
  PROVE  SignalOwed(s)'
<1>1. CASE reader'[s] = "stopped"
  BY <1>1 DEF SignalOwed
<1>2. CASE reader'[s] = reader[s] /\ conn'[s] = "returned"
  BY <1>2 DEF SignalOwed
<1>3. CASE reader'[s] = reader[s] /\ conn'[s] = conn[s]
  <2>1. Passed(s)' = Passed(s) /\ Base(s)' = Base(s)
    BY <1>3 DEF Passed, Base
  <2>2. QED
    BY <1>3, <2>1 DEF SignalOwed
<1>4. QED
  BY <1>1, <1>2, <1>3

(* The reader's own steps: a signal empties the window, Redis lengthens    *)
(* the log, and the steps between eventsCh and XACK leave Base alone.      *)
LEMMA SignalOwedReader ==
  ASSUME TypeOK, Positions, NEW s \in Subs, Throttled(s), SignalOwed(s), ReaderStep(s)
  PROVE  SignalOwed(s)'
<1>1. taken' = taken /\ conn' = conn /\ Passed(s)' = Passed(s)
  BY DEF ReaderStep, ThrottleSignal, ReaderCancelled, Fetch, FetchReplyLost, Enqueue, Ack, loopVars,
     Passed
<1>2. /\ taken[s] \in Nat /\ queued[s] \in Nat /\ pending[s] \in Nat /\ Len(log[s]) \in Nat
      /\ taken[s] <= queued[s] /\ queued[s] <= Len(log[s])
      /\ MaxPending \in Nat
  BY FlowTypes DEF TypeOK, LoopTypes, Positions
<1>3. Passed(s) \in Int /\ Passed(s) <= taken[s]
  BY <1>2 DEF Passed
<1>4. CASE ThrottleSignal(s)
  <2>1. reader'[s] = "reading" /\ pending'[s] = 0 /\ queued' = queued
    BY <1>4 DEF ThrottleSignal, TypeOK, ReaderTypes
  <2>2. Base(s)' = queued[s]
    BY <1>2, <2>1 DEF Base
  <2>3. QED
    BY <1>1, <1>2, <1>3, <2>1, <2>2 DEF SignalOwed
<1>5. CASE ReaderCancelled(s) \/ FetchReplyLost(s)
  BY <1>5, SignalOwedUnchanged DEF ReaderCancelled, FetchReplyLost, loopVars, readerVars, TypeOK,
     ReaderTypes
<1>6. CASE Fetch(s)
  <2>1. PICK b \in Replies(Readable(s)) : log' = [log EXCEPT ![s] = @ \o b]
    BY <1>6, FetchLengthensLog
  <2>2. log'[s] = log[s] \o b /\ log[s] \in Seq(Events) /\ b \in Seq(Events)
    BY <2>1, ReplyIsSeq DEF TypeOK, ReaderTypes
  <2>3. \A i \in 1 .. Passed(s) : log'[s][i] = log[s][i]
    BY <1>2, <1>3, <2>2
  <2>4. /\ reader[s] = "reading" /\ reader'[s] = "queueing"
        /\ queued' = queued /\ pending' = pending /\ throttle' = throttle
    BY <1>6 DEF Fetch, TypeOK, ReaderTypes
  <2>5. Base(s)' = Base(s)
    BY <2>4 DEF Base
  <2>6. QED
    BY <1>1, <2>3, <2>4, <2>5 DEF SignalOwed
<1>7. CASE Enqueue(s)
  <2>1. /\ reader[s] = "queueing" /\ reader'[s] = "acking"
        /\ queued'[s] = queued[s] + 1 /\ UNCHANGED <<log, pending, throttle>>
    BY <1>7 DEF Enqueue, TypeOK, ReaderTypes
  <2>2. Base(s)' = Base(s)
    BY <1>2, <2>1 DEF Base
  <2>3. QED
    BY <1>1, <2>1, <2>2 DEF SignalOwed
<1>8. ASSUME NEW ok \in BOOLEAN, Ack(s, ok) PROVE SignalOwed(s)'
  <2>1. /\ reader[s] = "acking" /\ reader'[s] # "acking"
        /\ pending'[s] = pending[s] + 1 /\ UNCHANGED <<log, queued, throttle>>
    BY <1>8 DEF Ack, NextRead, TypeOK, ReaderTypes
  <2>2. Base(s)' = Base(s)
    BY <1>2, <2>1 DEF Base
  <2>3. reader'[s] = "throttled" => pending'[s] >= MaxPending
    <3>1. reader'[s] \in {"queueing", NextRead(s, pending'[s])}
      BY <1>8 DEF Ack, TypeOK, ReaderTypes
    <3>2. QED
      BY <3>1 DEF NextRead
  <2>4. QED
    BY <1>1, <2>1, <2>2, <2>3 DEF SignalOwed
<1>9. QED
  BY <1>4, <1>5, <1>6, <1>7, <1>8 DEF ReaderStep

(* The handler's steps: an event it skips is one that cannot be converted, *)
(* an event it sends stays in its hands, and a Ready is a signal.          *)
LEMMA SignalOwedHandler ==
  ASSUME TypeOK, Positions, NEW s \in Subs, SignalOwed(s), LoopStep(s)
  PROVE  SignalOwed(s)'
<1>1. UNCHANGED readerVars /\ Base(s)' = Base(s)
  BY DEF LoopStep, LoopReturns, SkipEvent, SendEvent, SendFails, GetReady, readerVars, Base
<1>2. taken[s] \in Nat
  BY DEF TypeOK, LoopTypes
<1>3. CASE LoopReturns(s) \/ SendFails(s)
  <2>1. conn'[s] = "returned"
    BY <1>3 DEF LoopReturns, SendFails, Return, TypeOK, LoopTypes
  <2>2. QED
    BY <1>1, <2>1 DEF SignalOwed, readerVars
<1>4. CASE SkipEvent(s)
  <2>1. /\ conn[s] = "select" /\ conn' = conn /\ taken'[s] = taken[s] + 1
        /\ throttle' = throttle /\ log[s][taken[s] + 1] \in Unreadable
    BY <1>4 DEF SkipEvent, Received, InHand, TypeOK, LoopTypes
  <2>2. Passed(s) = taken[s] /\ Passed(s)' = taken[s] + 1
    BY <2>1 DEF Passed
  <2>3. \A i \in 1 .. taken[s] + 1 : i = taken[s] + 1 \/ i \in 1 .. taken[s]
    BY <1>2
  <2>4. QED
    BY <1>1, <2>1, <2>2, <2>3 DEF SignalOwed, readerVars
<1>5. CASE SendEvent(s)
  <2>1. /\ conn[s] = "select" /\ conn'[s] = "await" /\ taken'[s] = taken[s] + 1
        /\ throttle' = throttle
    BY <1>5 DEF SendEvent, Received, TypeOK, LoopTypes
  <2>2. Passed(s)' = Passed(s)
    BY <1>2, <2>1 DEF Passed
  <2>3. QED
    BY <1>1, <2>1, <2>2 DEF SignalOwed, readerVars
<1>6. CASE GetReady(s)
  <2>1. throttle'[s]
    BY <1>6 DEF GetReady, TypeOK
  <2>2. QED
    BY <1>1, <2>1 DEF SignalOwed, readerVars
<1>7. QED
  BY <1>3, <1>4, <1>5, <1>6 DEF LoopStep

LEMMA SignalOwedStep ==
  ASSUME TypeOK, Positions, [Next]_vars, NEW s \in Subs, Throttled(s), SignalOwed(s)
  PROVE  SignalOwed(s)'
<1> DEFINE Still(x) == /\ log'[x] = log[x] /\ queued'[x] = queued[x] /\ pending'[x] = pending[x]
                       /\ taken'[x] = taken[x] /\ throttle'[x] = throttle[x]
                       /\ reader'[x] \in {reader[x], "stopped"}
                       /\ conn'[x] \in {conn[x], "returned"}
<1>1. ASSUME Still(s) PROVE SignalOwed(s)'
  BY <1>1, SignalOwedUnchanged
<1>2. ASSUME NEW r \in Subs, ReaderStep(r), r # s PROVE Still(s)
  <2>1. CASE ThrottleSignal(r) \/ ReaderCancelled(r) \/ Fetch(r) \/ FetchReplyLost(r)
    BY <1>2, <2>1 DEF ThrottleSignal, ReaderCancelled, Fetch, FetchReplyLost, loopVars,
       readerVars, TypeOK, ReaderTypes
  <2>2. CASE Enqueue(r) \/ \E ok \in BOOLEAN : Ack(r, ok)
    BY <1>2, <2>2 DEF Enqueue, Ack, loopVars, TypeOK, ReaderTypes
  <2>3. QED
    BY <1>2, <2>1, <2>2 DEF ReaderStep
<1>3. ASSUME NEW r \in Subs, LoopStep(r), r # s PROVE Still(s)
  <2>1. UNCHANGED readerVars
    BY <1>3 DEF LoopStep, LoopReturns, SkipEvent, SendEvent, SendFails, GetReady, readerVars
  <2>2. taken'[s] = taken[s] /\ throttle'[s] = throttle[s] /\ conn'[s] = conn[s]
    BY <1>3 DEF LoopStep, LoopReturns, SkipEvent, SendEvent, SendFails, GetReady, Return, TypeOK,
       LoopTypes
  <2>3. QED
    BY <2>1, <2>2 DEF readerVars
<1>4. ASSUME NEW r \in Subs, NEW made \in SUBSET TopicsOf[r], Subscribe(r, made)
      PROVE  SignalOwed(s)'
  <2>1. UNCHANGED <<log, queued, pending, taken, throttle>>
    BY <1>4 DEF Subscribe
  <2>2. CASE r # s
    <3>1. reader'[s] = reader[s] /\ conn'[s] = conn[s]
      BY <1>4, <2>2 DEF Subscribe, TypeOK, ReaderTypes, LoopTypes
    <3>2. QED
      BY <1>1, <2>1, <3>1
  <2>3. CASE r = s
    <3>1. /\ reader[s] = "none" /\ reader'[s] \in {"none", "reading"}
          /\ conn[s] = "new" /\ conn'[s] = "select"
      BY <1>4, <2>3 DEF Subscribe, Positions, TypeOK, ReaderTypes, LoopTypes
    <3>2. Passed(s)' = Passed(s) /\ Base(s)' = Base(s)
      BY <2>1, <3>1 DEF Passed, Base
    <3>3. QED
      BY <2>1, <3>1, <3>2 DEF SignalOwed
  <2>4. QED
    BY <2>2, <2>3
<1>5. ASSUME NEW r \in Subs,
             \/ SubscribeFails(r) \/ RecvReady(r) \/ RecvError(r) \/ ClientReady(r)
             \/ Hangup(r) \/ RemoteCancel(r)
      PROVE  Still(s)
  BY <1>5 DEF SubscribeFails, RecvReady, RecvError, ClientReady, Hangup, RemoteCancel,
     readerVars, loopVars, TypeOK, LoopTypes
<1>6. ASSUME NEW t \in Topics, Publish(t) \/ PrunerFindsStale(t) \/ PrunerDeletes(t)
      PROVE  Still(s)
  BY <1>6 DEF Publish, PrunerFindsStale, PrunerDeletes, readerVars, loopVars
<1>7. ASSUME NEW r \in Relays, Crash(r) PROVE Still(s)
  BY <1>7 DEF Crash
<1>8. CASE UNCHANGED vars
  <2>1. Still(s)
    BY <1>8 DEF vars, readerVars, loopVars
  <2>2. QED
    BY <1>1, <2>1
<1> HIDE DEF Still
<1>9. ASSUME NEW r \in Subs, ReaderStep(r) \/ LoopStep(r) PROVE SignalOwed(s)'
  BY <1>1, <1>2, <1>3, <1>9, SignalOwedReader, SignalOwedHandler
<1>10. QED
  BY <1>1, <1>4, <1>5, <1>6, <1>7, <1>8, <1>9 DEF Next

(* A single-topic reader that waits at its throttle, while its handler     *)
(* runs, has a wake-up on its way: the signal is there, or an event that   *)
(* the handler has yet to take, or an event that the client has yet to     *)
(* answer.  It has none only after a window of MaxPending or more events   *)
(* none of which can be converted: that is how a subscription stalls, and  *)
(* there is no other way.                                                  *)
WakeUpOwed ==
  \A s \in Subs :
    Throttled(s) /\ reader[s] = "throttled" /\ Open(s) =>
      \/ throttle[s]
      \/ conn[s] = "select" /\ taken[s] < queued[s]
      \/ conn[s] = "await" /\ Outstanding(s) = 1
      \/ /\ pending[s] >= MaxPending
         /\ \A i \in queued[s] - pending[s] + 1 .. queued[s] : log[s][i] \in Unreadable

THEOREM WakeUpsAreNotLost == Spec => []WakeUpOwed
<1>1. Init => AskedFirst /\ Owed /\ Flow
  <2> SUFFICES ASSUME Init PROVE AskedFirst /\ Owed /\ Flow
    OBVIOUS
  <2>1. AskedFirst /\ AnswerOwed
    BY DEF Init, AskedFirst, Outstanding, AnswerOwed
  <2>2. ASSUME NEW s \in Subs PROVE SignalOwed(s)
    <3>1. Passed(s) = 0 /\ reader[s] = "none"
      BY DEF Init, Passed
    <3>2. QED
      BY <3>1 DEF SignalOwed
  <2>3. Flow
    BY FlowInit
  <2>4. QED
    BY <2>1, <2>2, <2>3 DEF Owed
<1>2. TypeOK /\ Positions /\ AskedFirst /\ Owed /\ [Next]_vars => Owed'
  BY AnswerOwedStep, SignalOwedStep DEF Owed, Throttled
<1>3. TypeOK /\ Positions /\ Flow /\ [Next]_vars => Flow'
  BY FlowStep DEF Flow, Throttled
<1>4. TypeOK /\ Positions /\ Flow /\ Owed => WakeUpOwed
  <2> SUFFICES ASSUME TypeOK, Positions, Flow, Owed, NEW s \in Subs,
                      Throttled(s), reader[s] = "throttled", Open(s)
               PROVE  \/ throttle[s]
                      \/ conn[s] = "select" /\ taken[s] < queued[s]
                      \/ conn[s] = "await" /\ Outstanding(s) = 1
                      \/ /\ pending[s] >= MaxPending
                         /\ \A i \in queued[s] - pending[s] + 1 .. queued[s] :
                              log[s][i] \in Unreadable
    BY DEF WakeUpOwed
  <2>1. CASE conn[s] = "await"
    BY <2>1 DEF Owed, AnswerOwed
  <2>2. CASE conn[s] = "select" /\ ~throttle[s] /\ ~(taken[s] < queued[s])
    <3>1. /\ taken[s] \in Nat /\ queued[s] \in Nat /\ pending[s] \in Nat
          /\ taken[s] <= queued[s]
      BY FlowTypes DEF TypeOK, LoopTypes, Positions
    <3>2. Base(s) = queued[s] - pending[s] /\ Base(s) \in Nat
      BY DEF Base, Flow, FlowOf
    <3>3. Passed(s) = queued[s]
      BY <2>2, <3>1 DEF Passed
    <3>4. \A i \in queued[s] - pending[s] + 1 .. queued[s] : i \in 1 .. queued[s] /\ i > Base(s)
      BY <3>1, <3>2
    <3>5. pending[s] >= MaxPending
      BY DEF Owed, SignalOwed
    <3>6. \A i \in 1 .. Passed(s) : i > Base(s) => log[s][i] \in Unreadable
      BY <2>2 DEF Owed, SignalOwed
    <3>7. QED
      BY <3>3, <3>4, <3>5, <3>6
  <2>3. QED
    BY <2>1, <2>2 DEF Open
<1>5. QED
  BY <1>1, <1>2, <1>3, <1>4, AskedFirstStep, TypeCorrect, PTL DEF Spec

--------------------------------------------------------------------------------
(* EventDelivery implements WebhookDelivery: every step of the relay maps  *)
(* to accepting an event, assigning waiting events to a connection,        *)
(* sending an assigned one, or losing some (or none).                      *)

(* The refinement mapping of Promise, part by part.                        *)
WaitingEvents == {e \in DOMAIN published : Waiting(e)}
AssignedTo(s) ==
  IF Open(s) THEN {log[s][i] : i \in taken[s] + 1 .. Len(log[s])} ELSE {}
SentOn(s) == {sent[s][i] : i \in DOMAIN sent[s]}

(* A stream that has not been subscribed has received nothing.             *)
NewIsEmpty == \A s \in Subs : conn[s] = "new" => log[s] = <<>>

RefinementInv == DeliveryInv /\ NewIsEmpty

LEMMA NewIsEmptyStep == RefinementInv /\ [Next]_vars => NewIsEmpty'
<1> SUFFICES ASSUME RefinementInv, [Next]_vars PROVE NewIsEmpty'
  OBVIOUS
<1> USE DEF RefinementInv, DeliveryInv
<1>1. ASSUME log' = log, \A s \in Subs : conn'[s] = "new" => conn[s] = "new"
      PROVE  NewIsEmpty'
  BY <1>1 DEF NewIsEmpty
<1>2. ASSUME NEW s \in Subs, Fetch(s) PROVE NewIsEmpty'
  <2>1. conn' = conn /\ conn[s] # "new" /\ \A r \in Subs : r # s => log'[r] = log[r]
    BY <1>2 DEF Fetch, loopVars, Positions, TypeOK, ReaderTypes
  <2>2. QED
    BY <2>1 DEF NewIsEmpty
<1>3. ASSUME NEW s \in Subs, ReaderStep(s), ~Fetch(s) PROVE NewIsEmpty'
  BY <1>1, <1>3 DEF ReaderStep, ThrottleSignal, ReaderCancelled, FetchReplyLost, Enqueue, Ack,
     loopVars, readerVars
<1>4. ASSUME NEW s \in Subs,
             \/ LoopStep(s) \/ SubscribeFails(s)
             \/ \E made \in SUBSET TopicsOf[s] : Subscribe(s, made)
      PROVE  NewIsEmpty'
  <2>1. \A r \in Subs : conn'[r] = "new" => conn[r] = "new"
    BY <1>4 DEF LoopStep, LoopReturns, SkipEvent, SendEvent, SendFails, GetReady, Return,
       SubscribeFails, Subscribe, TypeOK, LoopTypes
  <2>2. log' = log
    BY <1>4 DEF LoopStep, LoopReturns, SkipEvent, SendEvent, SendFails, GetReady,
       SubscribeFails, Subscribe, readerVars
  <2>3. QED
    BY <1>1, <2>1, <2>2
<1>5. ASSUME NEW s \in Subs,
             \/ RecvReady(s) \/ RecvError(s) \/ ClientReady(s)
             \/ Hangup(s) \/ RemoteCancel(s)
      PROVE  NewIsEmpty'
  BY <1>1, <1>5 DEF RecvReady, RecvError, ClientReady, Hangup, RemoteCancel, readerVars, loopVars
<1>6. ASSUME NEW t \in Topics, Publish(t) \/ PrunerFindsStale(t) \/ PrunerDeletes(t)
      PROVE  NewIsEmpty'
  BY <1>1, <1>6 DEF Publish, PrunerFindsStale, PrunerDeletes, readerVars, loopVars
<1>7. ASSUME NEW r \in Relays, Crash(r) PROVE NewIsEmpty'
  <2>1. log' = log /\ \A s \in Subs : conn'[s] = "new" => conn[s] = "new"
    BY <1>7 DEF Crash
  <2>2. QED
    BY <1>1, <2>1
<1>8. CASE UNCHANGED vars
  BY <1>1, <1>8 DEF vars, readerVars, loopVars
<1>9. QED
  BY <1>2, <1>3, <1>4, <1>5, <1>6, <1>7, <1>8 DEF Next

--------------------------------------------------------------------------------
(* A step that accepts nothing, gives out nothing and sends nothing loses  *)
(* events, or none.                                                        *)
LEMMA LosesOnly ==
  ASSUME Len(published') = Len(published),
         WaitingEvents' \subseteq WaitingEvents,
         \A s \in Subs : AssignedTo(s)' \subseteq AssignedTo(s),
         \A s \in Subs : SentOn(s)' = SentOn(s)
  PROVE  Promise!Lose
BY DEF Promise!Lose, WaitingEvents, AssignedTo, SentOn

(* The waiting events shrink with what the streams hold after the cursors. *)
LEMMA WaitingShrinks ==
  ASSUME TypeOK, published' = published,
         \A t \in Topics : Undelivered(t)' \subseteq Undelivered(t)
  PROVE  WaitingEvents' \subseteq WaitingEvents
<1>1. \A e \in DOMAIN published : published[e] \in Topics
  BY DEF TypeOK, RedisTypes
<1>2. QED
  BY <1>1 DEF WaitingEvents, Waiting

LEMMA PublishAccepts ==
  ASSUME RefinementInv, NEW t \in Topics, Publish(t)
  PROVE  Promise!Accept
<1> USE DEF RefinementInv, DeliveryInv
<1> DEFINE n == Len(published) + 1
<1>1. /\ n - 1 < MaxEvents /\ Len(published') = n
      /\ \A e \in DOMAIN published : published'[e] = published[e]
      /\ DOMAIN published' = DOMAIN published \cup {n}
  BY DEF Publish, TypeOK, RedisTypes
<1>2. /\ \A r \in Topics : stream'[r] \subseteq stream[r] \cup {n}
      /\ UNCHANGED <<lastId, conn, taken, sent, log>>
  BY DEF Publish, TypeOK, RedisTypes, loopVars, readerVars
<1> HIDE DEF n
<1>3. WaitingEvents' \subseteq WaitingEvents \cup {n}
  <2> SUFFICES ASSUME NEW e \in WaitingEvents', e # n PROVE e \in WaitingEvents
    OBVIOUS
  <2>1. e \in DOMAIN published /\ published'[e] = published[e] /\ published[e] \in Topics
    BY <1>1 DEF WaitingEvents, TypeOK, RedisTypes
  <2>2. e \in Undelivered(published[e])
    BY <1>2, <2>1 DEF WaitingEvents, Waiting, Undelivered
  <2>3. QED
    BY <2>1, <2>2 DEF WaitingEvents, Waiting
<1>4. /\ [s \in Subs |-> AssignedTo(s)]' = [s \in Subs |-> AssignedTo(s)]
      /\ [s \in Subs |-> SentOn(s)]' = [s \in Subs |-> SentOn(s)]
  BY <1>2 DEF AssignedTo, SentOn, Open
<1>5. Len(published) < MaxEvents /\ Len(published') = Len(published) + 1
  BY <1>1 DEF n
<1>6. {e \in DOMAIN published : Waiting(e)}'
        \in SUBSET ({e \in DOMAIN published : Waiting(e)} \cup {Len(published')})
  BY <1>1, <1>3 DEF WaitingEvents
<1>7. QED
  BY <1>4, <1>5, <1>6 DEF Promise!Accept, AssignedTo, SentOn

(* A read takes exactly what it returns out of what waits.                 *)
LEMMA DeliverTakes ==
  ASSUME RefinementInv, NEW s \in Subs, CanRead(s), Deliver(s, Readable(s))
  PROVE  /\ Readable(s) \in (SUBSET WaitingEvents) \ {{}}
         /\ WaitingEvents' = WaitingEvents \ Readable(s)
<1> USE DEF RefinementInv, DeliveryInv, LogInv
<1>1. published' = published /\ Readable(s) # {}
  BY DEF Deliver, CanRead
<1>2. \A e \in DOMAIN published : published[e] \in Topics
  BY DEF TypeOK, RedisTypes
<1>3. Readable(s) \subseteq WaitingEvents
  BY ReadableWaits DEF WaitingEvents, Waiting
<1>4. ASSUME NEW e \in WaitingEvents'
      PROVE  e \in WaitingEvents /\ e \notin Readable(s)
  <2>1. e \in DOMAIN published /\ published[e] \in Topics /\ e \in Nat
    BY <1>1, <1>2 DEF WaitingEvents, TypeOK, RedisTypes
  <2>2. PICK t \in Topics : t = published[e]
    BY <2>1
  <2>3. e \in Undelivered(t)'
    BY <1>1, <2>2 DEF WaitingEvents, Waiting, Undelivered
  <2>4. e \in Undelivered(t) /\ \A f \in Mine(Readable(s), t) : f < e
    BY <2>3, DeliverMoves
  <2>5. e \in WaitingEvents
    BY <2>1, <2>2, <2>4 DEF WaitingEvents, Waiting
  <2>6. e \notin Mine(Readable(s), t)
    BY <2>1, <2>4
  <2>7. QED
    BY <2>2, <2>5, <2>6 DEF Mine
<1>5. ASSUME NEW e \in WaitingEvents, e \notin Readable(s)
      PROVE  e \in WaitingEvents'
  <2>1. e \in DOMAIN published /\ published[e] \in Topics
    BY <1>2 DEF WaitingEvents
  <2>2. PICK t \in Topics : t = published[e]
    BY <2>1
  <2>3. e \in Undelivered(t) /\ e \notin Mine(Readable(s), t)
    BY <1>5, <2>2 DEF WaitingEvents, Waiting, Mine
  <2>4. e \in Undelivered(t)'
    BY <2>3, DeliverMoves
  <2>5. QED
    BY <1>1, <2>1, <2>2, <2>4 DEF WaitingEvents, Waiting, Undelivered
<1>6. WaitingEvents' = WaitingEvents \ Readable(s)
  BY <1>4, <1>5
<1>7. QED
  BY <1>1, <1>3, <1>6

(* A reply lists all that it was given.                                    *)
LEMMA ReplyCovers ==
  ASSUME TypeOK, NEW s \in Subs, NEW b \in Replies(Readable(s))
  PROVE  {b[i] : i \in 1 .. Len(b)} = Readable(s)
<1> DEFINE S == Readable(s)
           n == Cardinality(S)
<1>1. n \in Nat /\ IsFiniteSet(S) /\ Len(b) = n
  BY ReadableIsFinite, ReplyIsSeq
<1>2. b \in [1 .. n -> S] /\ \A i, j \in 1 .. n : b[i] = b[j] => i = j
  BY DEF Replies
<1> HIDE DEF S, n
<1>3. Cardinality(1 .. n) = n
  BY <1>1, FS_Interval
<1>4. b \in Injection(1 .. n, S)
  BY <1>2 DEF Injection, IsInjective
<1>5. b \in Surjection(1 .. n, S)
  BY <1>1, <1>3, <1>4, FS_Injection DEF n
<1>6. \A e \in S : \E i \in 1 .. n : b[i] = e
  BY <1>5 DEF Surjection
<1>7. {b[i] : i \in 1 .. n} = S
  BY <1>2, <1>6
<1>8. QED
  BY <1>1, <1>7 DEF S

(* A read assigns what waits to the connection while its handler runs, and *)
(* loses it when the handler has returned.                                 *)
LEMMA FetchAssigns ==
  ASSUME RefinementInv, NEW s \in Subs, Fetch(s)
  PROVE  Promise!Assign(s) \/ Promise!Lose
<1> USE DEF RefinementInv, DeliveryInv
<1>1. /\ CanRead(s) /\ Deliver(s, Readable(s))
      /\ UNCHANGED <<conn, taken, sent, published>>
  BY DEF Fetch, loopVars, Deliver
<1>2. PICK b \in Replies(Readable(s)) : log' = [log EXCEPT ![s] = @ \o b]
  BY DEF Fetch
<1>3. b \in Seq(Events) /\ {b[i] : i \in 1 .. Len(b)} = Readable(s)
  BY ReplyIsSeq, ReplyCovers
<1>4. \A r \in Subs : r # s => log'[r] = log[r]
  BY <1>2 DEF TypeOK, ReaderTypes
<1>5. /\ Readable(s) \in (SUBSET WaitingEvents) \ {{}}
      /\ WaitingEvents' = WaitingEvents \ Readable(s)
  BY <1>1, DeliverTakes
<1>6. \A r \in Subs : /\ r # s => AssignedTo(r)' = AssignedTo(r)
                      /\ SentOn(r)' = SentOn(r)
                      /\ Open(r)' = Open(r)
  BY <1>1, <1>4 DEF AssignedTo, SentOn, Open
<1>7. CASE ~Open(s)
  <2>1. AssignedTo(s)' = AssignedTo(s)
    BY <1>6, <1>7 DEF AssignedTo
  <2>2. QED
    BY <1>1, <1>5, <1>6, <2>1, LosesOnly
<1>8. CASE Open(s)
  <2> DEFINE m == Len(log[s])
             k == taken[s]
  <2>1. m \in Nat /\ k \in Nat /\ k <= m /\ Len(b) \in Nat /\ log[s] \in Seq(Events)
    <3>1. log[s] \in Seq(Events) /\ taken[s] \in Nat /\ queued[s] \in Nat
      BY DEF TypeOK, ReaderTypes, LoopTypes
    <3>2. QED
      BY <1>3, <3>1 DEF Positions
  <2>2. /\ log'[s] = log[s] \o b /\ Len(log'[s]) = m + Len(b)
        /\ \A i \in 1 .. m : log'[s][i] = log[s][i]
        /\ \A i \in 1 .. Len(b) : log'[s][m + i] = b[i]
    <3>1. log'[s] = log[s] \o b
      BY <1>2 DEF TypeOK, ReaderTypes
    <3>2. QED
      BY <1>3, <2>1, <3>1, ConcatProperties
  <2>3. AssignedTo(s)' = {log'[s][i] : i \in k + 1 .. m + Len(b)}
    BY <1>1, <1>6, <1>8, <2>2 DEF AssignedTo
  <2>4. AssignedTo(s) = {log[s][i] : i \in k + 1 .. m}
    BY <1>8 DEF AssignedTo
  <2> HIDE DEF m, k
  <2>5. {log'[s][i] : i \in k + 1 .. m + Len(b)}
          = {log[s][i] : i \in k + 1 .. m} \cup {b[i] : i \in 1 .. Len(b)}
    <3>1. ASSUME NEW i \in k + 1 .. m + Len(b)
          PROVE  \/ i \in k + 1 .. m /\ log'[s][i] = log[s][i]
                 \/ i - m \in 1 .. Len(b) /\ log'[s][i] = b[i - m]
      <4>1. CASE i <= m
        BY <2>1, <2>2, <4>1
      <4>2. CASE i > m
        <5>1. i - m \in 1 .. Len(b) /\ m + (i - m) = i
          BY <2>1, <4>2
        <5>2. QED
          BY <2>2, <5>1
      <4>3. QED
        BY <2>1, <4>1, <4>2
    <3>2. ASSUME NEW i \in k + 1 .. m
          PROVE  i \in k + 1 .. m + Len(b) /\ log'[s][i] = log[s][i]
      BY <2>1, <2>2
    <3>3. ASSUME NEW i \in 1 .. Len(b)
          PROVE  m + i \in k + 1 .. m + Len(b) /\ log'[s][m + i] = b[i]
      <4>1. m + i \in k + 1 .. m + Len(b)
        BY <2>1
      <4>2. log'[s][m + i] = b[i]
        BY <2>2
      <4>3. QED
        BY <4>1, <4>2
    <3> DEFINE A == {log[s][i] : i \in k + 1 .. m}
               B == {b[i] : i \in 1 .. Len(b)}
               C == {log'[s][i] : i \in k + 1 .. m + Len(b)}
    <3>4. ASSUME NEW e \in C PROVE e \in A \cup B
      <4>1. PICK i \in k + 1 .. m + Len(b) : e = log'[s][i]
        OBVIOUS
      <4>2. QED
        BY <3>1, <4>1
    <3>5. A \subseteq C /\ B \subseteq C
      BY <3>2, <3>3
    <3> HIDE DEF A, B, C
    <3>6. C = A \cup B
      BY <3>4, <3>5
    <3>7. QED
      BY <3>6 DEF A, B, C
  <2>6. AssignedTo(s)' = AssignedTo(s) \cup Readable(s)
    BY <1>3, <2>3, <2>4, <2>5
  <2>7. [r \in Subs |-> AssignedTo(r)]'
          = [[r \in Subs |-> AssignedTo(r)] EXCEPT ![s] = @ \cup Readable(s)]
    BY <1>6, <2>6
  <2>8. [r \in Subs |-> SentOn(r)]' = [r \in Subs |-> SentOn(r)]
    BY <1>6
  <2>9. QED
    BY <1>1, <1>5, <2>7, <2>8 DEF Promise!Assign, WaitingEvents, AssignedTo, SentOn
<1>9. QED
  BY <1>7, <1>8

(* The event in hand is sent, and is no longer assigned.                   *)
LEMMA SendEventSends ==
  ASSUME RefinementInv, NEW s \in Subs, SendEvent(s)
  PROVE  Promise!Send(s)
<1> USE DEF RefinementInv, DeliveryInv
<1> DEFINE k == taken[s]
           m == Len(log[s])
           e == InHand(s)
<1>1. /\ UNCHANGED <<published, stream, lastId, log>>
      /\ taken' = [taken EXCEPT ![s] = @ + 1]
      /\ sent' = [sent EXCEPT ![s] = Append(@, e)]
      /\ conn' = [conn EXCEPT ![s] = "await"]
      /\ conn[s] = "select" /\ taken[s] < queued[s]
  BY DEF SendEvent, Received, redisVars, keyVars, readerVars
<1>2. k \in Nat /\ m \in Nat /\ k + 1 \in 1 .. m /\ DOMAIN log[s] = 1 .. m
  <2>1. log[s] \in Seq(Events) /\ taken[s] \in Nat /\ queued[s] \in Nat
    BY DEF TypeOK, ReaderTypes, LoopTypes
  <2>2. QED
    BY <1>1, <2>1 DEF Positions
<1>3. \A r \in Subs : r # s => /\ taken'[r] = taken[r] /\ sent'[r] = sent[r]
                              /\ conn'[r] = conn[r]
  BY <1>1 DEF TypeOK, LoopTypes
<1>4. taken'[s] = k + 1 /\ sent'[s] = Append(sent[s], e) /\ conn'[s] = "await"
  BY <1>1 DEF TypeOK, LoopTypes
<1>5. AssignedTo(s) = {log[s][i] : i \in k + 1 .. m}
  BY <1>1 DEF AssignedTo, Open
<1>6. AssignedTo(s)' = {log[s][i] : i \in (k + 1) + 1 .. m}
  BY <1>1, <1>4 DEF AssignedTo, Open
<1>7. e = log[s][k + 1] /\ \A i \in (k + 1) + 1 .. m : log[s][i] # e
  <2>1. ASSUME NEW i \in (k + 1) + 1 .. m PROVE i \in 1 .. m /\ i # k + 1
    BY <1>2
  <2>2. QED
    BY <1>2, <2>1 DEF LogInv, LoggedOnce, InHand
<1> HIDE DEF k, m, e
<1>8. e \in AssignedTo(s) /\ AssignedTo(s)' = AssignedTo(s) \ {e}
  <2>1. k + 1 \in k + 1 .. m
    BY <1>2
  <2>2. \A i : i \in k + 1 .. m <=> i = k + 1 \/ i \in (k + 1) + 1 .. m
    BY <1>2
  <2>3. QED
    BY <1>5, <1>6, <1>7, <2>1, <2>2
<1>9. SentOn(s)' = SentOn(s) \cup {e}
  <2>1. sent[s] \in Seq(Events)
    BY DEF TypeOK, LoopTypes
  <2>2. /\ DOMAIN sent'[s] = DOMAIN sent[s] \cup {Len(sent[s]) + 1}
        /\ sent'[s][Len(sent[s]) + 1] = e
        /\ \A i \in DOMAIN sent[s] : sent'[s][i] = sent[s][i]
    BY <1>4, <2>1
  <2>3. QED
    BY <2>2 DEF SentOn
<1>10. \A r \in Subs : r # s => AssignedTo(r)' = AssignedTo(r) /\ SentOn(r)' = SentOn(r)
  BY <1>1, <1>3 DEF AssignedTo, SentOn, Open
<1>11. /\ [r \in Subs |-> AssignedTo(r)]'
            = [[r \in Subs |-> AssignedTo(r)] EXCEPT ![s] = @ \ {e}]
       /\ [r \in Subs |-> SentOn(r)]'
            = [[r \in Subs |-> SentOn(r)] EXCEPT ![s] = @ \cup {e}]
  BY <1>8, <1>9, <1>10
<1>12. WaitingEvents' = WaitingEvents
  BY <1>1 DEF WaitingEvents, Waiting, Undelivered
<1>13. QED
  BY <1>1, <1>8, <1>11, <1>12 DEF Promise!Send, WaitingEvents, AssignedTo, SentOn

(* A handler that leaves an event behind, or returns with all that it has  *)
(* left in its channel.                                                    *)
LEMMA HandlerLoses ==
  ASSUME RefinementInv, NEW s \in Subs,
         LoopReturns(s) \/ SkipEvent(s) \/ SendFails(s) \/ GetReady(s)
  PROVE  Promise!Lose
<1> USE DEF RefinementInv, DeliveryInv
<1>1. /\ UNCHANGED <<published, stream, lastId, log, sent>>
      /\ \A r \in Subs : r # s => taken'[r] = taken[r] /\ conn'[r] = conn[r]
      /\ taken'[s] \in {taken[s], taken[s] + 1}
      /\ Open(s)' => Open(s)
  BY DEF LoopReturns, SkipEvent, SendFails, GetReady, Return, Received, Open, redisVars, keyVars,
     readerVars, TypeOK, LoopTypes
<1>2. taken[s] \in Nat /\ taken'[s] \in Nat /\ taken[s] <= taken'[s] /\ Len(log[s]) \in Nat
  BY <1>1 DEF TypeOK, LoopTypes, ReaderTypes
<1>3. taken'[s] + 1 .. Len(log[s]) \subseteq taken[s] + 1 .. Len(log[s])
  BY <1>2
<1>4. \A r \in Subs : AssignedTo(r)' \subseteq AssignedTo(r)
  BY <1>1, <1>3 DEF AssignedTo, Open
<1>5. WaitingEvents' = WaitingEvents /\ \A r \in Subs : SentOn(r)' = SentOn(r)
  BY <1>1 DEF WaitingEvents, Waiting, Undelivered, SentOn
<1>6. QED
  BY <1>1, <1>4, <1>5, LosesOnly

(* Making a group for a stream does not make waiting what did not wait,    *)
(* and a subscription starts with nothing.                                 *)
LEMMA SubscribeLoses ==
  ASSUME RefinementInv, NEW s \in Subs,
         SubscribeFails(s) \/ \E made \in SUBSET TopicsOf[s] : Subscribe(s, made)
  PROVE  Promise!Lose
<1> USE DEF RefinementInv, DeliveryInv
<1>1. /\ UNCHANGED <<published, stream, log, taken, sent>>
      /\ \A r \in Subs : r # s => conn'[r] = conn[r]
      /\ conn[s] = "new"
  BY DEF SubscribeFails, Subscribe, keyVars, readerVars, TypeOK, LoopTypes
<1>2. \A t \in Topics : lastId'[t] = lastId[t]
  BY DEF SubscribeFails, Subscribe, CreateGroups, keyVars, LogInv, StreamsAreTopics
<1>3. WaitingEvents' = WaitingEvents /\ \A r \in Subs : SentOn(r)' = SentOn(r)
  BY <1>1, <1>2, WaitingShrinks DEF WaitingEvents, Waiting, Undelivered, SentOn, TypeOK, RedisTypes
<1>4. \A i : i \notin taken[s] + 1 .. Len(log[s])
  <2>1. log[s] = <<>> /\ taken[s] \in Nat
    BY <1>1 DEF NewIsEmpty, TypeOK, LoopTypes
  <2>2. QED
    BY <2>1
<1>5. \A r \in Subs : AssignedTo(r)' \subseteq AssignedTo(r)
  BY <1>1, <1>4 DEF AssignedTo, Open
<1>6. QED
  BY <1>1, <1>3, <1>5, LosesOnly

(* The steps that leave the logs, the handlers and the cursors alone.      *)
LEMMA OthersLose ==
  ASSUME RefinementInv,
         UNCHANGED <<published, log, taken, sent>>,
         \A r \in Subs : Open(r)' => Open(r),
         \A t \in Topics : Undelivered(t)' \subseteq Undelivered(t)
  PROVE  Promise!Lose
<1>1. \A r \in Subs : AssignedTo(r)' \subseteq AssignedTo(r) /\ SentOn(r)' = SentOn(r)
  BY DEF AssignedTo, SentOn
<1>2. WaitingEvents' \subseteq WaitingEvents
  BY WaitingShrinks DEF RefinementInv, DeliveryInv
<1>3. QED
  BY <1>1, <1>2, LosesOnly

--------------------------------------------------------------------------------
LEMMA StepKeepsPromise ==
  ASSUME RefinementInv, [Next]_vars
  PROVE  Promise!Next
<1> USE DEF RefinementInv, DeliveryInv
<1>1. ASSUME NEW t \in Topics, Publish(t) \/ PrunerFindsStale(t) \/ PrunerDeletes(t)
      PROVE  Promise!Next
  <2>1. CASE Publish(t)
    BY <2>1, PublishAccepts DEF Promise!Next
  <2>2. CASE PrunerFindsStale(t) \/ PrunerDeletes(t)
    <3>1. UNCHANGED <<published, log, taken, sent, conn>>
      BY <2>2 DEF PrunerFindsStale, PrunerDeletes, readerVars, loopVars
    <3>2. \A r \in Topics : Undelivered(r)' \subseteq Undelivered(r)
      BY <2>2 DEF PrunerFindsStale, PrunerDeletes, Undelivered, TypeOK, RedisTypes
    <3>3. QED
      BY <3>1, <3>2, OthersLose DEF Open, Promise!Next
  <2>3. QED
    BY <1>1, <2>1, <2>2
<1>2. ASSUME NEW s \in Subs, ReaderStep(s) PROVE Promise!Next
  <2>1. CASE Fetch(s)
    BY <2>1, FetchAssigns DEF Promise!Next
  <2>2. CASE FetchReplyLost(s)
    <3>1. CanRead(s) /\ Deliver(s, Readable(s)) /\ UNCHANGED <<published, log, taken, sent, conn>>
      BY <2>2 DEF FetchReplyLost, Deliver, readerVars, loopVars
    <3>2. \A t \in Topics : Undelivered(t)' \subseteq Undelivered(t)
      BY <3>1, DeliverMoves DEF LogInv
    <3>3. QED
      BY <3>1, <3>2, OthersLose DEF Open, Promise!Next
  <2>3. CASE ThrottleSignal(s) \/ ReaderCancelled(s) \/ Enqueue(s)
             \/ \E ok \in BOOLEAN : Ack(s, ok)
    <3>1. UNCHANGED <<published, stream, lastId, log, taken, sent, conn>>
      BY <2>3 DEF ThrottleSignal, ReaderCancelled, Enqueue, Ack, redisVars, keyVars, loopVars
    <3>2. QED
      BY <3>1, OthersLose DEF Open, Undelivered, Promise!Next
  <2>4. QED
    BY <1>2, <2>1, <2>2, <2>3 DEF ReaderStep
<1>3. ASSUME NEW s \in Subs, LoopStep(s) PROVE Promise!Next
  BY <1>3, SendEventSends, HandlerLoses DEF LoopStep, Promise!Next
<1>4. ASSUME NEW s \in Subs,
             SubscribeFails(s) \/ \E made \in SUBSET TopicsOf[s] : Subscribe(s, made)
      PROVE  Promise!Next
  BY <1>4, SubscribeLoses DEF Promise!Next
<1>5. ASSUME NEW s \in Subs,
             \/ RecvReady(s) \/ RecvError(s) \/ ClientReady(s)
             \/ Hangup(s) \/ RemoteCancel(s)
      PROVE  Promise!Next
  <2>1. UNCHANGED <<published, stream, lastId, log, taken, sent, conn>>
    BY <1>5 DEF RecvReady, RecvError, ClientReady, Hangup, RemoteCancel, redisVars, keyVars,
       readerVars, loopVars
  <2>2. QED
    BY <2>1, OthersLose DEF Open, Undelivered, Promise!Next
<1>6. ASSUME NEW r \in Relays, Crash(r) PROVE Promise!Next
  <2>1. UNCHANGED <<published, stream, lastId, log, taken, sent>>
    BY <1>6 DEF Crash, keyVars
  <2>2. \A s \in Subs : conn'[s] \in {conn[s], "returned"}
    BY <1>6 DEF Crash
  <2>3. QED
    BY <2>1, <2>2, OthersLose DEF Open, Undelivered, Promise!Next
<1>7. CASE UNCHANGED vars
  <2>1. UNCHANGED <<published, stream, lastId, log, taken, sent, conn>>
    BY <1>7 DEF vars, redisVars, keyVars, readerVars, loopVars
  <2>2. QED
    BY <2>1, OthersLose DEF Open, Undelivered, Promise!Next
<1>8. QED
  BY <1>1, <1>2, <1>3, <1>4, <1>5, <1>6, <1>7 DEF Next

(* The relay keeps the promise of WebhookDelivery, for every number of     *)
(* topics, streams, relays and events: an event is assigned to one         *)
(* connection at most, sent on it at most once, and never sent after it    *)
(* was lost.                                                               *)
THEOREM RelayKeepsPromise == Spec => KeepsPromise
<1>1. Init => Promise!Init
  BY DEF Init, Promise!Init, Open
<1>2. Init => NewIsEmpty
  BY DEF Init, NewIsEmpty
<1>3. Spec => []RefinementInv
  BY <1>2, NewIsEmptyStep, DeliveryInvariant, PTL DEF Spec, RefinementInv
<1>4. RefinementInv /\ [Next]_vars => [Promise!Next]_(Promise!vars)
  BY StepKeepsPromise
<1>5. QED
  BY <1>1, <1>3, <1>4, PTL DEF Spec, KeepsPromise, Promise!Spec

================================================================================
