-------------------------- MODULE SubscriptionTracking --------------------------
(***************************************************************************)
(* How the ingest service knows whether anybody listens to a topic.  Every *)
(* relay instance keeps itself in the Redis set relay:topics:<topic> of    *)
(* each topic it has a subscription for, and the topics in a set of its    *)
(* own; ingest drops a webhook, with status 200, when the topic's set is   *)
(* empty.  Both sets expire two hours after the last subscription.         *)
(*                                                                         *)
(* A member of Subs is one Subscribe stream, to a topic, to all topics of  *)
(* an application or, in Anonymous, to an anonymous channel.  A pipeline   *)
(* of Redis commands is one step: these are short, go out in one write and *)
(* are executed one after the other.  The keys anon:connected:<topic>,     *)
(* which nothing ever reads, are left out.                                 *)
(***************************************************************************)
EXTENDS Naturals, FiniteSets

CONSTANTS
  Topics,
  Instances,    (* the relay instances                                      *)
  Subs,         (* the Subscribe streams                                    *)
  TopicsOf,     (* the topics of each stream                                *)
  InstanceOf,   (* the instance that serves it                              *)
  Anonymous,    (* the streams of handleAnonymousSubscribe                  *)
  MaxFaults     (* bound: Redis calls that fail, crashes, keys that expire  *)

ASSUME TrackingAssumption ==
  /\ TopicsOf \in [Subs -> SUBSET Topics]
  /\ InstanceOf \in [Subs -> Instances]
  /\ Anonymous \subseteq Subs
  /\ \A s \in Anonymous : Cardinality(TopicsOf[s]) = 1
  /\ MaxFaults \in Nat

VARIABLES
  instances,  (* relay:topics:<topic>, the instances listed for each topic  *)
  topics,     (* relay:instances:<instance>:topics                          *)
  handler,    (* where the handler of each stream is                        *)
  todo,       (* the topics its loop over TopicsOf has still to do          *)
  live,       (* whether the handler's context is not cancelled             *)
  server,     (* serving, cleaning, or down: it accepts no more streams     *)
  members,    (* what SMEMBERS has returned to a cleaning instance          *)
  late,       (* history: streams that tracked when the cleanup had begun   *)
  faults,
  expired     (* history: whether one of the keys has expired               *)

redisVars  == <<instances, topics>>
subVars    == <<handler, todo, live, late>>
serverVars == <<server, members>>
vars == <<redisVars, subVars, serverVars, faults, expired>>

Single(s) == Cardinality(TopicsOf[s]) = 1
Ended(s) == handler[s] = "untracking" /\ todo[s] = {}

Init ==
  /\ instances = [t \in Topics |-> {}]
  /\ topics = [i \in Instances |-> {}]
  /\ handler = [s \in Subs |-> "new"]
  /\ todo = [s \in Subs |-> {}]
  /\ live = [s \in Subs |-> TRUE]
  /\ server = [i \in Instances |-> "serving"]
  /\ members = [i \in Instances |-> {}]
  /\ late = {}
  /\ faults = 0
  /\ expired = FALSE

Fault == faults < MaxFaults /\ faults' = faults + 1

(* A call under the context of s: it fails if that is cancelled, and it    *)
(* may fail otherwise.  No caller acts on the error, so a call of which    *)
(* only the reply is lost is one that succeeds.                            *)
Call(s, ok) ==
  /\ ok => live[s]
  /\ IF ok \/ ~live[s] THEN UNCHANGED faults ELSE Fault

--------------------------------------------------------------------------------
(* HandleTopicWebhook and HandleAnonWebhook: a webhook is dropped when the *)
(* set of its topic is empty.  If the set cannot be read, it is published. *)
Drops(t) == instances[t] = {}

--------------------------------------------------------------------------------
(* The handlers.  A stream is accepted until GracefulStop.                 *)
Accept(s) ==
  /\ handler[s] = "new"
  /\ server[InstanceOf[s]] \in {"serving", "cleaning"}
  /\ handler' = [handler EXCEPT ![s] = "tracking"]
  /\ todo' = [todo EXCEPT ![s] = TopicsOf[s]]
  /\ UNCHANGED <<redisVars, live, late, serverVars, faults, expired>>

(* TrackTopicSubscription for one topic; a failure is only logged.         *)
\* Mutant: the topic's set gets the topic in place of the instance.
TrackSwapped(s, t, ok) ==
  /\ handler[s] = "tracking"
  /\ t \in todo[s]
  /\ Call(s, ok)
  /\ instances' = IF ok THEN [instances EXCEPT ![t] = @ \cup {t}] ELSE instances
  /\ topics' = IF ok THEN [topics EXCEPT ![InstanceOf[s]] = @ \cup {t}] ELSE topics
  /\ late' = IF server[InstanceOf[s]] = "serving" THEN late ELSE late \cup {s}
  /\ todo' = [todo EXCEPT ![s] = @ \ {t}]
  /\ UNCHANGED <<handler, live, serverVars, expired>>

Track(s, t, ok) ==
  /\ handler[s] = "tracking"
  /\ t \in todo[s]
  /\ Call(s, ok)
  /\ IF ok
     THEN /\ instances' = [instances EXCEPT ![t] = @ \cup {InstanceOf[s]}]
          /\ topics' = [topics EXCEPT ![InstanceOf[s]] = @ \cup {t}]
     ELSE UNCHANGED redisVars
  /\ late' = IF server[InstanceOf[s]] = "serving" THEN late ELSE late \cup {s}
  /\ todo' = [todo EXCEPT ![s] = @ \ {t}]
  /\ UNCHANGED <<handler, live, serverVars, expired>>

(* The reader is started once every topic has been tracked.                *)
\* Mutant: the reader is started before the topics are tracked.
OpenEarly(s) ==
  /\ handler[s] = "tracking"
  /\ handler' = [handler EXCEPT ![s] = "open"]
  /\ UNCHANGED <<redisVars, todo, live, late, serverVars, faults, expired>>

OpenReader(s) ==
  /\ handler[s] = "tracking" /\ todo[s] = {}
  /\ Single(s) => live[s]
  /\ handler' = [handler EXCEPT ![s] = "open"]
  /\ UNCHANGED <<redisVars, todo, live, late, serverVars, faults, expired>>

(* XGROUP CREATE fails: only a subscription to a single topic ends.        *)
OpenFails(s) ==
  /\ handler[s] = "tracking" /\ todo[s] = {}
  /\ Single(s)
  /\ IF live[s] THEN Fault ELSE UNCHANGED faults
  /\ handler' = [handler EXCEPT ![s] = "untracking"]
  /\ todo' = [todo EXCEPT ![s] = TopicsOf[s]]
  /\ UNCHANGED <<redisVars, live, late, serverVars, expired>>

(* The client hangs up, or DisconnectClientByMachineID cancels.            *)
Cancel(s) ==
  /\ handler[s] \in {"tracking", "open"}
  /\ live[s]
  /\ live' = [live EXCEPT ![s] = FALSE]
  /\ UNCHANGED <<redisVars, handler, todo, late, serverVars, faults, expired>>

(* The handler returns, because its context is cancelled or Recv or Send   *)
(* has failed.  In Subscribe the cleanup runs before the deferred cancel;  *)
(* in handleAnonymousSubscribe it was deferred first and runs after it.    *)
CloseStream(s) ==
  /\ handler[s] = "open"
  /\ handler' = [handler EXCEPT ![s] = "untracking"]
  /\ todo' = [todo EXCEPT ![s] = TopicsOf[s]]
  /\ live' = [live EXCEPT ![s] = @ /\ s \notin Anonymous]
  /\ UNCHANGED <<redisVars, late, serverVars, faults, expired>>

(* UntrackTopicSubscription for one topic.                                 *)
\* Mutant: the topic stays in the instance's own set.
UntrackHalf(s, t, ok) ==
  /\ handler[s] = "untracking"
  /\ t \in todo[s]
  /\ Call(s, ok)
  /\ instances' = IF ok THEN [instances EXCEPT ![t] = @ \ {InstanceOf[s]}] ELSE instances
  /\ todo' = [todo EXCEPT ![s] = @ \ {t}]
  /\ live' = [live EXCEPT ![s] = @ /\ todo[s] # {t}]
  /\ UNCHANGED <<topics, handler, late, serverVars, expired>>

Untrack(s, t, ok) ==
  /\ handler[s] = "untracking"
  /\ t \in todo[s]
  /\ Call(s, ok)
  /\ IF ok
     THEN /\ instances' = [instances EXCEPT ![t] = @ \ {InstanceOf[s]}]
          /\ topics' = [topics EXCEPT ![InstanceOf[s]] = @ \ {t}]
     ELSE UNCHANGED redisVars
  /\ todo' = [todo EXCEPT ![s] = @ \ {t}]
  /\ live' = [live EXCEPT ![s] = @ /\ todo[s] # {t}]
  /\ UNCHANGED <<handler, late, serverVars, expired>>

--------------------------------------------------------------------------------
(* The shutdown of an instance, its end without one, and time.             *)

(* CleanupInstanceTopics: SMEMBERS, a pipeline of SREMs and DEL.  If a     *)
(* call fails the shutdown goes on.                                        *)
CleanupReads(i) ==
  /\ server[i] = "serving"
  /\ members' = [members EXCEPT ![i] = topics[i]]
  /\ server' = [server EXCEPT ![i] = "cleaning"]
  /\ UNCHANGED <<redisVars, subVars, faults, expired>>

\* Mutant: only the instance's own set is removed.
CleanupKeepsTopics(i) ==
  /\ server[i] = "cleaning"
  /\ topics' = [topics EXCEPT ![i] = {}]
  /\ server' = [server EXCEPT ![i] = "down"]
  /\ members' = [members EXCEPT ![i] = {}]
  /\ UNCHANGED <<instances, subVars, faults, expired>>

CleanupDeletes(i) ==
  /\ server[i] = "cleaning"
  /\ instances' = [t \in Topics |-> IF t \in members[i] THEN instances[t] \ {i} ELSE instances[t]]
  /\ topics' = [topics EXCEPT ![i] = {}]
  /\ server' = [server EXCEPT ![i] = "down"]
  /\ members' = [members EXCEPT ![i] = {}]
  /\ UNCHANGED <<subVars, faults, expired>>

CleanupFails(i) ==
  /\ server[i] \in {"serving", "cleaning"}
  /\ Fault
  /\ server' = [server EXCEPT ![i] = "down"]
  /\ members' = [members EXCEPT ![i] = {}]
  /\ UNCHANGED <<redisVars, subVars, expired>>

Crash(i) ==
  LET mine == {s \in Subs : InstanceOf[s] = i /\ handler[s] # "new"}
  IN  /\ server[i] # "down" \/ \E s \in mine : ~Ended(s)
      /\ Fault
      /\ server' = [server EXCEPT ![i] = "down"]
      /\ members' = [members EXCEPT ![i] = {}]
      /\ handler' = [s \in Subs |-> IF s \in mine THEN "untracking" ELSE handler[s]]
      /\ todo' = [s \in Subs |-> IF s \in mine THEN {} ELSE todo[s]]
      /\ live' = [s \in Subs |-> live[s] /\ s \notin mine]
      /\ UNCHANGED <<redisVars, late, expired>>

(* Two hours have passed since a topic, or an instance, was last tracked.  *)
Expire == Fault /\ expired' = TRUE

TopicExpires(t) ==
  /\ instances[t] # {}
  /\ Expire
  /\ instances' = [instances EXCEPT ![t] = {}]
  /\ UNCHANGED <<topics, subVars, serverVars>>

InstanceExpires(i) ==
  /\ topics[i] # {}
  /\ Expire
  /\ topics' = [topics EXCEPT ![i] = {}]
  /\ UNCHANGED <<instances, subVars, serverVars>>

--------------------------------------------------------------------------------
Next ==
  \/ \E t \in Topics : TopicExpires(t)
  \/ \E s \in Subs :
       \/ Accept(s) \/ OpenReader(s) \/ OpenFails(s)
       \/ Cancel(s) \/ CloseStream(s)
       \/ \E t \in TopicsOf[s], ok \in BOOLEAN : Track(s, t, ok) \/ Untrack(s, t, ok)
  \/ \E i \in Instances :
       \/ CleanupReads(i) \/ CleanupDeletes(i) \/ CleanupFails(i)
       \/ Crash(i) \/ InstanceExpires(i)

Spec == Init /\ [][Next]_vars

--------------------------------------------------------------------------------
TypeOK ==
  /\ instances \in [Topics -> SUBSET Instances]
  /\ topics \in [Instances -> SUBSET Topics]
  /\ handler \in [Subs -> {"new", "tracking", "open", "untracking"}]
  /\ todo \in [Subs -> SUBSET Topics]
  /\ live \in [Subs -> BOOLEAN]
  /\ server \in [Instances -> {"serving", "cleaning", "down"}]
  /\ members \in [Instances -> SUBSET Topics]
  /\ late \in SUBSET Subs
  /\ faults \in 0 .. MaxFaults
  /\ expired \in BOOLEAN

(* While an instance serves, its own set and the sets of the topics agree, *)
(* however subscriptions come and go and calls fail, until one of the keys *)
(* expires.  The shutdown relies on it: it looks at its own set only.      *)
SetsAgree ==
  ~expired =>
    \A i \in Instances, t \in Topics :
      server[i] = "serving" => (i \in instances[t] <=> t \in topics[i])

(* After its cleanup an instance is listed only where a stream that was    *)
(* accepted too late has listed it again, unless a key had expired or a    *)
(* call failed ("removes all topic tracking for this instance").           *)
CleanupIsComplete ==
  \A i \in Instances, t \in Topics :
    (server[i] = "down" /\ i \in instances[t] /\ faults = 0)
      => \E s \in late : InstanceOf[s] = i /\ t \in TopicsOf[s]

(* The streams of one instance that share a topic with s.                  *)
Siblings(s) ==
  {r \in Subs \ {s} : InstanceOf[r] = InstanceOf[s] /\ TopicsOf[r] \cap TopicsOf[s] # {}}

(* A stream that gets events: its reader runs, its context is live and its *)
(* instance is not shutting down.                                          *)
Listening(s) == handler[s] = "open" /\ live[s] /\ server[InstanceOf[s]] = "serving"

(* No webhook is dropped while a stream listens to its topic - as long as  *)
(* no stream of the same instance with the topic has been closed, no call  *)
(* has failed and no key has expired.                                      *)
AloneIsNotDropped ==
  \A s \in Subs : \A t \in TopicsOf[s] :
    ( /\ Listening(s) /\ faults = 0
      /\ \A r \in Siblings(s) : handler[r] # "untracking" )
    => ~Drops(t)

(* "checks if any relay instances have clients connected to a topic": no   *)
(* webhook is dropped while a stream listens to its topic, if no call has  *)
(* failed and no key has expired.                                          *)
ListenerIsNotDropped ==
  \A s \in Subs : \A t \in TopicsOf[s] :
    Listening(s) /\ faults = 0 => ~Drops(t)
================================================================================
