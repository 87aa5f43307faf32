---------------------------- MODULE RealtimeChannel ----------------------------
(***************************************************************************)
(* One websocket client of the relay to Supabase Realtime, its channels,   *)
(* and the calls that use them: SubscribeToMachineID (kind "machine") of   *)
(* the broadcast listener, Listener.Start ("table"),                       *)
(* RelayPresenceListener.Start ("relays"), and AddMachineID, RemoveMachine *)
(* ID and Stop of the presence tracker ("add", "remove", "stop").          *)
(*                                                                         *)
(* A single goroutine reads the connection and hands each message to the   *)
(* channel of its topic.  Every phx_reply of a topic goes to one of the    *)
(* two Go channels of size one that Subscribe waits for, whatever push it  *)
(* answers, and the send blocks the reader when that one is full.          *)
(* Subscribe makes a new pair each time: a generation.                     *)
(*                                                                         *)
(* The server is external: it may accept a join, refuse it or not answer;  *)
(* it closes the channel that a second join of its topic replaces.  A push *)
(* takes effect when it is sent, and the way to the server and back is     *)
(* that of its answer.  A reply without a status is an error to the        *)
(* client.  Heartbeats, their replies and messages for topics without a    *)
(* channel change nothing.                                                 *)
(***************************************************************************)
EXTENDS Naturals, Sequences, FiniteSets

CONSTANTS
  Calls,
  Topics,
  Machines,
  None,
  Plans,        (* bound: the calls that one client gets, each with its     *)
                (* kind, the channel it uses and the machine it is for      *)
  MaxEvents     (* bound on what the server sends of its own accord         *)

Kinds == {"machine", "table", "relays", "add", "remove", "stop", "never"}

ASSUME RealtimeAssumption ==
  /\ IsFiniteSet(Calls) /\ None \notin Calls
  /\ Plans \subseteq [Calls -> [kind : Kinds, topic : Topics, machine : Machines]]
  /\ MaxEvents \in Nat

(* The presence tracker has a client of its own, and one channel on it for *)
(* all machines.                                                           *)
TrackerKinds == {"add", "remove", "stop"}

ASSUME TrackerAssumption ==
  \A p \in Plans : \A c, d \in Calls :
    p[c].kind \in TrackerKinds /\ p[d].kind # "never"
      => p[d].kind \in TrackerKinds /\ p[d].topic = p[c].topic

VARIABLES
  conn,       (* none, up, lost (nobody has noticed), closing or closed     *)
  reader,     (* readMessages: none, reading, handling, stuck, gone, or     *)
              (* crashed: it has used conn when that was nil                *)
  cur,        (* the message it handles                                     *)
  stuckIn,    (* the generation whose channel it waits for                  *)
  inbox       (* what the server has sent                                   *)

VARIABLES
  state,      (* of each channel                                            *)
  gen,        (* how often Subscribe has replaced subscribed, subscribeErr  *)
  buffer,     (* what is in them                                            *)
  handlers    (* the calls whose handlers are registered, by event          *)

VARIABLES
  plan,
  at,         (* where each call is                                         *)
  born,       (* the generation that its Subscribe has made                 *)
  waitsOn,    (* the generation that it selects on                          *)
  holder,     (* the call that holds the mutex of the presence tracker      *)
  shared,     (* whether its sharedChannel is set                           *)
  tracked     (* its machineChannels                                        *)

VARIABLES
  joined,     (* the topics that the server has accepted                    *)
  present,    (* the machine_ids of the presence of this client             *)
  events,
  unclaimed,  (* history: replies and errors for which no call waits        *)
  crossed,    (* history: topics where a Subscribe met another's reply      *)
  broken,     (* history: topics that the server has ended itself           *)
  told        (* history: the calls whose handler has been called           *)

netVars     == <<conn, inbox>>
readerVars  == <<reader, cur, stuckIn>>
channelVars == <<state, gen, buffer, handlers>>
callVars    == <<at, born, waitsOn>>
trackerVars == <<holder, shared, tracked>>
serverVars  == <<joined, present, events, broken>>
history     == <<unclaimed, crossed, told>>
vars == <<plan, netVars, readerVars, channelVars, callVars, trackerVars, serverVars, history>>

Kind(c) == plan[c].kind
TopicOf(c) == plan[c].topic
MachineOf(c) == plan[c].machine

Gens == 0..Cardinality(Calls)
NoMsg == [topic |-> None, event |-> "none", status |-> "none"]
Message(t, e) == [topic |-> t, event |-> e, status |-> "none"]
Reply(t, s) == [topic |-> t, event |-> "phx_reply", status |-> s]

Starts == {"table", "relays"}           (* Start: ends with Disconnect      *)
Subscribers == {"machine", "add"} \cup Starts

(* What a handler is registered for, and what the server calls the events  *)
(* that are meant for it: a broadcast has its own name in its payload.     *)
Registers == [machine |-> "disconnect", table |-> "postgres_changes", relays |-> "presence_diff"]
Sends     == [machine |-> "broadcast",  table |-> "postgres_changes", relays |-> "presence_diff"]

Init ==
  /\ conn = "none" /\ reader = "none" /\ cur = NoMsg /\ stuckIn = 0
  /\ inbox = <<>>
  /\ state = [t \in Topics |-> "joining"]
  /\ gen = [t \in Topics |-> 0]
  /\ buffer = [t \in Topics |-> [g \in Gens |-> {}]]
  /\ handlers = [t \in Topics |-> {}]
  /\ plan \in Plans
  /\ at = [c \in Calls |-> IF Kind(c) = "never" THEN "never" ELSE "new"]
  /\ born = [c \in Calls |-> 0]
  /\ waitsOn = [c \in Calls |-> 0]
  /\ holder = None /\ shared = FALSE /\ tracked = {}
  /\ joined = {} /\ present = {} /\ events = 0
  /\ unclaimed = [t \in Topics |-> 0]
  /\ crossed = {} /\ broken = {} /\ told = {}

Connected == conn \in {"up", "lost", "closing"}
Goes(c, to) == at' = [at EXCEPT ![c] = to]

--------------------------------------------------------------------------------
(* Connect, which each Start calls first, and what ends a connection.      *)
Connect(ok) ==
  /\ conn = "none"
  /\ conn' = IF ok THEN "up" ELSE "closed"
  /\ reader' = IF ok THEN "reading" ELSE "none"
  /\ UNCHANGED <<plan, inbox, cur, stuckIn, channelVars, callVars, trackerVars,
                 serverVars, history>>

(* The network, the server or the read timeout of 30 seconds: connected    *)
(* stays 1 and nothing connects again.                                     *)
ConnectionLost ==
  /\ conn = "up"
  /\ conn' = "lost" /\ inbox' = <<>>
  /\ UNCHANGED <<plan, readerVars, channelVars, callVars, trackerVars, serverVars, history>>

(* Disconnect: Close, in which the reader still finds the connection, and  *)
(* then conn = nil.                                                        *)
Disconnect(c) ==
  /\ at[c] = "closing" /\ Connected
  /\ \/ /\ conn # "closing"
        /\ conn' = "closing" /\ inbox' = <<>>
        /\ UNCHANGED at
     \/ /\ conn = "closing"
        /\ conn' = "closed"
        /\ Goes(c, IF Kind(c) = "stop" THEN "ok" ELSE "failed")
        /\ UNCHANGED inbox
  /\ UNCHANGED <<plan, readerVars, channelVars, born, waitsOn, trackerVars, serverVars, history>>

(* sendMessage: an error without a connection.  On one that is lost it may *)
(* still report success.  The server has it, and answers, only on one that *)
(* is up.                                                                  *)
Sent(ok) == IF ok THEN conn \in {"up", "lost"} ELSE conn # "up"

Arrives(ms) == inbox' = inbox \o ms

--------------------------------------------------------------------------------
(* readMessages and handleMessage.                                         *)
ReadFails ==
  /\ reader = "reading" /\ conn # "up"
  /\ reader' = "gone"
  /\ UNCHANGED <<plan, netVars, cur, stuckIn, channelVars, callVars, trackerVars,
                 serverVars, history>>

Read ==
  /\ reader = "reading" /\ conn = "up" /\ inbox # <<>>
  /\ reader' = "handling" /\ cur' = Head(inbox) /\ inbox' = Tail(inbox)
  /\ UNCHANGED <<plan, conn, stuckIn, channelVars, callVars, trackerVars,
                 serverVars, history>>

\* Mutant: the next read does not wait for the message to be handled.
BackToTopHolding ==
  /\ reader' = IF conn = "closed" THEN "crashed" ELSE "reading"
  /\ UNCHANGED cur /\ stuckIn' = 0

(* The loop reads conn again, without the client's mutex.                  *)
BackToTop ==
  /\ reader' = IF conn = "closed" THEN "crashed" ELSE "reading"
  /\ cur' = NoMsg /\ stuckIn' = 0

(* handleReply: "ok" to subscribed, all else to subscribeErr.              *)
HandleReply ==
  LET t == cur.topic
      g == gen[t]
  IN /\ reader = "handling" /\ cur.event = "phx_reply"
     /\ state' = IF cur.status = "ok" THEN [state EXCEPT ![t] = "subscribed"] ELSE state
     /\ IF cur.status \in buffer[t][g]
        THEN reader' = "stuck" /\ stuckIn' = g /\ UNCHANGED <<cur, buffer>>
        ELSE BackToTop /\ buffer' = [buffer EXCEPT ![t][g] = @ \cup {cur.status}]
     /\ UNCHANGED <<plan, netVars, gen, handlers, callVars, trackerVars, serverVars, history>>

ReplyGoesIn ==
  /\ reader = "stuck" /\ cur.status \notin buffer[cur.topic][stuckIn]
  /\ BackToTop
  /\ buffer' = [buffer EXCEPT ![cur.topic][stuckIn] = @ \cup {cur.status}]
  /\ UNCHANGED <<plan, netVars, state, gen, handlers, callVars, trackerVars, serverVars, history>>

\* Mutant: the end of a channel is sent to subscribeErr too.
HandleCloseTells ==
  LET t == cur.topic
      g == gen[t]
  IN /\ reader = "handling" /\ cur.event = "phx_close"
     /\ state' = [state EXCEPT ![t] = "closed"]
     /\ BackToTop
     /\ buffer' = [buffer EXCEPT ![t][g] = @ \cup {"error"}]
     /\ UNCHANGED <<plan, netVars, gen, handlers, callVars, trackerVars, serverVars, history>>

HandleClose ==
  /\ reader = "handling" /\ cur.event = "phx_close"
  /\ BackToTop
  /\ state' = [state EXCEPT ![cur.topic] = "closed"]
  /\ UNCHANGED <<plan, netVars, gen, buffer, handlers, callVars, trackerVars, serverVars, history>>

(* handleError does not wait for room in subscribeErr.                     *)
HandleError ==
  LET t == cur.topic
      g == gen[t]
  IN /\ reader = "handling" /\ cur.event = "phx_error"
     /\ BackToTop
     /\ state' = [state EXCEPT ![t] = "errored"]
     /\ buffer' = [buffer EXCEPT ![t][g] = @ \cup {"error"}]
     /\ unclaimed' = IF "error" \in buffer[t][g] THEN unclaimed
                     ELSE [unclaimed EXCEPT ![t] = @ + 1]
     /\ UNCHANGED <<plan, netVars, gen, handlers, callVars, trackerVars, serverVars, crossed, told>>

(* handleBroadcast, handlePostgresChange, handlePresenceDiff: the handlers *)
(* registered for the event's name.  What DisconnectClientByMachineID then *)
(* does is the subject of MachineRegistry.                                 *)
Matching(m) == {c \in handlers[m.topic] : Registers[Kind(c)] = m.event}

HandleEvent ==
  /\ reader = "handling" /\ cur.event \in {Sends[k] : k \in DOMAIN Sends}
  /\ BackToTop
  /\ told' = told \cup Matching(cur)
  /\ UNCHANGED <<plan, netVars, channelVars, callVars, trackerVars, serverVars, unclaimed, crossed>>

ReaderStep ==
  \/ ReadFails \/ Read \/ ReplyGoesIn
  \/ HandleReply \/ HandleClose \/ HandleError \/ HandleEvent

--------------------------------------------------------------------------------
(* Channel.Subscribe.  A stream's context may end at any time, that of the *)
(* tracker with Stop; the others have no end.                              *)
Waiting(t) == {c \in Calls : TopicOf(c) = t /\ at[c] \in {"send", "look", "wait", "register"}}

\* Mutant: the handlers of an earlier Subscribe are kept.
ResetKeepsHandlers(c) ==
  LET t == TopicOf(c)
  IN /\ gen' = [gen EXCEPT ![t] = @ + 1]
     /\ born' = [born EXCEPT ![c] = gen[t] + 1]
     /\ crossed' = IF Waiting(t) = {} /\ unclaimed[t] = 0 THEN crossed ELSE crossed \cup {t}
     /\ Goes(c, "send")
     /\ UNCHANGED <<state, buffer, handlers, waitsOn, unclaimed, told>>

Reset(c) ==
  LET t == TopicOf(c)
  IN /\ gen' = [gen EXCEPT ![t] = @ + 1]
     /\ born' = [born EXCEPT ![c] = gen[t] + 1]
     /\ handlers' = [handlers EXCEPT ![t] = {}]
     /\ crossed' = IF Waiting(t) = {} /\ unclaimed[t] = 0 THEN crossed ELSE crossed \cup {t}
     /\ Goes(c, "send")
     /\ UNCHANGED <<state, buffer, waitsOn, unclaimed, told>>

Begin(c) ==
  /\ at[c] = "new" /\ Kind(c) \in {"machine"} \cup Starts
  /\ \/ /\ Kind(c) = "machine" \/ Connected
        /\ Reset(c)
     \/ /\ Kind(c) \in Starts /\ conn = "closed"
        /\ Goes(c, "failed")
        /\ UNCHANGED <<channelVars, born, waitsOn, history>>
  /\ UNCHANGED <<plan, netVars, readerVars, trackerVars, serverVars>>

(* What follows a Subscribe that has failed: Start disconnects, the others *)
(* return with a warning; the tracker keeps sharedChannel.                 *)
Fails(c) ==
  /\ Goes(c, IF Kind(c) \in Starts THEN "closing" ELSE "failed")
  /\ holder' = IF holder = c THEN None ELSE holder
  /\ UNCHANGED <<shared, tracked>>

(* phx_join, and the server's answer s to it.                              *)
SendJoin(c, ok, s) ==
  LET t == TopicOf(c)
      old == IF t \in joined THEN <<Message(t, "phx_close")>> ELSE <<>>
  IN /\ at[c] = "send" /\ Sent(ok)
     /\ IF ok THEN Goes(c, "look") /\ UNCHANGED trackerVars ELSE Fails(c)
     /\ IF ok /\ conn = "up"
        THEN /\ Arrives(old \o IF s = "none" THEN <<>> ELSE <<Reply(t, s)>>)
             /\ joined' = IF s = "ok" THEN joined \cup {t} ELSE joined \ {t}
             /\ present' = IF t \in joined THEN {} ELSE present
        ELSE s = "none" /\ UNCHANGED <<inbox, joined, present>>
     /\ UNCHANGED <<plan, conn, readerVars, channelVars, born, waitsOn, events, broken, history>>

(* The select takes the two channels that are there when it is reached.    *)
Look(c) ==
  /\ at[c] = "look"
  /\ Goes(c, "wait")
  /\ waitsOn' = [waitsOn EXCEPT ![c] = gen[TopicOf(c)]]
  /\ UNCHANGED <<plan, netVars, readerVars, channelVars, born, trackerVars, serverVars, history>>

Take(c, s) ==
  /\ at[c] = "wait" /\ s \in buffer[TopicOf(c)][waitsOn[c]]
  /\ buffer' = [buffer EXCEPT ![TopicOf(c)][waitsOn[c]] = @ \ {s}]
  /\ UNCHANGED <<plan, netVars, readerVars, state, gen, handlers, born, waitsOn,
                 serverVars, history>>

Confirmed(c) ==
  /\ Take(c, "ok")
  /\ Goes(c, IF Kind(c) = "add" THEN "track" ELSE "register")
  /\ UNCHANGED trackerVars

Refused(c) == Take(c, "error") /\ Fails(c)

Cancellable(c) ==
  \/ Kind(c) = "machine"
  \/ Kind(c) = "add" /\ \E s \in Calls : Kind(s) = "stop" /\ at[s] \in {"closing", "ok"}

\* Mutant: Subscribe waits for as long as its context lasts.
TimesOutNever(c) ==
  /\ at[c] = "wait" /\ Cancellable(c)
  /\ Fails(c)
  /\ unclaimed' = [unclaimed EXCEPT ![TopicOf(c)] = @ + 1]
  /\ UNCHANGED <<plan, netVars, readerVars, channelVars, born, waitsOn, serverVars, crossed, told>>

TimesOut(c) ==      (* after five seconds, or with the context             *)
  /\ at[c] = "wait"
  /\ Fails(c)
  /\ unclaimed' = [unclaimed EXCEPT ![TopicOf(c)] = @ + 1]
  /\ UNCHANGED <<plan, netVars, readerVars, channelVars, born, waitsOn, serverVars, crossed, told>>

(* The callers register their handler after Subscribe has returned.        *)
Register(c) ==
  /\ at[c] = "register"
  /\ handlers' = [handlers EXCEPT ![TopicOf(c)] = @ \cup {c}]
  /\ Goes(c, "ok")
  /\ UNCHANGED <<plan, netVars, readerVars, state, gen, buffer, born, waitsOn, trackerVars,
                 serverVars, history>>

CancelledFirst(c) ==
  /\ at[c] \in {"register", "track"} /\ Cancellable(c)
  /\ Fails(c)
  /\ UNCHANGED <<plan, netVars, readerVars, channelVars, born, waitsOn, serverVars, history>>

--------------------------------------------------------------------------------
(* The presence tracker: AddMachineID holds its mutex until it returns.    *)
AddMachineID(c) ==
  LET t == TopicOf(c)
      m == MachineOf(c)
  IN /\ at[c] = "new" /\ Kind(c) = "add" /\ holder = None
     /\ \/ /\ m \notin tracked /\ ~shared /\ Connected
           /\ holder' = c /\ shared' = TRUE
           /\ Reset(c)
        \/ /\ m \notin tracked /\ shared /\ state[t] = "subscribed"
           /\ holder' = c
           /\ Goes(c, "track")
           /\ UNCHANGED <<shared, channelVars, born, waitsOn, history>>
        \/ /\ \/ m \in tracked
              \/ ~shared /\ ~Connected
              \/ shared /\ state[t] # "subscribed"
           /\ Goes(c, "failed")
           /\ UNCHANGED <<holder, shared, channelVars, born, waitsOn, history>>
     /\ UNCHANGED <<plan, netVars, readerVars, tracked, serverVars>>

(* Track and Untrack: pushes whose replies nobody waits for.               *)
Pushes(t, ms, ok, n) ==
  /\ Sent(ok)
  /\ IF ok /\ conn = "up"
     THEN /\ present' = IF t \in joined THEN ms ELSE present
          /\ Arrives([i \in 1..n |-> Reply(t, IF t \in joined THEN "ok" ELSE "error")])
          /\ unclaimed' = [unclaimed EXCEPT ![t] = @ + n]
     ELSE UNCHANGED <<present, inbox, unclaimed>>
  /\ UNCHANGED <<plan, conn, readerVars, channelVars, born, waitsOn, joined, events, broken,
                 crossed, told>>

PushesNothing ==
  UNCHANGED <<plan, netVars, readerVars, channelVars, born, waitsOn, serverVars, history>>

Track(c, ok) ==
  LET m == MachineOf(c)
  IN /\ at[c] = "track"
     /\ Pushes(TopicOf(c), tracked \cup {m}, ok, 1)
     /\ tracked' = IF ok THEN tracked \cup {m} ELSE tracked
     /\ holder' = None
     /\ Goes(c, IF ok THEN "ok" ELSE "failed")
     /\ UNCHANGED shared

\* Mutant: the machine is taken out of the map after the update.
RemoveAfterUpdate(c, ok) ==
  LET t == TopicOf(c)
  IN /\ at[c] = "new" /\ Kind(c) = "remove" /\ holder = None
     /\ IF MachineOf(c) \in tracked /\ state[t] = "subscribed"
        THEN Pushes(t, tracked, ok, 1)
        ELSE ok /\ PushesNothing
     /\ tracked' = tracked \ {MachineOf(c)}
     /\ Goes(c, "ok")
     /\ UNCHANGED <<holder, shared>>

RemoveMachineID(c, ok) ==
  LET t == TopicOf(c)
      rest == tracked \ {MachineOf(c)}
  IN /\ at[c] = "new" /\ Kind(c) = "remove" /\ holder = None
     /\ IF MachineOf(c) \in tracked /\ state[t] = "subscribed"
        THEN Pushes(t, rest, ok, 1)
        ELSE ok /\ PushesNothing
     /\ tracked' = rest
     /\ Goes(c, "ok")
     /\ UNCHANGED <<holder, shared>>

(* Stop untracks once for each machine, whatever the channel's state.      *)
Stop(c, ok) ==
  /\ at[c] = "new" /\ Kind(c) = "stop" /\ holder = None
  /\ IF tracked # {} THEN Pushes(TopicOf(c), {}, ok, Cardinality(tracked)) ELSE ok /\ PushesNothing
  /\ tracked' = {}
  /\ Goes(c, IF Connected THEN "closing" ELSE "ok")
  /\ UNCHANGED <<holder, shared>>

--------------------------------------------------------------------------------
(* What the server sends of its own accord, external: an event, or the end *)
(* of a channel.                                                           *)
ServerSends(c, e) ==
  LET t == TopicOf(c)
  IN /\ at[c] # "never" /\ t \in joined /\ conn = "up" /\ events < MaxEvents
     /\ events' = events + 1
     /\ \/ Kind(c) \in DOMAIN Sends /\ e = Sends[Kind(c)] /\ UNCHANGED <<joined, present, broken>>
        \/ /\ e \in {"phx_error", "phx_close"}
           /\ joined' = joined \ {t} /\ present' = {}
           /\ broken' = broken \cup {t}
     /\ Arrives(<<Message(t, e)>>)
     /\ UNCHANGED <<plan, conn, readerVars, channelVars, callVars, trackerVars, history>>

Answers == {"ok", "error", "none"}

CallStep(c) ==
  \/ Begin(c) \/ Look(c) \/ Confirmed(c) \/ Refused(c) \/ TimesOut(c)
  \/ Register(c) \/ AddMachineID(c) \/ Disconnect(c)
  \/ \E ok \in BOOLEAN, s \in Answers : SendJoin(c, ok, s)
  \/ \E ok \in BOOLEAN : Track(c, ok) \/ RemoveMachineID(c, ok) \/ Stop(c, ok)

Events == {Sends[k] : k \in DOMAIN Sends} \cup {"phx_error", "phx_close"}

Next ==
  \/ \E ok \in BOOLEAN : Connect(ok)
  \/ ConnectionLost
  \/ ReaderStep
  \/ \E c \in Calls : CallStep(c) \/ CancelledFirst(c) \/ \E e \in Events : ServerSends(c, e)

(* Goroutines run, the dial and the timeouts end.  The server promises     *)
(* nothing.                                                                *)
Fairness ==
  /\ WF_vars(\E ok \in BOOLEAN : Connect(ok))
  /\ WF_vars(ReaderStep)
  /\ \A c \in Calls : WF_vars(CallStep(c))

Spec == Init /\ [][Next]_vars /\ Fairness

--------------------------------------------------------------------------------
(* Every variable has its type, and the reader holds a message while it    *)
(* handles one or waits to hand over a reply, at no other time.            *)
Messages ==
  {Message(t, e) : t \in Topics, e \in Events} \cup {Reply(t, s) : t \in Topics, s \in {"ok", "error"}}
Places == {"never", "new", "send", "look", "wait", "register", "track", "closing", "ok", "failed"}

TypeOK ==
  /\ conn \in {"none", "up", "lost", "closing", "closed"}
  /\ reader \in {"none", "reading", "handling", "stuck", "gone", "crashed"}
  /\ IF reader \in {"handling", "stuck"} THEN cur \in Messages ELSE cur = NoMsg
  /\ stuckIn \in Gens
  /\ inbox \in Seq(Messages)
  /\ state \in [Topics -> {"joining", "subscribed", "closed", "errored"}]
  /\ gen \in [Topics -> Gens]
  /\ buffer \in [Topics -> [Gens -> SUBSET {"ok", "error"}]]
  /\ handlers \in [Topics -> SUBSET Calls]
  /\ at \in [Calls -> Places]
  /\ born \in [Calls -> Gens] /\ waitsOn \in [Calls -> Gens]
  /\ holder \in Calls \cup {None} /\ shared \in BOOLEAN
  /\ tracked \subseteq Machines /\ present \subseteq Machines
  /\ joined \subseteq Topics /\ crossed \subseteq Topics /\ broken \subseteq Topics
  /\ unclaimed \in [Topics -> Nat] /\ events \in 0..MaxEvents /\ told \subseteq Calls

(* The reader is stuck for good when the Go channel is full and no call    *)
(* will receive from it.                                                   *)
StuckForGood ==
  /\ reader = "stuck" /\ cur.status \in buffer[cur.topic][stuckIn]
  /\ \A c \in Calls : TopicOf(c) = cur.topic =>
       /\ ~(at[c] = "wait" /\ waitsOn[c] = stuckIn)
       /\ ~(at[c] \in {"send", "look"} /\ gen[cur.topic] = stuckIn)

Orphans(t) == {c \in Calls : TopicOf(c) = t /\ at[c] \in {"look", "wait"}}

(* One answer too many for a channel is absorbed: the reader of all the    *)
(* channels stops for ever only where a topic has had two answers that no  *)
(* call was left to receive, to a Track or Untrack, to a Subscribe that    *)
(* had given up, or to one whose Go channels another has replaced.         *)
StuckNeedsSurplus ==
  StuckForGood => unclaimed[cur.topic] + Cardinality(Orphans(cur.topic)) >= 2

(* A call that has subscribed is listened to: where it is the last on its  *)
(* channel and has met no other's reply, the server has accepted the join  *)
(* and the handler of this call, of no other, is registered.               *)
ConfirmedIsHeard ==
  \A c \in Calls :
    LET t == TopicOf(c)
    IN /\ at[c] = "ok" /\ Kind(c) \in DOMAIN Registers /\ gen[t] = born[c]
       /\ t \notin crossed \cup broken /\ conn = "up"
       => t \in joined /\ handlers[t] = {c}

(* Whenever the tracker's mutex is free, the presence that the server      *)
(* shows for this relay names the machines in machineChannels, each of     *)
(* them.                                                                   *)
PresenceAgrees ==
  \A c \in Calls :
    Kind(c) = "add" /\ holder = None /\ conn = "up" /\ TopicOf(c) \in joined
      => present = tracked

(* Every call of Subscribe comes back: neither a server that does not      *)
(* answer, nor a reader that is stuck or gone, nor the mutex of the        *)
(* tracker keeps its caller.                                               *)
CallsReturn == \A c \in Calls : at[c] = "send" ~> at[c] \in {"ok", "failed"}
================================================================================
