------------------------- MODULE RealtimeChannel_proofs -------------------------
(***************************************************************************)
(* Proofs about RealtimeChannel, for any number of calls, topics and       *)
(* machines and any plan of calls that the relay can make on one client.   *)
(***************************************************************************)
EXTENDS RealtimeChannel, FiniteSetTheorems, SequenceTheorems, TLAPS

--------------------------------------------------------------------------------
(* Where a call is says what it has done, and generations count the calls  *)
(* that have subscribed.                                                   *)
Born(t) == {c \in Calls : TopicOf(c) = t /\ born[c] # 0}

CallsInv ==
  /\ plan \in Plans /\ IsFiniteSet(tracked)
  /\ reader = "stuck" => cur.event = "phx_reply"
  /\ conn = "none" => reader = "none"
  /\ \A t \in Topics : gen[t] = Cardinality(Born(t))
  /\ \A c \in Calls :
       /\ at[c] = "never" <=> Kind(c) = "never"
       /\ at[c] = "new" => born[c] = 0
       /\ at[c] \in {"send", "look", "wait"} => Kind(c) \in Subscribers
       /\ at[c] = "register" => Kind(c) \in DOMAIN Registers
       /\ Kind(c) \in DOMAIN Registers /\ at[c] \in {"send", "look", "wait", "register", "ok"} => born[c] # 0
       /\ at[c] = "track" => Kind(c) = "add"
       /\ born[c] <= gen[TopicOf(c)]
  /\ \A c, d \in Calls : TopicOf(c) = TopicOf(d) /\ born[c] = born[d] /\ born[c] # 0 => c = d

(* Answers.  Those of a topic are on their way, with the reader or in a Go *)
(* channel, and there are never more of them than calls that can take one  *)
(* and answers that no call waits for.                                     *)
Replies(t) == {Reply(t, s) : s \in {"ok", "error"}}
InBuffer(t) == {b \in Gens \X {"ok", "error"} : b[2] \in buffer[t][b[1]]}

Count(s, P) == Cardinality({i \in 1..Len(s) : s[i] \in P})

Answered(t) == Count(<<cur>>, Replies(t)) + Count(inbox, Replies(t)) + Cardinality(InBuffer(t))

AnswersInv == \A t \in Topics : Answered(t) <= unclaimed[t] + Cardinality(Orphans(t))

(* A message that the reader handles or will read.  An error of a channel  *)
(* is the server's own.                                                    *)
Within(s, m) == \E i \in 1..Len(s) : s[i] = m
Coming(m) == cur = m \/ Within(inbox, m)

ErrorsInv == \A t \in Topics : Coming(Message(t, "phx_error")) => t \in broken

(* The last call on a channel, where it has met no other's reply.          *)
InSubscribed(t) == \E g \in Gens : "ok" \in buffer[t][g]
OkComes(t) == Coming(Reply(t, "ok")) \/ InSubscribed(t)

Undisturbed(c) ==
  /\ Kind(c) \in DOMAIN Registers /\ born[c] # 0 /\ gen[TopicOf(c)] = born[c]
  /\ TopicOf(c) \notin crossed \cup broken /\ conn \in {"none", "up"}

Heard(c) ==
  LET t == TopicOf(c)
  IN /\ Waiting(t) \subseteq {c}
     /\ at[c] \in {"send", "look", "wait"} => unclaimed[t] = 0 /\ handlers[t] = {}
     /\ at[c] \in {"look", "wait"} /\ OkComes(t) => t \in joined
     /\ at[c] = "register" => t \in joined /\ handlers[t] = {}
     /\ at[c] = "ok" => t \in joined /\ handlers[t] = {c}

HeardInv == \A c \in Calls : Undisturbed(c) => Heard(c)

(* The presence tracker: one call at a time holds its mutex, to join the   *)
(* channel or to track a machine, and it joins the channel once.  Until    *)
(* then nothing has come of it.                                            *)
Tracks(c) == at[c] = "track"
Joins(c) == Kind(c) = "add" /\ at[c] \in {"send", "look", "wait"}

MutexInv ==
  /\ \A c \in Calls : holder = c <=> Tracks(c) \/ Joins(c)
  /\ \A c \in Calls : Tracks(c) \/ Joins(c) => shared
  /\ \A c \in Calls : Joins(c) => tracked = {} /\ present = {}
  /\ ~ shared => tracked = {} /\ present = {}
  /\ conn = "none" => ~ shared

Before(c) == ~ shared \/ at[c] = "send"
Ends(t) == Coming(Message(t, "phx_close")) \/ Coming(Message(t, "phx_error"))
Accepted(t) ==
  \/ tracked # {} \/ (\E c \in Calls : Tracks(c)) \/ InSubscribed(t)
  \/ reader = "stuck" /\ cur = Reply(t, "ok")

Agrees(c) ==
  LET t == TopicOf(c)
  IN /\ Before(c) => t \notin joined /\ unclaimed[t] = 0
     /\ Before(c) \/ t \in joined => ~ Ends(t)
     /\ t \in joined /\ conn = "up" => present = tracked
     /\ t \in joined /\ Accepted(t) => state[t] = "subscribed"

AgreesInv == \A c \in Calls : Kind(c) = "add" => Agrees(c)

RealtimeInv ==
  TypeOK /\ CallsInv /\ AnswersInv /\ ErrorsInv /\ HeardInv /\ MutexInv /\ AgreesInv

--------------------------------------------------------------------------------
(* How often a sequence holds one of some messages.                        *)
LEMMA CountFinite ==
  ASSUME NEW M, NEW s \in Seq(M), NEW P
  PROVE  /\ IsFiniteSet({i \in 1..Len(s) : s[i] \in P})
         /\ Count(s, P) \in Nat
         /\ Count(s, P) = 0 => \A i \in 1..Len(s) : s[i] \notin P
<1> DEFINE C == {i \in 1..Len(s) : s[i] \in P}
<1>1. IsFiniteSet(1..Len(s))
  BY FS_Interval
<1>2. IsFiniteSet(C)
  BY <1>1, FS_Subset
<1>3. Cardinality(C) \in Nat /\ (Cardinality(C) = 0 => C = {})
  <2> HIDE DEF C
  <2>1. QED
    BY <1>2, FS_CardinalityType, FS_EmptySet
<1>4. QED
  BY <1>2, <1>3 DEF Count

LEMMA CountEmpty == \A P : Count(<<>>, P) = 0
<1> TAKE P
<1>1. {i \in 1..Len(<<>>) : <<>>[i] \in P} = {}
  OBVIOUS
<1>2. QED
  BY <1>1, FS_EmptySet DEF Count

LEMMA CountSame ==
  ASSUME NEW n \in Nat, NEW m, NEW P
  PROVE  Count([i \in 1..n |-> m], P) = IF m \in P THEN n ELSE 0
<1> DEFINE s == [i \in 1..n |-> m]
           C == {i \in 1..Len(s) : s[i] \in P}
<1>1. Len(s) = n
  OBVIOUS
<1>2. CASE m \in P
  <2>1. C = 1..n
    BY <1>1, <1>2
  <2>2. Cardinality(1..n) = n
    BY FS_Interval
  <2>3. QED
    BY <1>2, <2>1, <2>2 DEF Count
<1>3. CASE m \notin P
  <2>1. C = {}
    BY <1>1, <1>3
  <2>2. QED
    BY <1>3, <2>1, FS_EmptySet DEF Count
<1>4. QED
  BY <1>2, <1>3

LEMMA CountOne ==
  ASSUME NEW m, NEW P
  PROVE  Count(<<m>>, P) = IF m \in P THEN 1 ELSE 0
<1> DEFINE C == {i \in 1..Len(<<m>>) : <<m>>[i] \in P}
<1>1. C = IF m \in P THEN {1} ELSE {}
  OBVIOUS
<1>2. Cardinality({1}) = 1 /\ Cardinality({}) = 0
  BY FS_Singleton, FS_EmptySet
<1>3. QED
  BY <1>1, <1>2 DEF Count

LEMMA CountBoth ==
  ASSUME NEW M, NEW s \in Seq(M), NEW r \in Seq(M), NEW P
  PROVE  Count(s \o r, P) = Count(s, P) + Count(r, P)
<1> DEFINE n == Len(s)
           S == {i \in 1..n : s[i] \in P}
           R == {i \in 1..Len(r) : r[i] \in P}
           U == {j \in 1..Len(s \o r) : j > n /\ (s \o r)[j] \in P}
           All == {i \in 1..Len(s \o r) : (s \o r)[i] \in P}
<1>1. /\ n \in Nat /\ Len(r) \in Nat /\ Len(s \o r) = n + Len(r)
      /\ \A i \in 1..n : (s \o r)[i] = s[i]
      /\ \A i \in 1..Len(r) : (s \o r)[n + i] = r[i]
  OBVIOUS
<1>2. IsFiniteSet(S) /\ IsFiniteSet(R) /\ Cardinality(S) \in Nat /\ Cardinality(R) \in Nat
  BY CountFinite DEF Count
<1>3. IsFiniteSet(U) /\ Cardinality(U) = Cardinality(R)
  <2> DEFINE f == [i \in R |-> n + i]
  <2>1. f \in [R -> U]
    BY <1>1
  <2>2. \A i, j \in R : f[i] = f[j] => i = j
    BY <1>1
  <2>3. \A j \in U : \E i \in R : f[i] = j
    <3> SUFFICES ASSUME NEW j \in U PROVE \E i \in R : f[i] = j
      OBVIOUS
    <3>1. j - n \in 1..Len(r) /\ n + (j - n) = j
      BY <1>1
    <3>2. j - n \in R
      BY <1>1, <3>1
    <3>3. QED
      BY <3>1, <3>2
  <2>4. f \in Bijection(R, U)
    BY <2>1, <2>2, <2>3 DEF Bijection, Injection, Surjection, IsInjective
  <2>5. QED
    BY <1>2, <2>4, FS_Bijection DEF ExistsBijection
<1>4. All = S \cup U /\ S \cap U = {}
  <2>1. ASSUME NEW i \in All PROVE i \in S \cup U
    BY <1>1
  <2>2. ASSUME NEW i \in S PROVE i \in All /\ i \notin U
    BY <1>1
  <2>3. QED
    BY <2>1, <2>2
<1>5. Cardinality(All) = Cardinality(S) + Cardinality(R)
  <2> HIDE DEF S, U, All, R
  <2>1. Cardinality(All) = Cardinality(S) + Cardinality(U) - Cardinality({})
    BY <1>2, <1>3, <1>4, FS_Union
  <2>2. QED
    BY <1>2, <1>3, <2>1, FS_EmptySet
<1>6. QED
  BY <1>5 DEF Count

--------------------------------------------------------------------------------
(* What a plan gives to a call, and what a message holds.                  *)
LEMMA PlanTypes ==
  ASSUME plan \in Plans
  PROVE  /\ \A c \in Calls : Kind(c) \in Kinds /\ TopicOf(c) \in Topics /\ MachineOf(c) \in Machines
         /\ \A c, d \in Calls : Kind(c) \in TrackerKinds /\ Kind(d) # "never"
              => Kind(d) \in TrackerKinds /\ TopicOf(d) = TopicOf(c)
<1>1. plan \in [Calls -> [kind : Kinds, topic : Topics, machine : Machines]]
  BY RealtimeAssumption
<1>2. \A c \in Calls : plan[c] \in [kind : Kinds, topic : Topics, machine : Machines]
  BY <1>1
<1>3. QED
  BY <1>2, TrackerAssumption DEF Kind, TopicOf, MachineOf

LEMMA EventNames ==
  /\ Events = {"broadcast", "postgres_changes", "presence_diff", "phx_error", "phx_close"}
  /\ DOMAIN Sends = {"machine", "table", "relays"} /\ DOMAIN Registers = {"machine", "table", "relays"}
  /\ {Sends[k] : k \in DOMAIN Sends} = {"broadcast", "postgres_changes", "presence_diff"}
<1>1. DOMAIN Sends = {"machine", "table", "relays"} /\ DOMAIN Registers = {"machine", "table", "relays"}
  BY DEF Sends, Registers
<1>2. Sends["machine"] = "broadcast" /\ Sends["table"] = "postgres_changes" /\ Sends["relays"] = "presence_diff"
  BY DEF Sends
<1>3. QED
  BY <1>1, <1>2 DEF Events

LEMMA MessageTypes ==
  /\ NoMsg \notin Messages
  /\ \A t \in Topics, s \in {"ok", "error"} : Reply(t, s) \in Messages
  /\ \A t \in Topics, e \in Events : Message(t, e) \in Messages
  /\ \A m \in Messages :
       /\ m.topic \in Topics /\ m.event \in Events \cup {"phx_reply"}
       /\ m.event = "phx_reply" => m.status \in {"ok", "error"} /\ m = Reply(m.topic, m.status)
       /\ m.event # "phx_reply" => m = Message(m.topic, m.event)
       /\ \A t \in Topics : m \in Replies(t) <=> m.event = "phx_reply" /\ m.topic = t
<1>1. \A t \in Topics, s \in {"ok", "error"} : Reply(t, s) \in Messages
  BY DEF Messages
<1>2. \A t \in Topics, e \in Events : Message(t, e) \in Messages
  BY DEF Messages
<1>3. ASSUME NEW m \in Messages
      PROVE  /\ m.topic \in Topics /\ m.event \in Events \cup {"phx_reply"}
             /\ m.event = "phx_reply" => m.status \in {"ok", "error"} /\ m = Reply(m.topic, m.status)
             /\ m.event # "phx_reply" => m = Message(m.topic, m.event)
  <2>1. ASSUME NEW t \in Topics, NEW e \in Events, m = Message(t, e)
        PROVE  m.topic = t /\ m.event = e /\ e # "phx_reply"
    BY <2>1, EventNames DEF Message
  <2>2. ASSUME NEW t \in Topics, NEW s \in {"ok", "error"}, m = Reply(t, s)
        PROVE  m.topic = t /\ m.event = "phx_reply" /\ m.status = s
    BY <2>2 DEF Reply
  <2>3. QED
    BY <2>1, <2>2 DEF Messages
<1>4. ASSUME NEW m \in Messages, NEW t \in Topics
      PROVE  m \in Replies(t) <=> m.event = "phx_reply" /\ m.topic = t
  <2>1. ASSUME m \in Replies(t) PROVE m.event = "phx_reply" /\ m.topic = t
    BY <2>1 DEF Replies, Reply
  <2>2. QED
    BY <1>3, <2>1 DEF Replies
<1>5. ASSUME NoMsg \in Messages PROVE FALSE
  BY <1>3, <1>5, EventNames DEF NoMsg
<1>6. QED
  BY <1>1, <1>2, <1>3, <1>4, <1>5

LEMMA GensFinite ==
  /\ Cardinality(Calls) \in Nat /\ 0 \in Gens /\ Gens \subseteq Nat /\ IsFiniteSet(Gens)
<1>1. Cardinality(Calls) \in Nat
  BY RealtimeAssumption, FS_CardinalityType
<1>2. QED
  BY <1>1, FS_Interval DEF Gens

(* A call that has not subscribed yet leaves room for one more generation. *)
LEMMA NextGeneration ==
  ASSUME TypeOK, CallsInv, NEW c \in Calls, at[c] = "new"
  PROVE  /\ gen[TopicOf(c)] + 1 \in Gens
         /\ gen[TopicOf(c)] + 1 = Cardinality(Born(TopicOf(c)) \cup {c})
         /\ c \notin Born(TopicOf(c))
<1> DEFINE t == TopicOf(c)
<1>1. c \notin Born(t) /\ t \in Topics
  BY PlanTypes DEF CallsInv, Born
<1>2. IsFiniteSet(Born(t)) /\ Born(t) \cup {c} \subseteq Calls
  BY RealtimeAssumption, FS_Subset DEF Born
<1>3. Cardinality(Born(t) \cup {c}) = gen[t] + 1 /\ gen[t] \in Nat
  BY <1>1, <1>2, FS_AddElement, FS_CardinalityType DEF CallsInv
<1>4. Cardinality(Born(t) \cup {c}) <= Cardinality(Calls)
  BY <1>2, RealtimeAssumption, FS_Subset
<1>5. QED
  BY <1>1, <1>3, <1>4, GensFinite DEF Gens

--------------------------------------------------------------------------------
(* Types.                                                                  *)
LEMMA ReaderTypes ==
  ASSUME TypeOK, CallsInv, ReaderStep
  PROVE  TypeOK'
<1> USE DEF netVars, readerVars, channelVars, callVars, trackerVars, serverVars, history
<1>1. CASE ReadFails
  BY <1>1 DEF ReadFails, TypeOK
<1>2. CASE Read
  <2>1. inbox # <<>> /\ inbox \in Seq(Messages)
    BY <1>2 DEF Read, TypeOK
  <2>2. Head(inbox) \in Messages /\ Tail(inbox) \in Seq(Messages)
    BY <2>1
  <2>3. QED
    BY <1>2, <2>2 DEF Read, TypeOK
<1>3. ASSUME BackToTop, state' \in [Topics -> {"joining", "subscribed", "closed", "errored"}],
             buffer' \in [Topics -> [Gens -> SUBSET {"ok", "error"}]],
             unclaimed' \in [Topics -> Nat], told' \subseteq Calls,
             UNCHANGED <<plan, netVars, gen, handlers, callVars, trackerVars, serverVars, crossed>>
      PROVE  TypeOK'
  BY <1>3, GensFinite DEF BackToTop, TypeOK
<1>4. ASSUME NEW t \in Topics, NEW g \in Gens, NEW s \in {"ok", "error"},
             buffer' = [buffer EXCEPT ![t][g] = @ \cup {s}]
      PROVE  buffer' \in [Topics -> [Gens -> SUBSET {"ok", "error"}]]
  <2>1. buffer[t] \in [Gens -> SUBSET {"ok", "error"}]
    BY DEF TypeOK
  <2>2. [buffer[t] EXCEPT ![g] = @ \cup {s}] \in [Gens -> SUBSET {"ok", "error"}]
    BY <2>1
  <2>3. buffer' = [buffer EXCEPT ![t] = [buffer[t] EXCEPT ![g] = @ \cup {s}]]
    BY <1>4 DEF TypeOK
  <2>4. QED
    BY <2>2, <2>3 DEF TypeOK
<1>5. ASSUME NEW s \in {"subscribed", "closed", "errored"}, NEW t \in Topics,
             state' = [state EXCEPT ![t] = s]
      PROVE  state' \in [Topics -> {"joining", "subscribed", "closed", "errored"}]
  BY <1>5 DEF TypeOK
<1>6. CASE HandleReply
  <2>1. cur \in Messages /\ cur.event = "phx_reply" /\ cur.topic \in Topics /\ cur.status \in {"ok", "error"}
    BY <1>6, MessageTypes DEF HandleReply, TypeOK
  <2>2. gen[cur.topic] \in Gens
    BY <2>1 DEF TypeOK
  <2>3. state' \in [Topics -> {"joining", "subscribed", "closed", "errored"}]
    BY <1>6, <2>1 DEF HandleReply, TypeOK
  <2>4. CASE cur.status \in buffer[cur.topic][gen[cur.topic]]
    BY <1>6, <2>1, <2>2, <2>3, <2>4 DEF HandleReply, TypeOK
  <2>5. CASE cur.status \notin buffer[cur.topic][gen[cur.topic]]
    <3>1. /\ BackToTop
          /\ buffer' = [buffer EXCEPT ![cur.topic][gen[cur.topic]] = @ \cup {cur.status}]
          /\ UNCHANGED <<plan, netVars, gen, handlers, callVars, trackerVars, serverVars, history>>
      BY <1>6, <2>5 DEF HandleReply
    <3>2. buffer' \in [Topics -> [Gens -> SUBSET {"ok", "error"}]]
      BY <1>4, <2>1, <2>2, <3>1
    <3>3. QED
      BY <1>3, <2>3, <3>1, <3>2 DEF TypeOK
  <2>6. QED
    BY <2>4, <2>5
<1>7. CASE ReplyGoesIn
  <2>1. cur \in Messages /\ cur.event = "phx_reply"
    BY <1>7 DEF ReplyGoesIn, TypeOK, CallsInv
  <2>2. cur.topic \in Topics /\ cur.status \in {"ok", "error"} /\ stuckIn \in Gens
    BY <2>1, MessageTypes DEF TypeOK
  <2>3. buffer' \in [Topics -> [Gens -> SUBSET {"ok", "error"}]]
    BY <1>4, <1>7, <2>2 DEF ReplyGoesIn
  <2>4. QED
    BY <1>3, <1>7, <2>3 DEF ReplyGoesIn, TypeOK
<1>8. CASE HandleClose
  <2>1. cur \in Messages /\ cur.topic \in Topics
    BY <1>8, MessageTypes DEF HandleClose, TypeOK
  <2>2. QED
    BY <1>3, <1>5, <1>8, <2>1 DEF HandleClose, TypeOK
<1>9. CASE HandleError
  <2>1. cur \in Messages /\ cur.topic \in Topics /\ gen[cur.topic] \in Gens
    BY <1>9, MessageTypes DEF HandleError, TypeOK
  <2>2. unclaimed' \in [Topics -> Nat]
    BY <1>9, <2>1 DEF HandleError, TypeOK
  <2>3. buffer' \in [Topics -> [Gens -> SUBSET {"ok", "error"}]]
    BY <1>4, <1>9, <2>1 DEF HandleError
  <2>4. QED
    BY <1>3, <1>5, <1>9, <2>1, <2>2, <2>3 DEF HandleError, TypeOK
<1>10. CASE HandleEvent
  <2>1. cur \in Messages /\ cur.topic \in Topics
    BY <1>10, MessageTypes DEF HandleEvent, TypeOK
  <2>2. Matching(cur) \subseteq Calls
    BY <2>1 DEF Matching, TypeOK
  <2>3. QED
    BY <1>3, <1>10, <2>2 DEF HandleEvent, TypeOK
<1>11. QED
  BY <1>1, <1>2, <1>6, <1>7, <1>8, <1>9, <1>10 DEF ReaderStep

LEMMA NetTypes ==
  ASSUME TypeOK, CallsInv,
         \/ \E ok \in BOOLEAN : Connect(ok)
         \/ ConnectionLost
         \/ \E c \in Calls : \E e \in Events : ServerSends(c, e)
  PROVE  TypeOK'
<1> USE DEF netVars, readerVars, channelVars, callVars, trackerVars, serverVars, history
<1>1. ASSUME NEW ok \in BOOLEAN, Connect(ok) PROVE TypeOK'
  BY <1>1 DEF Connect, TypeOK, CallsInv
<1>2. CASE ConnectionLost
  BY <1>2 DEF ConnectionLost, TypeOK
<1>3. ASSUME NEW c \in Calls, NEW e \in Events, ServerSends(c, e) PROVE TypeOK'
  <2>1. TopicOf(c) \in Topics
    BY PlanTypes DEF CallsInv
  <2>2. Message(TopicOf(c), e) \in Messages
    BY <2>1, MessageTypes
  <2>3. inbox' \in Seq(Messages)
    BY <1>3, <2>2 DEF ServerSends, Arrives, TypeOK
  <2>4. events' \in 0..MaxEvents
    BY <1>3, RealtimeAssumption DEF ServerSends, TypeOK
  <2>5. joined' \subseteq Topics /\ broken' \subseteq Topics /\ present' \subseteq Machines
    BY <1>3, <2>1 DEF ServerSends, TypeOK
  <2>6. QED
    BY <1>3, <2>3, <2>4, <2>5 DEF ServerSends, TypeOK
<1>4. QED
  BY <1>1, <1>2, <1>3

(* A call that fails, or goes to another place.                            *)
LEMMA GoesTypes ==
  ASSUME TypeOK, NEW c \in Calls
  PROVE  /\ \A to \in Places : Goes(c, to) => at' \in [Calls -> Places]
         /\ Fails(c) => /\ at' \in [Calls -> Places] /\ holder' \in Calls \cup {None}
                        /\ shared' = shared /\ tracked' = tracked
BY DEF TypeOK, Goes, Fails, Places

LEMMA PushTypes ==
  ASSUME TypeOK, CallsInv, NEW t \in Topics, NEW ms \in SUBSET Machines, NEW ok \in BOOLEAN, NEW n \in Nat,
         Pushes(t, ms, ok, n)
  PROVE  /\ present' \subseteq Machines /\ inbox' \in Seq(Messages) /\ unclaimed' \in [Topics -> Nat]
         /\ UNCHANGED <<plan, conn, readerVars, channelVars, born, waitsOn, joined, events, broken, crossed, told>>
<1>1. CASE ok /\ conn = "up"
  <2> DEFINE m == Reply(t, IF t \in joined THEN "ok" ELSE "error")
  <2>1. m \in Messages
    BY MessageTypes
  <2>2. /\ inbox' = inbox \o [i \in 1..n |-> m]
        /\ present' = IF t \in joined THEN ms ELSE present
        /\ unclaimed' = [unclaimed EXCEPT ![t] = @ + n]
    BY <1>1 DEF Pushes, Arrives
  <2> HIDE DEF m
  <2>3. inbox' \in Seq(Messages)
    <3>1. [i \in 1..n |-> m] \in Seq(Messages)
      BY <2>1
    <3>2. QED
      BY <2>2, <3>1 DEF TypeOK
  <2>4. QED
    BY <2>2, <2>3 DEF Pushes, TypeOK
<1>2. CASE ~ (ok /\ conn = "up")
  BY <1>2 DEF Pushes, TypeOK
<1>3. QED
  BY <1>1, <1>2

LEMMA CallTypes ==
  ASSUME TypeOK, CallsInv, NEW c \in Calls, CallStep(c) \/ CancelledFirst(c)
  PROVE  TypeOK'
<1> USE DEF netVars, readerVars, channelVars, callVars, trackerVars, serverVars, history
<1> DEFINE t == TopicOf(c)
<1>0. t \in Topics /\ MachineOf(c) \in Machines /\ Kind(c) \in Kinds
  BY PlanTypes DEF CallsInv
<1>1. ASSUME at[c] = "new", Reset(c)
      PROVE  /\ gen' \in [Topics -> Gens] /\ born' \in [Calls -> Gens] /\ handlers' \in [Topics -> SUBSET Calls]
             /\ crossed' \subseteq Topics /\ at' \in [Calls -> Places]
             /\ UNCHANGED <<state, buffer, waitsOn, unclaimed, told>>
  <2>1. gen[t] + 1 \in Gens
    BY <1>1, NextGeneration
  <2>2. at' \in [Calls -> Places]
    BY <1>1, GoesTypes DEF Reset, Places
  <2>3. QED
    BY <1>0, <1>1, <2>1, <2>2 DEF Reset, TypeOK
<1>2. CASE Begin(c)
  <2>1. CASE Reset(c)
    BY <1>1, <1>2, <2>1 DEF Begin, TypeOK
  <2>2. CASE Goes(c, "failed") /\ UNCHANGED <<channelVars, born, waitsOn, history>>
    <3>1. at' \in [Calls -> Places]
      BY <2>2, GoesTypes DEF Places
    <3>2. QED
      BY <1>2, <2>2, <3>1 DEF Begin, TypeOK
  <2>3. QED
    BY <1>2, <2>1, <2>2 DEF Begin
<1>3. ASSUME NEW ok \in BOOLEAN, NEW s \in Answers, SendJoin(c, ok, s) PROVE TypeOK'
  <2>1. /\ at' \in [Calls -> Places] /\ holder' \in Calls \cup {None} /\ shared' = shared
        /\ tracked' = tracked
    BY <1>3, GoesTypes DEF SendJoin, Places, TypeOK
  <2>2. inbox' \in Seq(Messages)
    <3>1. Message(t, "phx_close") \in Messages
      BY <1>0, EventNames, MessageTypes
    <3>2. s # "none" => Reply(t, s) \in Messages
      BY <1>0, MessageTypes DEF Answers
    <3> DEFINE old == IF t \in joined THEN <<Message(t, "phx_close")>> ELSE <<>>
               new == IF s = "none" THEN <<>> ELSE <<Reply(t, s)>>
    <3>3. old \in Seq(Messages) /\ new \in Seq(Messages)
      BY <3>1, <3>2
    <3>4. inbox' = inbox \o (old \o new) \/ inbox' = inbox
      BY <1>3 DEF SendJoin, Arrives
    <3> HIDE DEF old, new
    <3>5. inbox \in Seq(Messages)
      BY DEF TypeOK
    <3>6. old \o new \in Seq(Messages)
      BY <3>3
    <3>7. inbox \o (old \o new) \in Seq(Messages)
      BY <3>5, <3>6
    <3>8. QED
      BY <3>4, <3>5, <3>7
  <2>3. joined' \subseteq Topics /\ present' \subseteq Machines
    BY <1>0, <1>3 DEF SendJoin, TypeOK
  <2>4. QED
    BY <1>3, <2>1, <2>2, <2>3 DEF SendJoin, TypeOK
<1>4. CASE Look(c)
  <2>1. at' \in [Calls -> Places]
    BY <1>4, GoesTypes DEF Look, Places
  <2>2. waitsOn' \in [Calls -> Gens]
    BY <1>0, <1>4 DEF Look, TypeOK
  <2>3. QED
    BY <1>4, <2>1, <2>2 DEF Look, TypeOK
<1>5. ASSUME NEW s, Take(c, s)
      PROVE  /\ buffer' \in [Topics -> [Gens -> SUBSET {"ok", "error"}]]
             /\ UNCHANGED <<plan, netVars, readerVars, state, gen, handlers, born, waitsOn, serverVars, history>>
  <2>1. buffer[t] \in [Gens -> SUBSET {"ok", "error"}] /\ waitsOn[c] \in Gens
    BY <1>0 DEF TypeOK
  <2>2. [buffer[t] EXCEPT ![waitsOn[c]] = @ \ {s}] \in [Gens -> SUBSET {"ok", "error"}]
    BY <2>1
  <2>3. buffer' = [buffer EXCEPT ![t] = [buffer[t] EXCEPT ![waitsOn[c]] = @ \ {s}]]
    BY <1>0, <1>5 DEF TypeOK, Take
  <2>4. QED
    BY <1>0, <1>5, <2>2, <2>3 DEF TypeOK, Take
<1>6. CASE Confirmed(c)
  <2>1. at' \in [Calls -> Places]
    BY <1>6, GoesTypes DEF Confirmed, Places
  <2>2. QED
    BY <1>5, <1>6, <2>1 DEF Confirmed, TypeOK
<1>7. CASE Refused(c)
  <2>1. /\ at' \in [Calls -> Places] /\ holder' \in Calls \cup {None} /\ shared' = shared
        /\ tracked' = tracked
    BY <1>7, GoesTypes DEF Refused
  <2>2. QED
    BY <1>5, <1>7, <2>1 DEF Refused, TypeOK
<1>8. CASE TimesOut(c)
  <2>1. /\ at' \in [Calls -> Places] /\ holder' \in Calls \cup {None} /\ shared' = shared
        /\ tracked' = tracked
    BY <1>8, GoesTypes DEF TimesOut
  <2>2. unclaimed' \in [Topics -> Nat]
    BY <1>0, <1>8 DEF TimesOut, TypeOK
  <2>3. QED
    BY <1>8, <2>1, <2>2 DEF TimesOut, TypeOK
<1>9. CASE Register(c)
  <2>1. at' \in [Calls -> Places]
    BY <1>9, GoesTypes DEF Register, Places
  <2>2. handlers' \in [Topics -> SUBSET Calls]
    BY <1>0, <1>9 DEF Register, TypeOK
  <2>3. QED
    BY <1>9, <2>1, <2>2 DEF Register, TypeOK
<1>10. CASE AddMachineID(c)
  <2>1. CASE holder' = c /\ shared' = TRUE /\ Reset(c)
    BY <1>1, <1>10, <2>1 DEF AddMachineID, TypeOK
  <2>2. ASSUME NEW to \in {"track", "failed"}, Goes(c, to), holder' \in {c, holder},
               UNCHANGED <<shared, channelVars, born, waitsOn, history>>
        PROVE  TypeOK'
    <3>1. at' \in [Calls -> Places]
      BY <2>2, GoesTypes DEF Places
    <3>2. QED
      BY <1>10, <2>2, <3>1 DEF AddMachineID, TypeOK
  <2>3. QED
    BY <1>10, <2>1, <2>2 DEF AddMachineID
<1>11. CASE Disconnect(c)
  <2>1. CASE conn' = "closing" /\ inbox' = <<>> /\ UNCHANGED at
    BY <1>11, <2>1 DEF Disconnect, TypeOK
  <2>2. CASE conn' = "closed" /\ Goes(c, IF Kind(c) = "stop" THEN "ok" ELSE "failed") /\ UNCHANGED inbox
    <3>1. at' \in [Calls -> Places]
      BY <2>2, GoesTypes DEF Places
    <3>2. QED
      BY <1>11, <2>2, <3>1 DEF Disconnect, TypeOK
  <2>3. QED
    BY <1>11, <2>1, <2>2 DEF Disconnect
<1>12. ASSUME NEW ok \in BOOLEAN, Track(c, ok) PROVE TypeOK'
  <2>1. at' \in [Calls -> Places]
    BY <1>12, GoesTypes DEF Track, Places
  <2>2. Pushes(t, tracked \cup {MachineOf(c)}, ok, 1) /\ tracked \cup {MachineOf(c)} \subseteq Machines
    BY <1>0, <1>12 DEF Track, TypeOK
  <2>3. /\ present' \subseteq Machines /\ inbox' \in Seq(Messages) /\ unclaimed' \in [Topics -> Nat]
        /\ UNCHANGED <<plan, conn, readerVars, channelVars, born, waitsOn, joined, events, broken, crossed, told>>
    BY <1>0, <2>2, PushTypes
  <2>4. tracked' \subseteq Machines /\ holder' = None /\ shared' = shared
    BY <1>12, <2>2 DEF Track, TypeOK
  <2>5. QED
    BY <2>1, <2>3, <2>4 DEF TypeOK
<1>13. ASSUME NEW ms \in SUBSET Machines, NEW ok \in BOOLEAN, NEW n \in Nat, Pushes(t, ms, ok, n) \/ PushesNothing,
              tracked' \subseteq Machines, UNCHANGED <<holder, shared>>, at' \in [Calls -> Places]
       PROVE  TypeOK'
  <2>1. CASE PushesNothing
    BY <1>13, <2>1 DEF PushesNothing, TypeOK
  <2>2. CASE Pushes(t, ms, ok, n)
    <3>1. /\ present' \subseteq Machines /\ inbox' \in Seq(Messages) /\ unclaimed' \in [Topics -> Nat]
          /\ UNCHANGED <<plan, conn, readerVars, channelVars, born, waitsOn, joined, events, broken, crossed, told>>
      BY <1>0, <2>2, PushTypes
    <3>2. QED
      BY <1>13, <3>1 DEF TypeOK
  <2>3. QED
    BY <1>13, <2>1, <2>2
<1>14. ASSUME NEW ok \in BOOLEAN, RemoveMachineID(c, ok) PROVE TypeOK'
  <2>1. at' \in [Calls -> Places]
    BY <1>14, GoesTypes DEF RemoveMachineID, Places
  <2>2. tracked \ {MachineOf(c)} \in SUBSET Machines
    BY DEF TypeOK
  <2>3. /\ Pushes(t, tracked \ {MachineOf(c)}, ok, 1) \/ PushesNothing
        /\ tracked' = tracked \ {MachineOf(c)} /\ UNCHANGED <<holder, shared>>
    BY <1>14 DEF RemoveMachineID
  <2>4. QED
    BY <1>13, <2>1, <2>2, <2>3
<1>15. ASSUME NEW ok \in BOOLEAN, Stop(c, ok) PROVE TypeOK'
  <2>1. at' \in [Calls -> Places]
    BY <1>15, GoesTypes DEF Stop, Places
  <2>2. Cardinality(tracked) \in Nat /\ {} \in SUBSET Machines
    BY FS_CardinalityType DEF CallsInv
  <2>3. /\ Pushes(t, {}, ok, Cardinality(tracked)) \/ PushesNothing
        /\ tracked' = {} /\ UNCHANGED <<holder, shared>>
    BY <1>15 DEF Stop
  <2>4. QED
    BY <1>13, <2>1, <2>2, <2>3
<1>16. CASE CancelledFirst(c)
  <2>1. /\ at' \in [Calls -> Places] /\ holder' \in Calls \cup {None} /\ shared' = shared
        /\ tracked' = tracked
    BY <1>16, GoesTypes DEF CancelledFirst
  <2>2. QED
    BY <1>16, <2>1 DEF CancelledFirst, TypeOK
<1>17. QED
  BY <1>2, <1>3, <1>4, <1>6, <1>7, <1>8, <1>9, <1>10, <1>11, <1>12, <1>14, <1>15, <1>16 DEF CallStep

LEMMA TypesStep == TypeOK /\ CallsInv /\ [Next]_vars => TypeOK'
<1> SUFFICES ASSUME TypeOK, CallsInv, [Next]_vars PROVE TypeOK'
  OBVIOUS
<1>1. ASSUME UNCHANGED vars PROVE TypeOK'
  BY <1>1 DEF TypeOK, vars, netVars, readerVars, channelVars, callVars, trackerVars, serverVars, history
<1>2. QED
  BY <1>1, ReaderTypes, NetTypes, CallTypes DEF Next

--------------------------------------------------------------------------------
(* Where the calls are.                                                    *)
LEMMA CallsMove ==
  ASSUME TypeOK, CallsInv, NEW c \in Calls, NEW to \in Places \ {"never", "new"},
         Goes(c, to), UNCHANGED <<plan, gen, born>>, at[c] # "never",
         to \in {"send", "look", "wait"} => Kind(c) \in Subscribers,
         to = "register" => Kind(c) \in DOMAIN Registers,
         Kind(c) \in DOMAIN Registers /\ to \in {"send", "look", "wait", "register", "ok"} => born[c] # 0,
         to = "track" => Kind(c) = "add",
         IsFiniteSet(tracked'), reader' = "stuck" => cur'.event = "phx_reply",
         conn' = "none" => reader' = "none"
  PROVE  CallsInv'
<1>1. at' = [at EXCEPT ![c] = to] /\ at \in [Calls -> Places]
  BY DEF Goes, TypeOK
<1>2. \A t \in Topics : gen'[t] = Cardinality(Born(t)')
  BY DEF CallsInv, Born, TopicOf
<1>3. ASSUME NEW d \in Calls
      PROVE  /\ (at'[d] = "never" <=> Kind(d)' = "never")
             /\ (at'[d] = "new" => born'[d] = 0)
             /\ at'[d] \in {"send", "look", "wait"} => Kind(d)' \in Subscribers
             /\ at'[d] = "register" => Kind(d)' \in DOMAIN Registers
             /\ Kind(d)' \in DOMAIN Registers /\ at'[d] \in {"send", "look", "wait", "register", "ok"} => born'[d] # 0
             /\ at'[d] = "track" => Kind(d)' = "add"
             /\ born'[d] <= gen'[TopicOf(d)']
  <2>1. Kind(d)' = Kind(d) /\ TopicOf(d)' = TopicOf(d)
    BY DEF Kind, TopicOf
  <2>2. CASE d = c
    BY <1>1, <2>1, <2>2 DEF CallsInv
  <2>3. CASE d # c
    BY <1>1, <2>1, <2>3 DEF CallsInv
  <2>4. QED
    BY <2>2, <2>3
<1>4. \A d, e \in Calls : TopicOf(d)' = TopicOf(e)' /\ born'[d] = born'[e] /\ born'[d] # 0 => d = e
  BY DEF CallsInv, TopicOf
<1>5. plan' \in Plans
  BY DEF CallsInv
<1>6. QED
  BY <1>2, <1>3, <1>4, <1>5 DEF CallsInv, Subscribers, Starts, Registers

LEMMA CallsStay ==
  ASSUME CallsInv, UNCHANGED <<plan, gen, born, at>>, IsFiniteSet(tracked'),
         reader' = "stuck" => cur'.event = "phx_reply", conn' = "none" => reader' = "none"
  PROVE  CallsInv'
<1>1. \A t \in Topics : gen'[t] = Cardinality(Born(t)')
  BY DEF CallsInv, Born, TopicOf
<1>2. QED
  BY <1>1 DEF CallsInv, Kind, TopicOf

LEMMA CallsReset ==
  ASSUME TypeOK, CallsInv, NEW c \in Calls, at[c] = "new", Reset(c), Kind(c) \in Subscribers,
         UNCHANGED <<plan, conn, readerVars, tracked>>
  PROVE  CallsInv'
<1> DEFINE t == TopicOf(c)
           n == gen[t] + 1
<1>1. /\ gen' = [gen EXCEPT ![t] = n] /\ born' = [born EXCEPT ![c] = n]
      /\ at' = [at EXCEPT ![c] = "send"]
  BY DEF Reset, Goes
<1>2. /\ t \in Topics /\ gen \in [Topics -> Gens] /\ born \in [Calls -> Gens] /\ at \in [Calls -> Places]
      /\ gen[t] \in Nat /\ Gens \subseteq Nat
  BY PlanTypes, GensFinite DEF CallsInv, TypeOK
<1>3. n = Cardinality(Born(t) \cup {c}) /\ c \notin Born(t)
  BY NextGeneration
<1> HIDE DEF t
<1>4. \A d \in Calls : Kind(d)' = Kind(d) /\ TopicOf(d)' = TopicOf(d)
  BY DEF Kind, TopicOf
<1>5. ASSUME NEW u \in Topics PROVE gen'[u] = Cardinality(Born(u)')
  <2>1. CASE u = t
    <3>1. Born(u)' = Born(t) \cup {c}
      BY <1>1, <1>2, <1>4, <2>1 DEF Born, t
    <3>2. QED
      BY <1>1, <1>2, <1>3, <2>1, <3>1
  <2>2. CASE u # t
    <3>1. Born(u)' = Born(u)
      BY <1>1, <1>2, <1>4, <2>2 DEF Born, t
    <3>2. QED
      BY <1>1, <1>2, <2>2, <3>1 DEF CallsInv
  <2>3. QED
    BY <2>1, <2>2
<1>6. ASSUME NEW d \in Calls PROVE born'[d] <= gen'[TopicOf(d)]
  <2>1. TopicOf(d) \in Topics /\ born[d] <= gen[TopicOf(d)] /\ born[d] \in Nat /\ gen[TopicOf(d)] \in Nat
    BY <1>2, PlanTypes DEF CallsInv
  <2>2. CASE d = c
    BY <1>1, <1>2, <2>2 DEF t
  <2>3. CASE d # c
    BY <1>1, <1>2, <2>1, <2>3
  <2>4. QED
    BY <2>2, <2>3
<1>7. ASSUME NEW d \in Calls, NEW e \in Calls, TopicOf(d) = TopicOf(e), born'[d] = born'[e], born'[d] # 0
      PROVE  d = e
  <2>1. \A f \in Calls : f # c => born'[f] = born[f]
    BY <1>1, <1>2
  <2>2. \A f \in Calls : TopicOf(f) = t => born[f] <= gen[t] /\ born[f] \in Nat
    BY <1>2 DEF CallsInv
  <2>3. born'[c] = gen[t] + 1
    BY <1>1, <1>2
  <2>4. CASE d = c \/ e = c
    BY <1>2, <1>7, <2>1, <2>2, <2>3, <2>4 DEF t
  <2>5. CASE d # c /\ e # c
    BY <1>7, <2>1, <2>5 DEF CallsInv
  <2>6. QED
    BY <2>4, <2>5
<1>8. ASSUME NEW d \in Calls
      PROVE  /\ (at'[d] = "never" <=> Kind(d) = "never")
             /\ (at'[d] = "new" => born'[d] = 0)
             /\ at'[d] \in {"send", "look", "wait"} => Kind(d) \in Subscribers
             /\ at'[d] = "register" => Kind(d) \in DOMAIN Registers
             /\ Kind(d) \in DOMAIN Registers /\ at'[d] \in {"send", "look", "wait", "register", "ok"} => born'[d] # 0
             /\ at'[d] = "track" => Kind(d) = "add"
  <2>1. CASE d = c
    <3>1. at'[d] = "send" /\ born'[d] # 0
      BY <1>1, <1>2, <2>1
    <3>2. QED
      BY <2>1, <3>1 DEF Subscribers, Starts
  <2>2. CASE d # c
    <3>1. at'[d] = at[d] /\ born'[d] = born[d]
      BY <1>1, <1>2, <2>2
    <3>2. QED
      BY <3>1 DEF CallsInv
  <2>3. QED
    BY <2>1, <2>2
<1>9. /\ plan' \in Plans /\ IsFiniteSet(tracked')
      /\ reader' = "stuck" => cur'.event = "phx_reply"
      /\ conn' = "none" => reader' = "none"
  BY DEF CallsInv, readerVars
<1>10. QED
  BY <1>4, <1>5, <1>6, <1>7, <1>8, <1>9 DEF CallsInv, Subscribers, Starts, Registers

LEMMA CallsStep == TypeOK /\ CallsInv /\ [Next]_vars => CallsInv'
<1> SUFFICES ASSUME TypeOK, CallsInv, [Next]_vars PROVE CallsInv'
  OBVIOUS
<1> USE DEF vars, netVars, readerVars, channelVars, callVars, trackerVars, serverVars, history
<1>0. /\ IsFiniteSet(tracked) /\ (reader = "stuck" => cur.event = "phx_reply")
      /\ (conn = "none" => reader = "none")
  BY DEF CallsInv
<1>1. ASSUME UNCHANGED <<plan, gen, born, at, tracked>>, ReaderStep PROVE CallsInv'
  <2>1. (reader' = "stuck" => cur'.event = "phx_reply") /\ (conn' = "none" => reader' = "none")
    BY <1>0, <1>1 DEF ReaderStep, ReadFails, Read, ReplyGoesIn, HandleReply, HandleClose, HandleError,
                HandleEvent, BackToTop
  <2>2. QED
    BY <1>0, <1>1, <2>1, CallsStay
<1>2. ASSUME ReaderStep PROVE UNCHANGED <<plan, gen, born, at, tracked>>
  BY <1>2 DEF ReaderStep, ReadFails, Read, ReplyGoesIn, HandleReply, HandleClose, HandleError, HandleEvent
<1>3. ASSUME NEW ok \in BOOLEAN, Connect(ok) PROVE CallsInv'
  BY <1>0, <1>3, CallsStay DEF Connect
<1>4. CASE ConnectionLost
  BY <1>0, <1>4, CallsStay DEF ConnectionLost
<1>5. ASSUME NEW c \in Calls, NEW e \in Events, ServerSends(c, e) PROVE CallsInv'
  BY <1>0, <1>5, CallsStay DEF ServerSends
<1>6. ASSUME NEW c \in Calls, CallStep(c) \/ CancelledFirst(c) PROVE CallsInv'
  <2>0. /\ Kind(c) \in Kinds
        /\ DOMAIN Registers = {"machine", "table", "relays"}
        /\ Subscribers = {"machine", "add", "table", "relays"}
    BY PlanTypes, EventNames DEF CallsInv, Subscribers, Starts
  <2>1. ASSUME Fails(c), at[c] \notin {"never", "new"}, UNCHANGED <<plan, gen, born, conn, reader, cur>>
        PROVE  CallsInv'
    <3>1. PICK to \in {"closing", "failed"} : Goes(c, to)
      BY <2>1 DEF Fails
    <3>2. IsFiniteSet(tracked')
      BY <1>0, <2>1 DEF Fails
    <3>3. to \in Places \ {"never", "new"}
      BY <3>1 DEF Places
    <3>4. QED
      BY <1>0, <2>1, <3>1, <3>2, <3>3, CallsMove
  <2>2. CASE Begin(c)
    <3>1. CASE Reset(c)
      BY <2>0, <2>2, <3>1, CallsReset DEF Begin, Starts
    <3>2. CASE Goes(c, "failed") /\ UNCHANGED <<channelVars, born, waitsOn, history>>
      BY <1>0, <2>2, <3>2, CallsMove DEF Begin, Places
    <3>3. QED
      BY <2>2, <3>1, <3>2 DEF Begin
  <2>3. ASSUME NEW ok \in BOOLEAN, NEW s \in Answers, SendJoin(c, ok, s) PROVE CallsInv'
    <3>1. CASE ok
      <4>1. Goes(c, "look") /\ UNCHANGED <<plan, gen, born, tracked, conn, reader, cur>> /\ at[c] = "send"
        BY <2>3, <3>1 DEF SendJoin
      <4>2. Kind(c) \in Subscribers /\ (Kind(c) \in DOMAIN Registers => born[c] # 0)
        BY <4>1 DEF CallsInv
      <4>3. "look" \in Places \ {"never", "new"}
        BY DEF Places
      <4>4. QED
        BY <1>0, <4>1, <4>2, <4>3, CallsMove
    <3>2. CASE ~ ok
      BY <2>1, <2>3, <3>2 DEF SendJoin
    <3>3. QED
      BY <3>1, <3>2
  <2>4. CASE Look(c)
    <3>1. Goes(c, "wait") /\ UNCHANGED <<plan, gen, born, tracked, conn, reader, cur>> /\ at[c] = "look"
      BY <2>4 DEF Look
    <3>2. Kind(c) \in Subscribers /\ (Kind(c) \in DOMAIN Registers => born[c] # 0)
      BY <3>1 DEF CallsInv
    <3>3. "wait" \in Places \ {"never", "new"}
      BY DEF Places
    <3>4. QED
      BY <1>0, <3>1, <3>2, <3>3, CallsMove
  <2>5. CASE Confirmed(c)
    <3>1. PICK to \in {"track", "register"} : Goes(c, to) /\ (to = "track" <=> Kind(c) = "add")
      BY <2>5 DEF Confirmed
    <3>2. UNCHANGED <<plan, gen, born, tracked, conn, reader, cur>> /\ at[c] = "wait"
      BY <2>5 DEF Confirmed, Take
    <3>3. Kind(c) \in Subscribers /\ (Kind(c) \in DOMAIN Registers => born[c] # 0)
      BY <3>2 DEF CallsInv
    <3>4. to \in Places \ {"never", "new"}
      BY <3>1 DEF Places
    <3>5. QED
      BY <1>0, <2>0, <3>1, <3>2, <3>3, <3>4, CallsMove
  <2>6. CASE Refused(c)
    BY <2>1, <2>6 DEF Refused, Take
  <2>7. CASE TimesOut(c)
    BY <2>1, <2>7 DEF TimesOut
  <2>8. CASE Register(c)
    <3>1. Goes(c, "ok") /\ UNCHANGED <<plan, gen, born, tracked, conn, reader, cur>> /\ at[c] = "register"
      BY <2>8 DEF Register
    <3>2. Kind(c) \in DOMAIN Registers => born[c] # 0
      BY <3>1 DEF CallsInv
    <3>3. "ok" \in Places \ {"never", "new"}
      BY DEF Places
    <3>4. QED
      BY <1>0, <3>1, <3>2, <3>3, CallsMove
  <2>9. CASE AddMachineID(c)
    <3>1. CASE Reset(c)
      BY <2>0, <2>9, <3>1, CallsReset DEF AddMachineID
    <3>2. ASSUME NEW to \in {"track", "failed"}, Goes(c, to), UNCHANGED <<channelVars, born>>
          PROVE  CallsInv'
      <4>1. at[c] = "new" /\ Kind(c) = "add" /\ UNCHANGED <<plan, gen, born, tracked, conn, reader, cur>>
        BY <2>9, <3>2 DEF AddMachineID
      <4>2. to \in Places \ {"never", "new"}
        BY DEF Places
      <4>3. QED
        BY <1>0, <3>2, <4>1, <4>2, CallsMove
    <3>3. QED
      BY <2>9, <3>1, <3>2 DEF AddMachineID
  <2>10. CASE Disconnect(c)
    <3>1. CASE UNCHANGED at
      BY <1>0, <2>10, <3>1, CallsStay DEF Disconnect
    <3>2. ASSUME NEW to \in {"ok", "failed"}, Goes(c, to), conn' = "closed", to = "ok" => Kind(c) = "stop"
          PROVE  CallsInv'
      <4>1. at[c] = "closing" /\ UNCHANGED <<plan, gen, born, tracked, reader, cur>>
        BY <2>10 DEF Disconnect
      <4>2. to \in Places \ {"never", "new"}
        BY DEF Places
      <4>3. QED
        BY <1>0, <2>0, <3>2, <4>1, <4>2, CallsMove
    <3>3. QED
      BY <2>10, <3>1, <3>2 DEF Disconnect
  <2>11. ASSUME NEW to \in {"ok", "failed", "closing"}, Goes(c, to), Kind(c) \in TrackerKinds,
                at[c] # "never", IsFiniteSet(tracked'),
                UNCHANGED <<plan, conn, readerVars, channelVars, born, waitsOn>>
         PROVE  CallsInv'
    <3>1. to \in Places \ {"never", "new"}
      BY DEF Places
    <3>2. QED
      BY <1>0, <2>0, <2>11, <3>1, CallsMove DEF TrackerKinds
  <2>12. ASSUME NEW ok \in BOOLEAN, Track(c, ok) PROVE CallsInv'
    <3>1. at[c] = "track" /\ Kind(c) \in TrackerKinds
      BY <2>12 DEF Track, CallsInv, TrackerKinds
    <3>2. IsFiniteSet(tracked')
      BY <1>0, <2>12, FS_AddElement DEF Track
    <3>3. PICK to \in {"ok", "failed"} : Goes(c, to)
      BY <2>12 DEF Track
    <3>4. UNCHANGED <<plan, conn, readerVars, channelVars, born, waitsOn>>
      BY <2>12 DEF Track, Pushes
    <3>5. QED
      BY <2>11, <3>1, <3>2, <3>3, <3>4
  <2>13. ASSUME NEW ok \in BOOLEAN, RemoveMachineID(c, ok) PROVE CallsInv'
    <3>1. at[c] = "new" /\ Kind(c) \in TrackerKinds /\ Goes(c, "ok")
      BY <2>13 DEF RemoveMachineID, TrackerKinds
    <3>2. IsFiniteSet(tracked')
      BY <1>0, <2>13, FS_RemoveElement DEF RemoveMachineID
    <3>3. UNCHANGED <<plan, conn, readerVars, channelVars, born, waitsOn>>
      BY <2>13 DEF RemoveMachineID, Pushes, PushesNothing
    <3>4. QED
      BY <2>11, <3>1, <3>2, <3>3
  <2>14. ASSUME NEW ok \in BOOLEAN, Stop(c, ok) PROVE CallsInv'
    <3>1. at[c] = "new" /\ Kind(c) \in TrackerKinds
      BY <2>14 DEF Stop, TrackerKinds
    <3>2. IsFiniteSet(tracked')
      BY <2>14, FS_EmptySet DEF Stop
    <3>3. PICK to \in {"ok", "closing"} : Goes(c, to)
      BY <2>14 DEF Stop
    <3>4. UNCHANGED <<plan, conn, readerVars, channelVars, born, waitsOn>>
      BY <2>14 DEF Stop, Pushes, PushesNothing
    <3>5. QED
      BY <2>11, <3>1, <3>2, <3>3, <3>4
  <2>15. CASE CancelledFirst(c)
    BY <2>1, <2>15 DEF CancelledFirst
  <2>16. QED
    BY <1>6, <2>2, <2>3, <2>4, <2>5, <2>6, <2>7, <2>8, <2>9, <2>10, <2>12, <2>13, <2>14, <2>15 DEF CallStep
<1>7. ASSUME UNCHANGED vars PROVE CallsInv'
  BY <1>0, <1>7, CallsStay
<1>8. QED
  BY <1>1, <1>2, <1>3, <1>4, <1>5, <1>6, <1>7 DEF Next

--------------------------------------------------------------------------------
(* Answers.                                                                *)
LEMMA AnswerCounts ==
  ASSUME TypeOK, NEW u \in Topics
  PROVE  /\ Count(<<cur>>, Replies(u)) \in Nat /\ Count(inbox, Replies(u)) \in Nat
         /\ IsFiniteSet(InBuffer(u)) /\ Cardinality(InBuffer(u)) \in Nat
         /\ IsFiniteSet(Orphans(u)) /\ Cardinality(Orphans(u)) \in Nat
<1>1. Count(<<cur>>, Replies(u)) \in Nat
  BY CountOne
<1>2. Count(inbox, Replies(u)) \in Nat
  BY CountFinite DEF TypeOK
<1>3. IsFiniteSet(InBuffer(u))
  <2>1. IsFiniteSet({"ok", "error"})
    <3>1. {"ok", "error"} = {"ok"} \cup {"error"} /\ IsFiniteSet({"ok"})
      BY FS_Singleton
    <3>2. QED
      BY <3>1, FS_AddElement
  <2>2. IsFiniteSet(Gens \X {"ok", "error"})
    BY <2>1, GensFinite, FS_Product
  <2>3. InBuffer(u) \in SUBSET (Gens \X {"ok", "error"})
    BY DEF InBuffer
  <2>4. QED
    BY <2>2, <2>3, FS_Subset
<1>4. IsFiniteSet(Orphans(u))
  BY RealtimeAssumption, FS_Subset DEF Orphans
<1>5. QED
  BY <1>1, <1>2, <1>3, <1>4, FS_CardinalityType

(* Which message is an answer.                                             *)
LEMMA CountMessage ==
  ASSUME NEW u \in Topics
  PROVE  /\ \A m \in Messages :
              Count(<<m>>, Replies(u)) = IF m.event = "phx_reply" /\ m.topic = u THEN 1 ELSE 0
         /\ Count(<<NoMsg>>, Replies(u)) = 0
<1>1. \A m \in Messages : Count(<<m>>, Replies(u)) = IF m.event = "phx_reply" /\ m.topic = u THEN 1 ELSE 0
  BY CountOne, MessageTypes
<1>2. Count(<<NoMsg>>, Replies(u)) = 0
  <2>1. NoMsg \notin Replies(u)
    BY DEF NoMsg, Replies, Reply
  <2>2. QED
    BY <2>1, CountOne
<1>3. QED
  BY <1>1, <1>2

LEMMA CountEvent ==
  ASSUME NEW u \in Topics, NEW t \in Topics, NEW e \in Events
  PROVE  Count(<<Message(t, e)>>, Replies(u)) = 0
<1>1. Message(t, e) \in Messages /\ Message(t, e).event # "phx_reply"
  BY MessageTypes, EventNames DEF Message
<1>2. QED
  BY <1>1, CountMessage

LEMMA CountReply ==
  ASSUME NEW u \in Topics, NEW t \in Topics, NEW s \in {"ok", "error"}
  PROVE  /\ Reply(t, s) \in Replies(u) <=> t = u
         /\ t = u => Count(<<Reply(t, s)>>, Replies(u)) = 1
         /\ t # u => Count(<<Reply(t, s)>>, Replies(u)) = 0
<1>1. Reply(t, s) \in Messages /\ Reply(t, s).event = "phx_reply" /\ Reply(t, s).topic = t
  BY MessageTypes DEF Reply
<1>2. QED
  BY <1>1, CountMessage, MessageTypes

(* An answer that is put into a Go channel, or taken out.                  *)
LEMMA BufferPut ==
  ASSUME TypeOK, NEW t \in Topics, NEW g \in Gens, NEW s \in {"ok", "error"},
         buffer' = [buffer EXCEPT ![t][g] = @ \cup {s}], NEW u \in Topics
  PROVE  Cardinality(InBuffer(u)') =
           Cardinality(InBuffer(u)) + IF u = t /\ s \notin buffer[t][g] THEN 1 ELSE 0
<1>1. /\ buffer \in [Topics -> [Gens -> SUBSET {"ok", "error"}]]
      /\ IsFiniteSet(InBuffer(u)) /\ Cardinality(InBuffer(u)) \in Nat
  BY AnswerCounts DEF TypeOK
<1>2. CASE u = t
  <2>1. \A h \in Gens : buffer'[u][h] = IF h = g THEN buffer[u][h] \cup {s} ELSE buffer[u][h]
    BY <1>1, <1>2
  <2>2. \A b \in Gens \X {"ok", "error"} :
          /\ b[1] \in Gens /\ b[2] \in {"ok", "error"}
          /\ b = <<g, s>> <=> b[1] = g /\ b[2] = s
    OBVIOUS
  <2>3. InBuffer(u)' = InBuffer(u) \cup {<<g, s>>}
    <3>1. \A b \in Gens \X {"ok", "error"} :
            b[2] \in buffer'[u][b[1]] <=> b[2] \in buffer[u][b[1]] \/ b = <<g, s>>
      <4> SUFFICES ASSUME NEW b \in Gens \X {"ok", "error"}
                   PROVE  b[2] \in buffer'[u][b[1]] <=> b[2] \in buffer[u][b[1]] \/ b = <<g, s>>
        OBVIOUS
      <4>1. /\ b[1] \in Gens /\ (b = <<g, s>> <=> b[1] = g /\ b[2] = s)
            /\ buffer'[u][b[1]] = IF b[1] = g THEN buffer[u][b[1]] \cup {s} ELSE buffer[u][b[1]]
        BY <2>1, <2>2
      <4>2. QED
        BY <4>1
    <3>2. QED
      BY <3>1 DEF InBuffer
  <2>4. <<g, s>> \in InBuffer(u) <=> s \in buffer[t][g]
    BY <1>2 DEF InBuffer
  <2>5. Cardinality(InBuffer(u) \cup {<<g, s>>}) =
          IF <<g, s>> \in InBuffer(u) THEN Cardinality(InBuffer(u)) ELSE Cardinality(InBuffer(u)) + 1
    BY <1>1, FS_AddElement, Zenon
  <2>6. QED
    BY <1>1, <1>2, <2>3, <2>4, <2>5
<1>3. CASE u # t
  <2>1. buffer'[u] = buffer[u]
    BY <1>1, <1>3
  <2>2. InBuffer(u)' = InBuffer(u)
    BY <2>1 DEF InBuffer
  <2>3. QED
    BY <1>1, <1>3, <2>2
<1>4. QED
  BY <1>2, <1>3

LEMMA BufferTake ==
  ASSUME TypeOK, NEW t \in Topics, NEW g \in Gens, NEW s \in {"ok", "error"}, s \in buffer[t][g],
         buffer' = [buffer EXCEPT ![t][g] = @ \ {s}], NEW u \in Topics
  PROVE  Cardinality(InBuffer(u)') = Cardinality(InBuffer(u)) - IF u = t THEN 1 ELSE 0
<1>1. /\ buffer \in [Topics -> [Gens -> SUBSET {"ok", "error"}]]
      /\ IsFiniteSet(InBuffer(u)) /\ Cardinality(InBuffer(u)) \in Nat
  BY AnswerCounts DEF TypeOK
<1>2. CASE u = t
  <2>1. \A h \in Gens : buffer'[u][h] = IF h = g THEN buffer[u][h] \ {s} ELSE buffer[u][h]
    BY <1>1, <1>2
  <2>2. InBuffer(u)' = InBuffer(u) \ {<<g, s>>}
    <3>1. \A b \in Gens \X {"ok", "error"} :
            /\ b[1] \in Gens /\ b[2] \in {"ok", "error"}
            /\ b = <<g, s>> <=> b[1] = g /\ b[2] = s
      OBVIOUS
    <3>2. \A b \in Gens \X {"ok", "error"} :
            b[2] \in buffer'[u][b[1]] <=> b[2] \in buffer[u][b[1]] /\ b # <<g, s>>
      <4> SUFFICES ASSUME NEW b \in Gens \X {"ok", "error"}
                   PROVE  b[2] \in buffer'[u][b[1]] <=> b[2] \in buffer[u][b[1]] /\ b # <<g, s>>
        OBVIOUS
      <4>1. /\ b[1] \in Gens /\ (b = <<g, s>> <=> b[1] = g /\ b[2] = s)
            /\ buffer'[u][b[1]] = IF b[1] = g THEN buffer[u][b[1]] \ {s} ELSE buffer[u][b[1]]
        BY <2>1, <3>1
      <4>2. QED
        BY <4>1
    <3>3. QED
      BY <3>2 DEF InBuffer
  <2>3. <<g, s>> \in InBuffer(u)
    BY <1>2 DEF InBuffer
  <2>4. QED
    BY <1>1, <1>2, <2>2, <2>3, FS_RemoveElement
<1>3. CASE u # t
  <2>1. buffer'[u] = buffer[u]
    BY <1>1, <1>3
  <2>2. InBuffer(u)' = InBuffer(u)
    BY <2>1 DEF InBuffer
  <2>3. QED
    BY <1>1, <1>3, <2>2
<1>4. QED
  BY <1>2, <1>3

LEMMA OrphansMove ==
  ASSUME TypeOK, NEW c \in Calls, NEW to, Goes(c, to), plan' = plan, NEW u \in Topics
  PROVE  /\ TopicOf(c) = u /\ to \in {"look", "wait"}
              => Cardinality(Orphans(u)') = Cardinality(Orphans(u)) + IF at[c] \in {"look", "wait"} THEN 0 ELSE 1
         /\ ~ (TopicOf(c) = u /\ to \in {"look", "wait"})
              => Cardinality(Orphans(u)') =
                   Cardinality(Orphans(u)) - IF TopicOf(c) = u /\ at[c] \in {"look", "wait"} THEN 1 ELSE 0
<1>1. /\ IsFiniteSet(Orphans(u)) /\ Cardinality(Orphans(u)) \in Nat
      /\ at \in [Calls -> Places] /\ at' = [at EXCEPT ![c] = to]
  BY AnswerCounts DEF TypeOK, Goes
<1>2. c \in Orphans(u) <=> TopicOf(c) = u /\ at[c] \in {"look", "wait"}
  BY DEF Orphans
<1>3. CASE TopicOf(c) = u /\ to \in {"look", "wait"}
  <2>1. Orphans(u)' = Orphans(u) \cup {c}
    BY <1>1, <1>3 DEF Orphans, TopicOf
  <2>2. Cardinality(Orphans(u) \cup {c}) =
          IF c \in Orphans(u) THEN Cardinality(Orphans(u)) ELSE Cardinality(Orphans(u)) + 1
    BY <1>1, FS_AddElement, Zenon
  <2>3. QED
    BY <1>1, <1>2, <1>3, <2>1, <2>2
<1>4. CASE ~ (TopicOf(c) = u /\ to \in {"look", "wait"})
  <2>1. Orphans(u)' = Orphans(u) \ {c}
    BY <1>1, <1>4 DEF Orphans, TopicOf
  <2>2. QED
    BY <1>1, <1>2, <1>4, <2>1, FS_RemoveElement
<1>5. QED
  BY <1>3, <1>4

LEMMA CountHead ==
  ASSUME NEW M, NEW s \in Seq(M), s # <<>>, NEW P
  PROVE  Count(s, P) = Count(<<Head(s)>>, P) + Count(Tail(s), P)
<1>1. <<Head(s)>> \in Seq(M) /\ Tail(s) \in Seq(M) /\ s = <<Head(s)>> \o Tail(s)
  OBVIOUS
<1>2. Count(<<Head(s)>> \o Tail(s), P) = Count(<<Head(s)>>, P) + Count(Tail(s), P)
  BY <1>1, CountBoth
<1>3. QED
  BY <1>1, <1>2

(* The parts of AnswersInv that a step leaves alone.                       *)
LEMMA AnswersStay ==
  ASSUME NEW u \in Topics
  PROVE  /\ cur' = cur => Count(<<cur>>, Replies(u))' = Count(<<cur>>, Replies(u))
         /\ inbox' = inbox => Count(inbox, Replies(u))' = Count(inbox, Replies(u))
         /\ buffer' = buffer => Cardinality(InBuffer(u)') = Cardinality(InBuffer(u))
         /\ plan' = plan /\ at' = at => Cardinality(Orphans(u)') = Cardinality(Orphans(u))
<1>1. ASSUME cur' = cur PROVE Count(<<cur>>, Replies(u))' = Count(<<cur>>, Replies(u))
  BY <1>1 DEF Count, Replies
<1>2. ASSUME inbox' = inbox PROVE Count(inbox, Replies(u))' = Count(inbox, Replies(u))
  BY <1>2 DEF Count, Replies
<1>3. ASSUME buffer' = buffer PROVE InBuffer(u)' = InBuffer(u)
  BY <1>3 DEF InBuffer
<1>4. ASSUME plan' = plan, at' = at PROVE Orphans(u)' = Orphans(u)
  BY <1>4 DEF Orphans, TopicOf
<1>5. QED
  BY <1>1, <1>2, <1>3, <1>4

(* What the sum is made of, before and after a step.                       *)
LEMMA AnswersSum ==
  ASSUME TypeOK, TypeOK', NEW u \in Topics
  PROVE  /\ Count(<<cur>>, Replies(u)) \in Nat /\ Count(inbox, Replies(u)) \in Nat
         /\ Cardinality(InBuffer(u)) \in Nat /\ Cardinality(Orphans(u)) \in Nat /\ unclaimed[u] \in Nat
         /\ Count(<<cur>>, Replies(u))' \in Nat /\ Count(inbox, Replies(u))' \in Nat
         /\ Cardinality(InBuffer(u)') \in Nat /\ Cardinality(Orphans(u)') \in Nat /\ unclaimed'[u] \in Nat
<1>1. /\ Count(<<cur>>, Replies(u)) \in Nat /\ Count(inbox, Replies(u)) \in Nat
      /\ Cardinality(InBuffer(u)) \in Nat /\ Cardinality(Orphans(u)) \in Nat
  BY AnswerCounts
<1>2. /\ Count(<<cur>>, Replies(u))' \in Nat /\ Count(inbox, Replies(u))' \in Nat
      /\ Cardinality(InBuffer(u)') \in Nat /\ Cardinality(Orphans(u)') \in Nat
  <2>1. (TypeOK => /\ Count(<<cur>>, Replies(u)) \in Nat /\ Count(inbox, Replies(u)) \in Nat
                   /\ Cardinality(InBuffer(u)) \in Nat /\ Cardinality(Orphans(u)) \in Nat)'
    BY AnswerCounts, PTL
  <2>2. QED
    BY <2>1
<1>3. unclaimed[u] \in Nat /\ unclaimed'[u] \in Nat
  BY DEF TypeOK
<1>4. QED
  BY <1>1, <1>2, <1>3

LEMMA AnswersReader ==
  ASSUME TypeOK, TypeOK', CallsInv, AnswersInv, NEW u \in Topics, ReaderStep
  PROVE  Answered(u)' <= unclaimed'[u] + Cardinality(Orphans(u)')
<1> USE DEF netVars, readerVars, channelVars, callVars, trackerVars, serverVars, history
<1> DEFINE C == Count(<<cur>>, Replies(u))
           I == Count(inbox, Replies(u))
           B == Cardinality(InBuffer(u))
           O == Cardinality(Orphans(u))
<1>0. /\ C \in Nat /\ I \in Nat /\ B \in Nat /\ O \in Nat /\ unclaimed[u] \in Nat
      /\ C' \in Nat /\ I' \in Nat /\ B' \in Nat /\ O' \in Nat /\ unclaimed'[u] \in Nat
  BY AnswersSum
<1>1. C + I + B <= unclaimed[u] + O
  BY DEF AnswersInv, Answered
<1>2. /\ (cur' = cur => C' = C) /\ (inbox' = inbox => I' = I) /\ (buffer' = buffer => B' = B)
      /\ O' = O
  <2>1. plan' = plan /\ at' = at
    BY DEF ReaderStep, ReadFails, Read, ReplyGoesIn, HandleReply, HandleClose, HandleError, HandleEvent
  <2>2. QED
    BY <2>1, AnswersStay
<1>3. cur' = NoMsg => C' = 0
  <2>1. ASSUME cur' = NoMsg PROVE C' = Count(<<NoMsg>>, Replies(u))
    BY <2>1 DEF Count, Replies
  <2>2. QED
    BY <2>1, CountMessage
<1>4. ASSUME cur \in Messages, cur.event = "phx_reply", NEW g \in Gens, cur.status \notin buffer[cur.topic][g],
             buffer' = [buffer EXCEPT ![cur.topic][g] = @ \cup {cur.status}]
      PROVE  B' = B + C
  <2>1. cur.topic \in Topics /\ cur.status \in {"ok", "error"}
    BY <1>4, MessageTypes
  <2>2. B' = B + IF u = cur.topic /\ cur.status \notin buffer[cur.topic][g] THEN 1 ELSE 0
    BY <1>4, <2>1, BufferPut
  <2>3. C = IF cur.topic = u THEN 1 ELSE 0
    BY <1>4, CountMessage
  <2> HIDE DEF B, C
  <2>4. QED
    BY <1>0, <1>4, <2>2, <2>3
<1>5. Answered(u)' = C' + I' + B' /\ Cardinality(Orphans(u)') = O'
  BY DEF Answered
<1>6. CASE ReadFails
  <2>1. C' = C /\ I' = I /\ B' = B /\ unclaimed' = unclaimed
    BY <1>2, <1>6 DEF ReadFails
  <2> HIDE DEF C, I, B, O
  <2>2. QED
    BY <1>0, <1>1, <1>2, <1>5, <2>1
<1>7. CASE Read
  <2>1. inbox \in Seq(Messages) /\ inbox # <<>> /\ cur = NoMsg
    BY <1>7 DEF Read, TypeOK
  <2>2. C = 0
    BY <2>1, CountMessage
  <2>3. I = Count(<<Head(inbox)>>, Replies(u)) + Count(Tail(inbox), Replies(u))
    BY <2>1, CountHead
  <2>4. C' = Count(<<Head(inbox)>>, Replies(u)) /\ I' = Count(Tail(inbox), Replies(u))
    BY <1>7 DEF Read, Count, Replies
  <2>5. B' = B /\ unclaimed' = unclaimed
    BY <1>2, <1>7 DEF Read
  <2> HIDE DEF C, I, B, O
  <2>6. QED
    BY <1>0, <1>1, <1>2, <1>5, <2>2, <2>3, <2>4, <2>5
<1>8. CASE HandleReply
  <2>1. /\ cur \in Messages /\ cur.event = "phx_reply" /\ cur.topic \in Topics
        /\ I' = I /\ unclaimed' = unclaimed
    BY <1>2, <1>8, MessageTypes DEF HandleReply, TypeOK
  <2>2. gen[cur.topic] \in Gens
    BY <2>1 DEF TypeOK
  <2>3. CASE cur.status \in buffer[cur.topic][gen[cur.topic]]
    <3>1. C' = C /\ B' = B
      BY <1>2, <1>8, <2>3 DEF HandleReply
    <3> HIDE DEF C, I, B, O
    <3>2. QED
      BY <1>0, <1>1, <1>2, <1>5, <2>1, <3>1
  <2>4. CASE cur.status \notin buffer[cur.topic][gen[cur.topic]]
    <3>1. cur' = NoMsg /\ buffer' = [buffer EXCEPT ![cur.topic][gen[cur.topic]] = @ \cup {cur.status}]
      BY <1>8, <2>4 DEF HandleReply, BackToTop
    <3>2. C' = 0 /\ B' = B + C /\ I' = I /\ O' = O /\ unclaimed'[u] = unclaimed[u]
      BY <1>2, <1>3, <1>4, <2>1, <2>2, <2>4, <3>1
    <3> HIDE DEF C, I, B, O
    <3>3. QED
      BY <1>0, <1>1, <1>5, <3>2
  <2>5. QED
    BY <2>3, <2>4
<1>9. CASE ReplyGoesIn
  <2>1. cur \in Messages /\ cur.event = "phx_reply" /\ stuckIn \in Gens
    BY <1>9 DEF ReplyGoesIn, TypeOK, CallsInv
  <2>2. /\ cur' = NoMsg /\ buffer' = [buffer EXCEPT ![cur.topic][stuckIn] = @ \cup {cur.status}]
        /\ cur.status \notin buffer[cur.topic][stuckIn]
        /\ I' = I /\ unclaimed' = unclaimed
    BY <1>2, <1>9 DEF ReplyGoesIn, BackToTop
  <2>3. C' = 0 /\ B' = B + C
    BY <1>3, <1>4, <2>1, <2>2
  <2> HIDE DEF C, I, B, O
  <2>4. QED
    BY <1>0, <1>1, <1>2, <1>5, <2>2, <2>3
<1>10. CASE HandleClose \/ HandleEvent
  <2>1. C' = 0 /\ I' = I /\ B' = B /\ unclaimed' = unclaimed
    BY <1>2, <1>3, <1>10 DEF HandleClose, HandleEvent, BackToTop
  <2> HIDE DEF C, I, B, O
  <2>2. QED
    BY <1>0, <1>1, <1>2, <1>5, <2>1
<1>11. CASE HandleError
  <2> DEFINE t == cur.topic
             g == gen[t]
  <2>1. t \in Topics
    BY <1>11, MessageTypes DEF HandleError, TypeOK
  <2>2. /\ g \in Gens /\ unclaimed \in [Topics -> Nat]
        /\ buffer' = [buffer EXCEPT ![t][g] = @ \cup {"error"}]
        /\ unclaimed' = IF "error" \in buffer[t][g] THEN unclaimed ELSE [unclaimed EXCEPT ![t] = @ + 1]
        /\ C' = 0 /\ I' = I
    BY <1>2, <1>3, <1>11, <2>1 DEF HandleError, BackToTop, TypeOK
  <2>3. B' = B + IF u = t /\ "error" \notin buffer[t][g] THEN 1 ELSE 0
    BY <2>1, <2>2, BufferPut
  <2>4. unclaimed'[u] = unclaimed[u] + IF u = t /\ "error" \notin buffer[t][g] THEN 1 ELSE 0
    BY <2>1, <2>2
  <2> HIDE DEF C, I, B, O, t, g
  <2>5. QED
    BY <1>0, <1>1, <1>2, <1>5, <2>2, <2>3, <2>4
<1>12. QED
  BY <1>6, <1>7, <1>8, <1>9, <1>10, <1>11 DEF ReaderStep

(* A call that goes to another place.                                      *)
LEMMA OrphansGo ==
  ASSUME TypeOK, NEW c \in Calls, NEW to, Goes(c, to), plan' = plan, NEW u \in Topics
  PROVE  /\ TopicOf(c) # u => Cardinality(Orphans(u)') = Cardinality(Orphans(u))
         /\ (at[c] \in {"look", "wait"} <=> to \in {"look", "wait"})
              => Cardinality(Orphans(u)') = Cardinality(Orphans(u))
         /\ TopicOf(c) = u /\ at[c] \in {"look", "wait"} /\ to \notin {"look", "wait"}
              => Cardinality(Orphans(u)') = Cardinality(Orphans(u)) - 1
         /\ TopicOf(c) = u /\ at[c] \notin {"look", "wait"} /\ to \in {"look", "wait"}
              => Cardinality(Orphans(u)') = Cardinality(Orphans(u)) + 1
<1>1. Cardinality(Orphans(u)) \in Nat
  BY AnswerCounts
<1>2. CASE TopicOf(c) = u /\ to \in {"look", "wait"}
  <2>1. Cardinality(Orphans(u)') = Cardinality(Orphans(u)) + IF at[c] \in {"look", "wait"} THEN 0 ELSE 1
    BY <1>2, OrphansMove
  <2>2. QED
    BY <1>1, <1>2, <2>1
<1>3. CASE ~ (TopicOf(c) = u /\ to \in {"look", "wait"})
  <2>1. Cardinality(Orphans(u)') = Cardinality(Orphans(u)) - IF TopicOf(c) = u /\ at[c] \in {"look", "wait"} THEN 1 ELSE 0
    BY <1>3, OrphansMove
  <2>2. QED
    BY <1>1, <1>3, <2>1
<1>4. QED
  BY <1>2, <1>3

LEMMA OrphansFail ==
  ASSUME TypeOK, NEW c \in Calls, Fails(c), plan' = plan, NEW u \in Topics
  PROVE  /\ TopicOf(c) # u \/ at[c] \notin {"look", "wait"}
              => Cardinality(Orphans(u)') = Cardinality(Orphans(u))
         /\ TopicOf(c) = u /\ at[c] \in {"look", "wait"}
              => Cardinality(Orphans(u)') = Cardinality(Orphans(u)) - 1
<1>1. PICK to \in {"closing", "failed"} : Goes(c, to)
  BY DEF Fails
<1>2. /\ TopicOf(c) # u => Cardinality(Orphans(u)') = Cardinality(Orphans(u))
      /\ (at[c] \in {"look", "wait"} <=> to \in {"look", "wait"})
           => Cardinality(Orphans(u)') = Cardinality(Orphans(u))
      /\ TopicOf(c) = u /\ at[c] \in {"look", "wait"} /\ to \notin {"look", "wait"}
           => Cardinality(Orphans(u)') = Cardinality(Orphans(u)) - 1
  BY <1>1, OrphansGo
<1>3. QED
  BY <1>1, <1>2

(* A push is answered, and nobody waits for the answer.                    *)
LEMMA PushesAnswers ==
  ASSUME TypeOK, NEW t \in Topics, NEW ms, NEW ok \in BOOLEAN, NEW n \in Nat, Pushes(t, ms, ok, n),
         NEW u \in Topics
  PROVE  Count(inbox, Replies(u))' + unclaimed[u] = Count(inbox, Replies(u)) + unclaimed'[u]
<1>1. Count(inbox, Replies(u)) \in Nat /\ unclaimed \in [Topics -> Nat] /\ inbox \in Seq(Messages)
  BY AnswerCounts DEF TypeOK
<1>2. CASE ok /\ conn = "up"
  <2> DEFINE m == Reply(t, IF t \in joined THEN "ok" ELSE "error")
             r == [i \in 1..n |-> m]
  <2>1. m \in Messages /\ (m \in Replies(u) <=> t = u)
    BY MessageTypes, CountReply
  <2>2. inbox' = inbox \o r /\ unclaimed' = [unclaimed EXCEPT ![t] = @ + n]
    BY <1>2 DEF Pushes, Arrives
  <2>3. r \in Seq(Messages)
    <3> HIDE DEF m
    <3>1. QED
      BY <2>1
  <2>4. Count(r, Replies(u)) = IF t = u THEN n ELSE 0
    <3> HIDE DEF m
    <3>1. QED
      BY <2>1, CountSame
  <2> HIDE DEF m, r
  <2>5. Count(inbox \o r, Replies(u)) = Count(inbox, Replies(u)) + Count(r, Replies(u))
    BY <1>1, <2>3, CountBoth
  <2>6. Count(inbox, Replies(u))' = Count(inbox \o r, Replies(u))
    BY <2>2 DEF Count, Replies
  <2>7. unclaimed'[u] = unclaimed[u] + IF t = u THEN n ELSE 0
    BY <1>1, <2>2
  <2>8. QED
    BY <1>1, <2>4, <2>5, <2>6, <2>7
<1>3. CASE ~ (ok /\ conn = "up")
  <2>1. inbox' = inbox /\ unclaimed' = unclaimed
    BY <1>3 DEF Pushes
  <2>2. QED
    BY <2>1, AnswersStay
<1>4. QED
  BY <1>2, <1>3

LEMMA AnswersCall ==
  ASSUME TypeOK, TypeOK', CallsInv, AnswersInv, NEW u \in Topics, NEW c \in Calls,
         CallStep(c) \/ CancelledFirst(c)
  PROVE  Answered(u)' <= unclaimed'[u] + Cardinality(Orphans(u)')
<1> USE DEF netVars, readerVars, channelVars, callVars, trackerVars, serverVars, history
<1> DEFINE t == TopicOf(c)
           C == Count(<<cur>>, Replies(u))
           I == Count(inbox, Replies(u))
           B == Cardinality(InBuffer(u))
           O == Cardinality(Orphans(u))
<1>0. /\ C \in Nat /\ I \in Nat /\ B \in Nat /\ O \in Nat /\ unclaimed[u] \in Nat
      /\ C' \in Nat /\ I' \in Nat /\ B' \in Nat /\ O' \in Nat /\ unclaimed'[u] \in Nat
  BY AnswersSum
<1>1. C + I + B <= unclaimed[u] + O
  BY DEF AnswersInv, Answered
<1>2. t \in Topics /\ plan' = plan /\ C' = C
  <2>1. t \in Topics
    BY PlanTypes DEF CallsInv
  <2>2. plan' = plan /\ cur' = cur
    BY DEF CallStep, CancelledFirst, Begin, SendJoin, Look, Confirmed, Refused, Take, TimesOut, Register,
       AddMachineID, Track, RemoveMachineID, Stop, Pushes, PushesNothing, Disconnect
  <2>3. QED
    BY <2>1, <2>2, AnswersStay
<1>3. /\ (inbox' = inbox => I' = I) /\ (buffer' = buffer => B' = B)
      /\ (at' = at => O' = O)
  BY <1>2, AnswersStay
<1>4. \A to : Goes(c, to) =>
        /\ t # u => O' = O
        /\ (at[c] \in {"look", "wait"} <=> to \in {"look", "wait"}) => O' = O
        /\ t = u /\ at[c] \in {"look", "wait"} /\ to \notin {"look", "wait"} => O' = O - 1
        /\ t = u /\ at[c] \notin {"look", "wait"} /\ to \in {"look", "wait"} => O' = O + 1
  BY <1>2, OrphansGo
<1>5. Fails(c) => /\ t # u \/ at[c] \notin {"look", "wait"} => O' = O
                  /\ t = u /\ at[c] \in {"look", "wait"} => O' = O - 1
  BY <1>2, OrphansFail
<1>6. Answered(u)' = C' + I' + B' /\ Cardinality(Orphans(u)') = O'
  BY DEF Answered
<1> HIDE DEF C, I, B, O, t
<1>7. ASSUME B' = B, I' + unclaimed[u] <= I + unclaimed'[u], O' = O
      PROVE  Answered(u)' <= unclaimed'[u] + Cardinality(Orphans(u)')
  BY <1>0, <1>1, <1>2, <1>6, <1>7
<1>8. ASSUME Reset(c), at[c] = "new", inbox' = inbox
      PROVE  Answered(u)' <= unclaimed'[u] + Cardinality(Orphans(u)')
  <2>1. B' = B /\ I' = I /\ unclaimed' = unclaimed
    BY <1>3, <1>8 DEF Reset
  <2>2. O' = O
    BY <1>0, <1>4, <1>8 DEF Reset
  <2>3. QED
    BY <1>0, <1>7, <2>1, <2>2
<1>9. ASSUME NEW to \in Places \ {"look", "wait"}, Goes(c, to), at[c] \notin {"look", "wait"},
             buffer' = buffer, \/ inbox' = inbox /\ unclaimed' = unclaimed
                               \/ I' + unclaimed[u] = I + unclaimed'[u]
      PROVE  Answered(u)' <= unclaimed'[u] + Cardinality(Orphans(u)')
  <2>1. O' = O
    BY <1>0, <1>4, <1>9
  <2>2. QED
    BY <1>0, <1>3, <1>7, <1>9, <2>1
<1>10. CASE Begin(c)
  BY <1>8, <1>9, <1>10 DEF Begin, Places
<1>11. ASSUME NEW ok \in BOOLEAN, NEW s \in Answers, SendJoin(c, ok, s)
       PROVE  Answered(u)' <= unclaimed'[u] + Cardinality(Orphans(u)')
  <2>0. at[c] = "send" /\ buffer' = buffer /\ unclaimed' = unclaimed /\ B' = B
    BY <1>3, <1>11 DEF SendJoin
  <2>1. CASE ok
    <3>1. O' = O + IF t = u THEN 1 ELSE 0
      BY <1>0, <1>4, <1>11, <2>0, <2>1 DEF SendJoin
    <3>2. CASE conn = "up"
      <4> DEFINE old == IF t \in joined THEN <<Message(t, "phx_close")>> ELSE <<>>
                 new == IF s = "none" THEN <<>> ELSE <<Reply(t, s)>>
      <4>1. inbox' = inbox \o (old \o new)
        BY <1>11, <2>1, <3>2 DEF SendJoin, Arrives, t
      <4>2. Message(t, "phx_close") \in Messages /\ "phx_close" \in Events
        BY <1>2, EventNames, MessageTypes
      <4>3. s # "none" => s \in {"ok", "error"} /\ Reply(t, s) \in Messages
        BY <1>2, MessageTypes DEF Answers
      <4>4. old \in Seq(Messages) /\ new \in Seq(Messages) /\ inbox \in Seq(Messages)
        BY <4>2, <4>3 DEF TypeOK
      <4>5. Count(old, Replies(u)) = 0
        <5>1. Count(<<Message(t, "phx_close")>>, Replies(u)) = 0
          BY <1>2, <4>2, CountEvent
        <5>2. QED
          BY <5>1, CountEmpty
      <4>6. Count(new, Replies(u)) <= IF t = u THEN 1 ELSE 0
        <5>1. CASE s = "none"
          BY <5>1, CountEmpty
        <5>2. CASE s # "none"
          <6>0. t \in Topics /\ s \in {"ok", "error"}
            BY <1>2, <4>3, <5>2
          <6>1. /\ t = u => Count(<<Reply(t, s)>>, Replies(u)) = 1
                /\ t # u => Count(<<Reply(t, s)>>, Replies(u)) = 0
            BY <6>0, CountReply
          <6>2. QED
            BY <5>2, <6>1
        <5>3. QED
          BY <5>1, <5>2
      <4> HIDE DEF old, new
      <4>7. old \o new \in Seq(Messages)
        BY <4>4
      <4>8. Count(old \o new, Replies(u)) = Count(old, Replies(u)) + Count(new, Replies(u))
        BY <4>4, CountBoth
      <4>9. Count(inbox \o (old \o new), Replies(u)) = I + Count(old \o new, Replies(u))
        BY <4>4, <4>7, CountBoth DEF I
      <4>10. I' = Count(inbox \o (old \o new), Replies(u))
        BY <4>1 DEF I, Count, Replies
      <4>11. Count(new, Replies(u)) \in Nat
        BY <4>4, CountFinite
      <4>12. I' <= I + IF t = u THEN 1 ELSE 0
        BY <1>0, <4>5, <4>6, <4>8, <4>9, <4>10, <4>11
      <4>13. QED
        BY <1>0, <1>1, <1>2, <1>6, <2>0, <3>1, <4>12
    <3>3. CASE conn # "up"
      <4>1. I' = I
        BY <1>3, <1>11, <3>3 DEF SendJoin
      <4>2. QED
        BY <1>0, <1>1, <1>2, <1>6, <2>0, <3>1, <4>1
    <3>4. QED
      BY <3>2, <3>3
  <2>2. CASE ~ ok
    <3>1. I' = I /\ O' = O
      BY <1>0, <1>3, <1>5, <1>11, <2>0, <2>2 DEF SendJoin
    <3>2. QED
      BY <1>0, <1>7, <2>0, <3>1
  <2>3. QED
    BY <2>1, <2>2
<1>12. CASE Look(c)
  <2>1. at[c] = "look" /\ Goes(c, "wait") /\ B' = B /\ I' = I /\ unclaimed' = unclaimed
    BY <1>3, <1>12 DEF Look
  <2>2. O' = O
    BY <1>0, <1>4, <2>1
  <2>3. QED
    BY <1>0, <1>7, <2>1, <2>2
<1>13. ASSUME NEW s \in {"ok", "error"}, Take(c, s), Fails(c) \/ \E to \in {"track", "register"} : Goes(c, to)
       PROVE  Answered(u)' <= unclaimed'[u] + Cardinality(Orphans(u)')
  <2>1. at[c] = "wait" /\ I' = I /\ unclaimed' = unclaimed
    BY <1>3, <1>13 DEF Take
  <2>2. O' = O - IF t = u THEN 1 ELSE 0
    BY <1>0, <1>4, <1>5, <1>13, <2>1
  <2>3. B' = B - IF u = t THEN 1 ELSE 0
    <3>1. waitsOn[c] \in Gens
      BY DEF TypeOK
    <3>2. /\ s \in buffer[t][waitsOn[c]]
          /\ buffer' = [buffer EXCEPT ![t][waitsOn[c]] = @ \ {s}]
      BY <1>13 DEF Take, t
    <3>3. QED
      BY <1>2, <3>1, <3>2, BufferTake DEF B
  <2>4. QED
    BY <1>0, <1>1, <1>2, <1>6, <2>1, <2>2, <2>3
<1>14. CASE TimesOut(c)
  <2>1. /\ at[c] = "wait" /\ I' = I /\ B' = B /\ unclaimed' = [unclaimed EXCEPT ![t] = @ + 1]
        /\ unclaimed \in [Topics -> Nat] /\ Fails(c)
    BY <1>3, <1>14 DEF TimesOut, TypeOK, t
  <2>2. unclaimed'[u] = unclaimed[u] + IF t = u THEN 1 ELSE 0
    BY <1>2, <2>1
  <2>3. O' = O - IF t = u THEN 1 ELSE 0
    BY <1>0, <1>5, <2>1
  <2>4. QED
    BY <1>0, <1>1, <1>2, <1>6, <2>1, <2>2, <2>3
<1>15. CASE Register(c)
  BY <1>9, <1>15 DEF Register, Places
<1>16. CASE AddMachineID(c)
  <2>1. at[c] = "new" /\ inbox' = inbox
    BY <1>16 DEF AddMachineID
  <2>2. CASE Reset(c)
    BY <1>8, <2>1, <2>2
  <2>3. ASSUME NEW to \in {"track", "failed"}, Goes(c, to), UNCHANGED <<channelVars, history>>
        PROVE  Answered(u)' <= unclaimed'[u] + Cardinality(Orphans(u)')
    BY <1>9, <2>1, <2>3 DEF Places
  <2>4. QED
    BY <1>16, <2>2, <2>3 DEF AddMachineID
<1>17. CASE Disconnect(c)
  <2>1. at[c] = "closing" /\ buffer' = buffer /\ unclaimed' = unclaimed /\ B' = B
    BY <1>3, <1>17 DEF Disconnect
  <2>2. CASE inbox' = <<>> /\ UNCHANGED at
    <3>1. I' = Count(<<>>, Replies(u))
      BY <2>2 DEF I, Count, Replies
    <3>2. I' = 0 /\ O' = O
      BY <1>3, <2>2, <3>1, CountEmpty
    <3>3. QED
      BY <1>0, <1>7, <2>1, <3>2
  <2>3. ASSUME NEW to \in {"ok", "failed"}, Goes(c, to), UNCHANGED inbox
        PROVE  Answered(u)' <= unclaimed'[u] + Cardinality(Orphans(u)')
    BY <1>9, <2>1, <2>3 DEF Places
  <2>4. QED
    BY <1>17, <2>2, <2>3 DEF Disconnect
<1>18. ASSUME NEW ms, NEW ok \in BOOLEAN, NEW n \in Nat, Pushes(t, ms, ok, n) \/ PushesNothing,
              NEW to \in Places \ {"look", "wait"}, Goes(c, to), at[c] \notin {"look", "wait"}
       PROVE  Answered(u)' <= unclaimed'[u] + Cardinality(Orphans(u)')
  <2>1. CASE Pushes(t, ms, ok, n)
    <3>1. I' + unclaimed[u] = I + unclaimed'[u]
      BY <1>2, <2>1, PushesAnswers DEF I
    <3>2. buffer' = buffer
      BY <2>1 DEF Pushes
    <3>3. QED
      BY <1>9, <1>18, <3>1, <3>2
  <2>2. CASE PushesNothing
    BY <1>9, <1>18, <2>2 DEF PushesNothing
  <2>3. QED
    BY <1>18, <2>1, <2>2
<1>19. ASSUME NEW ok \in BOOLEAN, Track(c, ok)
       PROVE  Answered(u)' <= unclaimed'[u] + Cardinality(Orphans(u)')
  <2>1. PICK to \in {"ok", "failed"} : Goes(c, to)
    BY <1>19 DEF Track
  <2>2. Pushes(t, tracked \cup {MachineOf(c)}, ok, 1) /\ at[c] = "track" /\ to \in Places \ {"look", "wait"}
    BY <1>19 DEF Track, t, Places
  <2>3. QED
    BY <1>18, <2>1, <2>2
<1>20. ASSUME NEW ok \in BOOLEAN, RemoveMachineID(c, ok)
       PROVE  Answered(u)' <= unclaimed'[u] + Cardinality(Orphans(u)')
  <2>1. /\ Pushes(t, tracked \ {MachineOf(c)}, ok, 1) \/ PushesNothing
        /\ at[c] = "new" /\ Goes(c, "ok") /\ "ok" \in Places \ {"look", "wait"}
    BY <1>20 DEF RemoveMachineID, t, Places
  <2>2. QED
    BY <1>18, <2>1
<1>21. ASSUME NEW ok \in BOOLEAN, Stop(c, ok)
       PROVE  Answered(u)' <= unclaimed'[u] + Cardinality(Orphans(u)')
  <2>1. PICK to \in {"ok", "closing"} : Goes(c, to)
    BY <1>21 DEF Stop
  <2>2. Cardinality(tracked) \in Nat
    BY FS_CardinalityType DEF CallsInv
  <2>3. /\ Pushes(t, {}, ok, Cardinality(tracked)) \/ PushesNothing
        /\ at[c] = "new" /\ to \in Places \ {"look", "wait"}
    BY <1>21 DEF Stop, t, Places
  <2>4. QED
    BY <1>18, <2>1, <2>2, <2>3
<1>22. CASE CancelledFirst(c)
  <2>1. at[c] \in {"register", "track"} /\ Fails(c) /\ B' = B /\ I' = I /\ unclaimed' = unclaimed
    BY <1>3, <1>22 DEF CancelledFirst
  <2>2. O' = O
    BY <1>0, <1>5, <2>1
  <2>3. QED
    BY <1>0, <1>7, <2>1, <2>2
<1>23. CASE Confirmed(c)
  BY <1>13, <1>23 DEF Confirmed
<1>24. CASE Refused(c)
  BY <1>13, <1>24 DEF Refused
<1>25. QED
  BY <1>10, <1>11, <1>12, <1>14, <1>15, <1>16, <1>17, <1>19, <1>20, <1>21, <1>22, <1>23, <1>24 DEF CallStep

LEMMA AnswersStep == TypeOK /\ CallsInv /\ AnswersInv /\ [Next]_vars => AnswersInv'
<1> SUFFICES ASSUME TypeOK, CallsInv, AnswersInv, [Next]_vars PROVE AnswersInv'
  OBVIOUS
<1> USE DEF vars, netVars, readerVars, channelVars, callVars, trackerVars, serverVars, history
<1>1. TypeOK'
  BY TypesStep
<1> SUFFICES ASSUME NEW u \in Topics
             PROVE  Answered(u)' <= unclaimed'[u] + Cardinality(Orphans(u)')
  BY DEF AnswersInv
<1> DEFINE C == Count(<<cur>>, Replies(u))
           I == Count(inbox, Replies(u))
           B == Cardinality(InBuffer(u))
           O == Cardinality(Orphans(u))
<1>2. /\ C \in Nat /\ I \in Nat /\ B \in Nat /\ O \in Nat /\ unclaimed[u] \in Nat
      /\ I' \in Nat /\ C + I + B <= unclaimed[u] + O
      /\ Answered(u)' = C' + I' + B' /\ Cardinality(Orphans(u)') = O'
  BY <1>1, AnswersSum DEF AnswersInv, Answered
<1>3. /\ (cur' = cur => C' = C) /\ (inbox' = inbox => I' = I) /\ (buffer' = buffer => B' = B)
      /\ (plan' = plan /\ at' = at => O' = O)
  BY AnswersStay
<1>4. ASSUME UNCHANGED <<cur, buffer, plan, at, unclaimed>>, I' <= I
      PROVE  Answered(u)' <= unclaimed'[u] + Cardinality(Orphans(u)')
  <2>1. C' = C /\ B' = B /\ O' = O
    BY <1>3, <1>4
  <2> HIDE DEF C, I, B, O
  <2>2. QED
    BY <1>2, <1>4, <2>1
<1>5. ASSUME inbox' = <<>> PROVE I' <= I
  <2>1. I' = Count(<<>>, Replies(u))
    BY <1>5 DEF Count, Replies
  <2>2. I' = 0
    BY <2>1, CountEmpty
  <2> HIDE DEF I
  <2>3. QED
    BY <1>2, <2>2
<1>6. ASSUME inbox' = inbox PROVE I' <= I
  <2>1. I' = I
    BY <1>3, <1>6
  <2> HIDE DEF I
  <2>2. QED
    BY <1>2, <2>1
<1>7. ASSUME NEW c \in Calls, NEW e \in Events, ServerSends(c, e) PROVE I' <= I
  <2>1. TopicOf(c) \in Topics /\ inbox \in Seq(Messages) /\ inbox' = inbox \o <<Message(TopicOf(c), e)>>
    BY <1>7, PlanTypes DEF ServerSends, Arrives, TypeOK, CallsInv
  <2>2. <<Message(TopicOf(c), e)>> \in Seq(Messages) /\ Count(<<Message(TopicOf(c), e)>>, Replies(u)) = 0
    BY <2>1, MessageTypes, CountEvent
  <2>3. I' = Count(inbox \o <<Message(TopicOf(c), e)>>, Replies(u))
    BY <2>1 DEF Count, Replies
  <2>4. I' = I + Count(<<Message(TopicOf(c), e)>>, Replies(u))
    BY <2>1, <2>2, <2>3, CountBoth
  <2> HIDE DEF I
  <2>5. QED
    BY <1>2, <2>2, <2>4
<1> HIDE DEF C, I, B, O
<1>8. ASSUME NEW ok \in BOOLEAN, Connect(ok) PROVE Answered(u)' <= unclaimed'[u] + Cardinality(Orphans(u)')
  BY <1>4, <1>6, <1>8 DEF Connect
<1>9. CASE ConnectionLost
  BY <1>4, <1>5, <1>9 DEF ConnectionLost
<1>10. ASSUME NEW c \in Calls, NEW e \in Events, ServerSends(c, e)
       PROVE  Answered(u)' <= unclaimed'[u] + Cardinality(Orphans(u)')
  BY <1>4, <1>7, <1>10 DEF ServerSends
<1>11. CASE UNCHANGED vars
  BY <1>4, <1>6, <1>11
<1>12. CASE ReaderStep
  BY <1>1, <1>12, AnswersReader
<1>13. ASSUME NEW c \in Calls, CallStep(c) \/ CancelledFirst(c)
       PROVE  Answered(u)' <= unclaimed'[u] + Cardinality(Orphans(u)')
  BY <1>1, <1>13, AnswersCall
<1>14. QED
  BY <1>8, <1>9, <1>10, <1>11, <1>12, <1>13 DEF Next

(* A reader that is stuck holds one answer, and the Go channel another.    *)
LEMMA SurplusNeeded == TypeOK /\ CallsInv /\ AnswersInv => StuckNeedsSurplus
<1> SUFFICES ASSUME TypeOK, CallsInv, AnswersInv, StuckForGood
             PROVE  unclaimed[cur.topic] + Cardinality(Orphans(cur.topic)) >= 2
  BY DEF StuckNeedsSurplus
<1> DEFINE t == cur.topic
           C == Count(<<cur>>, Replies(t))
           I == Count(inbox, Replies(t))
           B == Cardinality(InBuffer(t))
           O == Cardinality(Orphans(t))
<1>1. cur \in Messages /\ cur.event = "phx_reply" /\ stuckIn \in Gens
  BY DEF StuckForGood, TypeOK, CallsInv
<1>2. t \in Topics /\ cur.status \in {"ok", "error"}
  BY <1>1, MessageTypes
<1>3. C = 1
  BY <1>1, <1>2, CountMessage
<1>4. IsFiniteSet(InBuffer(t)) /\ B \in Nat /\ I \in Nat /\ O \in Nat /\ unclaimed[t] \in Nat
  BY <1>2, AnswerCounts DEF TypeOK
<1>5. <<stuckIn, cur.status>> \in InBuffer(t)
  BY <1>1, <1>2 DEF StuckForGood, InBuffer
<1>6. B # 0
  BY <1>4, <1>5, FS_EmptySet
<1>7. C + I + B <= unclaimed[t] + O
  BY <1>2 DEF AnswersInv, Answered
<1> HIDE DEF C, I, B, O
<1>8. unclaimed[t] + O >= 2
  BY <1>3, <1>4, <1>6, <1>7
<1>9. QED
  BY <1>8 DEF O

(* No answers are left of a topic where no call waits for one.             *)
LEMMA NoneLeft ==
  ASSUME TypeOK, CallsInv, AnswersInv, NEW t \in Topics, unclaimed[t] = 0, Orphans(t) = {}
  PROVE  /\ \A s \in {"ok", "error"} : ~ Coming(Reply(t, s))
         /\ ~ OkComes(t)
<1> DEFINE C == Count(<<cur>>, Replies(t))
           I == Count(inbox, Replies(t))
           B == Cardinality(InBuffer(t))
<1>1. C \in Nat /\ I \in Nat /\ B \in Nat /\ IsFiniteSet(InBuffer(t))
  BY AnswerCounts
<1>2. C + I + B <= 0
  <2>1. Cardinality(Orphans(t)) = 0
    BY FS_EmptySet
  <2>2. QED
    BY <2>1 DEF AnswersInv, Answered
<1>3. C = 0 /\ I = 0 /\ B = 0
  <2> HIDE DEF C, I, B
  <2>1. QED
    BY <1>1, <1>2
<1>4. InBuffer(t) = {}
  BY <1>1, <1>3, FS_EmptySet
<1>5. \A i \in 1..Len(inbox) : inbox[i] \notin Replies(t)
  BY <1>3, CountFinite DEF TypeOK
<1>6. cur \notin Replies(t)
  BY <1>3, CountOne
<1>7. \A s \in {"ok", "error"} : ~ Coming(Reply(t, s))
  BY <1>5, <1>6 DEF Coming, Within, Replies
<1>8. ~ InSubscribed(t)
  <2> SUFFICES ASSUME NEW g \in Gens, "ok" \in buffer[t][g] PROVE FALSE
    BY DEF InSubscribed
  <2>1. <<g, "ok">> \in InBuffer(t)
    BY DEF InBuffer
  <2>2. QED
    BY <1>4, <2>1
<1>9. QED
  BY <1>7, <1>8 DEF OkComes

--------------------------------------------------------------------------------
(* Where messages come from.                                               *)
LEMMA WithinBoth ==
  ASSUME NEW M, NEW s \in Seq(M), NEW r \in Seq(M), NEW m
  PROVE  Within(s \o r, m) => Within(s, m) \/ Within(r, m)
<1> SUFFICES ASSUME NEW i \in 1..Len(s \o r), (s \o r)[i] = m PROVE Within(s, m) \/ Within(r, m)
  BY DEF Within
<1>1. CASE i \in 1..Len(s)
  BY <1>1 DEF Within
<1>2. CASE i \notin 1..Len(s)
  <2>1. i - Len(s) \in 1..Len(r) /\ r[i - Len(s)] = m
    BY <1>2
  <2>2. QED
    BY <2>1 DEF Within
<1>3. QED
  BY <1>1, <1>2

LEMMA ComingLess ==
  ASSUME TypeOK, NEW m, m # NoMsg,
         \/ cur' \in {cur, NoMsg} /\ inbox' \in {inbox, <<>>}
         \/ Read
  PROVE  Coming(m)' => Coming(m)
<1>1. CASE cur' \in {cur, NoMsg} /\ inbox' \in {inbox, <<>>}
  <2>1. Within(inbox, m)' => Within(inbox, m)
    BY <1>1 DEF Within
  <2>2. QED
    BY <1>1, <2>1 DEF Coming
<1>2. CASE Read
  <2>1. inbox \in Seq(Messages) /\ inbox # <<>> /\ cur' = Head(inbox) /\ inbox' = Tail(inbox)
    BY <1>2 DEF Read, TypeOK
  <2>2. \A i \in 1..Len(inbox') : inbox'[i] = inbox[i + 1] /\ i + 1 \in 1..Len(inbox)
    BY <2>1
  <2>3. cur' = inbox[1] /\ 1 \in 1..Len(inbox)
    BY <2>1
  <2>4. QED
    BY <2>2, <2>3 DEF Coming, Within
<1>3. QED
  BY <1>1, <1>2

LEMMA ComingReader ==
  ASSUME TypeOK, NEW m, m # NoMsg, ReaderStep
  PROVE  Coming(m)' => Coming(m)
<1>1. (cur' \in {cur, NoMsg} /\ inbox' \in {inbox, <<>>}) \/ Read
  BY DEF ReaderStep, ReadFails, ReplyGoesIn, HandleReply, HandleClose, HandleError, HandleEvent, BackToTop,
         netVars
<1>2. QED
  BY <1>1, ComingLess

LEMMA ComingMore ==
  ASSUME TypeOK, NEW m, NEW r \in Seq(Messages), cur' = cur, inbox' = inbox \o r
  PROVE  Coming(m)' => Coming(m) \/ Within(r, m)
<1>1. Within(inbox \o r, m) => Within(inbox, m) \/ Within(r, m)
  BY WithinBoth DEF TypeOK
<1>2. QED
  BY <1>1 DEF Coming, Within

LEMMA ComingServer ==
  ASSUME TypeOK, CallsInv, NEW c \in Calls, NEW e \in Events, ServerSends(c, e), NEW m
  PROVE  Coming(m)' => Coming(m) \/ m = Message(TopicOf(c), e)
<1>1. TopicOf(c) \in Topics /\ <<Message(TopicOf(c), e)>> \in Seq(Messages)
  BY PlanTypes, MessageTypes DEF CallsInv
<1>2. cur' = cur /\ inbox' = inbox \o <<Message(TopicOf(c), e)>>
  BY DEF ServerSends, readerVars, Arrives
<1>3. Coming(m)' => Coming(m) \/ Within(<<Message(TopicOf(c), e)>>, m)
  BY <1>1, <1>2, ComingMore
<1>4. QED
  BY <1>3 DEF Within

LEMMA ComingPushes ==
  ASSUME TypeOK, NEW t \in Topics, NEW ms, NEW ok \in BOOLEAN, NEW n \in Nat, Pushes(t, ms, ok, n), NEW m
  PROVE  Coming(m)' => Coming(m) \/ \E s \in {"ok", "error"} : m = Reply(t, s)
<1>1. CASE ok /\ conn = "up"
  <2> DEFINE x == Reply(t, IF t \in joined THEN "ok" ELSE "error")
             r == [i \in 1..n |-> x]
  <2>1. x \in Messages /\ \E s \in {"ok", "error"} : x = Reply(t, s)
    BY MessageTypes
  <2>2. cur' = cur /\ inbox' = inbox \o r
    BY <1>1 DEF Pushes, Arrives, readerVars
  <2> HIDE DEF x
  <2>3. r \in Seq(Messages)
    BY <2>1
  <2>4. Within(r, m) => m = x
    BY DEF Within
  <2> HIDE DEF r
  <2>5. QED
    BY <2>1, <2>2, <2>3, <2>4, ComingMore
<1>2. CASE ~ (ok /\ conn = "up")
  <2>1. cur' = cur /\ inbox' = inbox
    BY <1>2 DEF Pushes, readerVars
  <2>2. QED
    BY <2>1 DEF Coming, Within
<1>3. QED
  BY <1>1, <1>2

LEMMA ComingJoin ==
  ASSUME TypeOK, CallsInv, NEW c \in Calls, NEW ok \in BOOLEAN, NEW s \in Answers, SendJoin(c, ok, s), NEW m
  PROVE  Coming(m)' => \/ Coming(m)
                       \/ TopicOf(c) \in joined /\ m = Message(TopicOf(c), "phx_close")
                       \/ ok /\ conn = "up" /\ s \in {"ok", "error"} /\ m = Reply(TopicOf(c), s)
<1> DEFINE t == TopicOf(c)
           old == IF t \in joined THEN <<Message(t, "phx_close")>> ELSE <<>>
           new == IF s = "none" THEN <<>> ELSE <<Reply(t, s)>>
<1>1. cur' = cur /\ t \in Topics
  BY PlanTypes DEF SendJoin, readerVars, CallsInv
<1>2. CASE ok /\ conn = "up"
  <2>1. inbox' = inbox \o (old \o new)
    BY <1>2 DEF SendJoin, Arrives
  <2>2. Message(t, "phx_close") \in Messages
    BY <1>1, EventNames, MessageTypes
  <2>3. s # "none" => s \in {"ok", "error"} /\ Reply(t, s) \in Messages
    BY <1>1, MessageTypes DEF Answers
  <2>4. old \in Seq(Messages) /\ new \in Seq(Messages)
    BY <2>2, <2>3
  <2>5. /\ Within(old, m) => t \in joined /\ m = Message(t, "phx_close")
        /\ Within(new, m) => s # "none" /\ m = Reply(t, s)
    BY DEF Within
  <2> HIDE DEF old, new
  <2>6. old \o new \in Seq(Messages)
    BY <2>4
  <2>7. Coming(m)' => Coming(m) \/ Within(old \o new, m)
    BY <1>1, <2>1, <2>6, ComingMore
  <2>8. Within(old \o new, m) => Within(old, m) \/ Within(new, m)
    BY <2>4, WithinBoth
  <2>9. QED
    BY <1>2, <2>3, <2>5, <2>7, <2>8
<1>3. CASE ~ (ok /\ conn = "up")
  <2>1. inbox' = inbox
    BY <1>3 DEF SendJoin
  <2>2. QED
    BY <1>1, <2>1 DEF Coming, Within
<1>4. QED
  BY <1>2, <1>3

LEMMA Distinct ==
  ASSUME NEW t \in Topics, NEW u \in Topics, NEW e \in Events, NEW f \in Events,
         NEW s \in {"ok", "error"}, NEW r \in {"ok", "error"}
  PROVE  /\ Message(t, e) = Message(u, f) <=> t = u /\ e = f
         /\ Reply(t, s) = Reply(u, r) <=> t = u /\ s = r
         /\ Message(t, e) # Reply(u, s) /\ Message(t, e) # NoMsg /\ Reply(t, s) # NoMsg
<1>1. Message(t, e) \in Messages /\ Reply(t, s) \in Messages /\ NoMsg \notin Messages
  BY MessageTypes
<1>2. /\ Message(t, e).topic = t /\ Message(t, e).event = e
      /\ Message(u, f).topic = u /\ Message(u, f).event = f
  BY DEF Message
<1>3. /\ Reply(t, s).topic = t /\ Reply(t, s).status = s
      /\ Reply(u, r).topic = u /\ Reply(u, r).status = r
      /\ Reply(u, s).event = "phx_reply"
  BY DEF Reply
<1>4. e # "phx_reply"
  BY EventNames
<1>5. QED
  BY <1>1, <1>2, <1>3, <1>4

LEMMA ComingCall ==
  ASSUME TypeOK, CallsInv, NEW c \in Calls, CallStep(c) \/ CancelledFirst(c), NEW m, m # NoMsg
  PROVE  Coming(m)' => \/ Coming(m)
                       \/ TopicOf(c) \in joined /\ at[c] = "send" /\ m = Message(TopicOf(c), "phx_close")
                       \/ \E s \in {"ok", "error"} : m = Reply(TopicOf(c), s)
<1>0. TopicOf(c) \in Topics
  BY PlanTypes DEF CallsInv
<1>1. ASSUME NEW ok \in BOOLEAN, NEW s \in Answers, SendJoin(c, ok, s)
      PROVE  Coming(m)' => \/ Coming(m)
                           \/ TopicOf(c) \in joined /\ at[c] = "send" /\ m = Message(TopicOf(c), "phx_close")
                           \/ \E r \in {"ok", "error"} : m = Reply(TopicOf(c), r)
  <2>1. at[c] = "send"
    BY <1>1 DEF SendJoin
  <2>2. QED
    BY <1>1, <2>1, ComingJoin
<1>2. ASSUME NEW ms, NEW ok \in BOOLEAN, NEW n \in Nat, Pushes(TopicOf(c), ms, ok, n)
      PROVE  Coming(m)' => Coming(m) \/ \E s \in {"ok", "error"} : m = Reply(TopicOf(c), s)
  BY <1>0, <1>2, ComingPushes
<1>3. ASSUME cur' = cur, inbox' \in {inbox, <<>>} PROVE Coming(m)' => Coming(m)
  BY <1>3, ComingLess
<1>4. ASSUME NEW ok \in BOOLEAN, Track(c, ok) \/ RemoveMachineID(c, ok) \/ Stop(c, ok)
      PROVE  Coming(m)' => Coming(m) \/ \E s \in {"ok", "error"} : m = Reply(TopicOf(c), s)
  <2>1. Cardinality(tracked) \in Nat
    BY FS_CardinalityType DEF CallsInv
  <2>2. (\E ms, n : n \in Nat /\ Pushes(TopicOf(c), ms, ok, n)) \/ PushesNothing
    BY <1>4, <2>1 DEF Track, RemoveMachineID, Stop
  <2>3. QED
    BY <1>2, <1>3, <2>2 DEF PushesNothing, netVars, readerVars
<1>5. ASSUME \/ Begin(c) \/ Look(c) \/ Confirmed(c) \/ Refused(c) \/ TimesOut(c) \/ Register(c)
             \/ AddMachineID(c) \/ Disconnect(c) \/ CancelledFirst(c)
      PROVE  Coming(m)' => Coming(m)
  <2>1. cur' = cur /\ inbox' \in {inbox, <<>>}
    BY <1>5 DEF Begin, Look, Confirmed, Refused, Take, TimesOut, Register, AddMachineID, Disconnect,
                CancelledFirst, netVars, readerVars
  <2>2. QED
    BY <1>3, <2>1
<1>6. QED
  BY <1>1, <1>4, <1>5 DEF CallStep

(* An error of a channel is the server's own.                              *)
LEMMA ErrorsStep == TypeOK /\ CallsInv /\ ErrorsInv /\ [Next]_vars => ErrorsInv'
<1> SUFFICES ASSUME TypeOK, CallsInv, ErrorsInv, [Next]_vars, NEW t \in Topics,
                    Coming(Message(t, "phx_error"))'
             PROVE  t \in broken'
  BY DEF ErrorsInv
<1> USE DEF vars, netVars, readerVars, channelVars, callVars, trackerVars, serverVars, history
<1> DEFINE m == Message(t, "phx_error")
<1>1. /\ m # NoMsg /\ "phx_error" \in Events /\ "phx_close" \in Events
      /\ \A u \in Topics, e \in Events : m = Message(u, e) => u = t /\ e = "phx_error"
      /\ \A u \in Topics, s \in {"ok", "error"} : m # Reply(u, s)
  <2>1. "phx_error" \in Events /\ "phx_close" \in Events
    BY EventNames
  <2>2. QED
    BY <2>1, Distinct
<1>2. Coming(m)'
  OBVIOUS
<1> HIDE DEF m
<1>3. ASSUME Coming(m), broken \subseteq broken' PROVE t \in broken'
  BY <1>3 DEF ErrorsInv, m
<1>4. CASE cur' = cur /\ inbox' \in {inbox, <<>>} /\ broken' = broken
  BY <1>1, <1>2, <1>3, <1>4, ComingLess
<1>5. CASE ReaderStep
  <2>1. broken' = broken
    BY <1>5 DEF ReaderStep, ReadFails, Read, ReplyGoesIn, HandleReply, HandleClose, HandleError, HandleEvent
  <2>2. QED
    BY <1>1, <1>2, <1>3, <1>5, <2>1, ComingReader
<1>6. ASSUME NEW c \in Calls, NEW e \in Events, ServerSends(c, e) PROVE t \in broken'
  <2>1. TopicOf(c) \in Topics
    BY PlanTypes DEF CallsInv
  <2>2. Coming(m) \/ m = Message(TopicOf(c), e)
    BY <1>2, <1>6, ComingServer
  <2>3. broken \subseteq broken'
    BY <1>6 DEF ServerSends
  <2>4. CASE m = Message(TopicOf(c), e)
    <3>1. TopicOf(c) = t /\ e = "phx_error"
      BY <1>1, <2>1, <2>4
    <3>2. \A k \in DOMAIN Sends : Sends[k] # "phx_error"
      BY EventNames
    <3>3. QED
      BY <1>6, <3>1, <3>2 DEF ServerSends
  <2>5. QED
    BY <1>3, <2>2, <2>3, <2>4
<1>7. ASSUME NEW c \in Calls, CallStep(c) \/ CancelledFirst(c) PROVE t \in broken'
  <2>1. TopicOf(c) \in Topics
    BY PlanTypes DEF CallsInv
  <2>2. broken' = broken
    BY <1>7 DEF CallStep, CancelledFirst, Begin, SendJoin, Look, Confirmed, Refused, Take, TimesOut, Register,
       AddMachineID, Track, RemoveMachineID, Stop, Pushes, PushesNothing, Disconnect
  <2>3. Coming(m)
    BY <1>1, <1>2, <1>7, <2>1, ComingCall
  <2>4. QED
    BY <1>3, <2>2, <2>3
<1>8. ASSUME NEW ok \in BOOLEAN, Connect(ok) PROVE t \in broken'
  BY <1>4, <1>8 DEF Connect
<1>9. CASE ConnectionLost
  BY <1>4, <1>9 DEF ConnectionLost
<1>10. CASE UNCHANGED vars
  BY <1>4, <1>10
<1>11. QED
  BY <1>5, <1>6, <1>7, <1>8, <1>9, <1>10 DEF Next

--------------------------------------------------------------------------------
(* Calls that have subscribed.                                             *)

(* A client of the listeners has no call of the presence tracker.          *)
LEMMA OtherClient ==
  ASSUME CallsInv, NEW c \in Calls, Kind(c) \in DOMAIN Registers
  PROVE  \A d \in Calls : Kind(d) \notin TrackerKinds /\ Kind(d) \in Starts \cup {"machine", "never"}
<1>1. Kind(c) \notin TrackerKinds /\ Kind(c) # "never"
  BY EventNames DEF TrackerKinds
<1>2. \A d \in Calls : Kind(d) \notin TrackerKinds /\ Kind(d) \in Kinds
  BY <1>1, PlanTypes DEF CallsInv
<1>3. QED
  BY <1>2 DEF TrackerKinds, Kinds, Starts

(* An answer gets into a Go channel only from the reader.                  *)
LEMMA SubscribedFrom ==
  ASSUME TypeOK, CallsInv, NEW t \in Topics, ReaderStep, InSubscribed(t)'
  PROVE  InSubscribed(t) \/ (cur = Reply(t, "ok") /\ (HandleReply \/ ReplyGoesIn))
<1> USE DEF netVars, readerVars, channelVars, callVars, trackerVars, serverVars, history
<1>1. ASSUME buffer' = buffer PROVE InSubscribed(t)
  BY <1>1 DEF InSubscribed
<1>2. ASSUME cur \in Messages, cur.event = "phx_reply", NEW g \in Gens,
             buffer' = [buffer EXCEPT ![cur.topic][g] = @ \cup {cur.status}], cur # Reply(t, "ok")
      PROVE  InSubscribed(t)
  <2>1. cur.topic \in Topics /\ cur = Reply(cur.topic, cur.status)
    BY <1>2, MessageTypes
  <2>2. PICK h \in Gens : "ok" \in buffer'[t][h]
    BY DEF InSubscribed
  <2>3. "ok" \in buffer[t][h]
    <3>1. CASE cur.topic # t
      BY <1>2, <2>1, <2>2, <3>1 DEF TypeOK
    <3>2. CASE cur.topic = t
      <4>1. cur.status # "ok"
        BY <1>2, <2>1, <3>2
      <4>2. buffer'[t][h] \subseteq buffer[t][h] \cup {cur.status}
        BY <1>2, <2>1, <3>2 DEF TypeOK
      <4>3. QED
        BY <2>2, <4>1, <4>2
    <3>3. QED
      BY <3>1, <3>2
  <2>4. QED
    BY <2>3 DEF InSubscribed
<1>3. CASE HandleReply
  <2>1. cur \in Messages /\ cur.event = "phx_reply" /\ gen[cur.topic] \in Gens
    BY <1>3, MessageTypes DEF HandleReply, TypeOK
  <2>2. \/ buffer' = buffer
        \/ buffer' = [buffer EXCEPT ![cur.topic][gen[cur.topic]] = @ \cup {cur.status}]
    BY <1>3 DEF HandleReply
  <2>3. QED
    BY <1>1, <1>2, <1>3, <2>1, <2>2
<1>4. CASE ReplyGoesIn
  <2>1. cur \in Messages /\ cur.event = "phx_reply" /\ stuckIn \in Gens
    BY <1>4 DEF ReplyGoesIn, TypeOK, CallsInv
  <2>2. buffer' = [buffer EXCEPT ![cur.topic][stuckIn] = @ \cup {cur.status}]
    BY <1>4 DEF ReplyGoesIn
  <2>3. QED
    BY <1>2, <1>4, <2>1, <2>2
<1>5. CASE HandleError
  <2>1. cur.topic \in Topics /\ gen[cur.topic] \in Gens
    BY <1>5, MessageTypes DEF HandleError, TypeOK
  <2>2. \A h \in Gens : "ok" \in buffer'[t][h] => "ok" \in buffer[t][h]
    BY <1>5, <2>1 DEF HandleError, TypeOK
  <2>3. QED
    BY <2>2 DEF InSubscribed
<1>6. CASE ReadFails \/ Read \/ HandleClose \/ HandleEvent
  BY <1>1, <1>6 DEF ReadFails, Read, HandleClose, HandleEvent
<1>7. QED
  BY <1>3, <1>4, <1>5, <1>6 DEF ReaderStep

LEMMA SubscribedReader ==
  ASSUME TypeOK, CallsInv, NEW t \in Topics, ReaderStep
  PROVE  OkComes(t)' => OkComes(t)
<1>1. Reply(t, "ok") # NoMsg
  BY MessageTypes
<1>2. Coming(Reply(t, "ok"))' => Coming(Reply(t, "ok"))
  BY <1>1, ComingReader
<1>3. InSubscribed(t)' => InSubscribed(t) \/ cur = Reply(t, "ok")
  BY SubscribedFrom
<1>4. QED
  BY <1>2, <1>3 DEF OkComes, Coming

(* A call takes from the Go channels and never puts anything in.           *)
LEMMA SubscribedCall ==
  ASSUME TypeOK, CallsInv, NEW d \in Calls, CallStep(d) \/ CancelledFirst(d), NEW t \in Topics
  PROVE  InSubscribed(t)' => InSubscribed(t)
<1> USE DEF netVars, readerVars, channelVars, callVars, trackerVars, serverVars, history
<1>1. ASSUME buffer' = buffer PROVE InSubscribed(t)' => InSubscribed(t)
  BY <1>1 DEF InSubscribed
<1>2. ASSUME NEW s, Take(d, s) PROVE InSubscribed(t)' => InSubscribed(t)
  <2>1. TopicOf(d) \in Topics /\ waitsOn[d] \in Gens
    BY PlanTypes DEF CallsInv, TypeOK
  <2>2. \A g \in Gens : buffer'[t][g] \subseteq buffer[t][g]
    BY <1>2, <2>1 DEF Take, TypeOK
  <2>3. QED
    BY <2>2 DEF InSubscribed
<1>3. buffer' = buffer \/ \E s : Take(d, s)
  BY DEF CallStep, CancelledFirst, Begin, Reset, SendJoin, Look, Confirmed, Refused, TimesOut, Register,
     AddMachineID, Track, RemoveMachineID, Stop, Pushes, PushesNothing, Disconnect
<1>4. QED
  BY <1>1, <1>2, <1>3

(* What a step leaves of a call that nothing has disturbed.                *)
LEMMA Undisturbs ==
  ASSUME TypeOK, CallsInv, [Next]_vars
  PROVE  /\ plan' = plan /\ crossed \subseteq crossed' /\ broken \subseteq broken'
         /\ conn' \in {"none", "up"} => conn \in {"none", "up"}
         /\ UNCHANGED <<gen, born>> \/ \E d \in Calls : at[d] = "new" /\ Reset(d)
<1> USE DEF vars, netVars, readerVars, channelVars, callVars, trackerVars, serverVars, history
<1>1. CASE ReaderStep
  BY <1>1 DEF ReaderStep, ReadFails, Read, HandleReply, ReplyGoesIn, HandleClose, HandleError, HandleEvent
<1>2. ASSUME NEW ok \in BOOLEAN, Connect(ok)
      PROVE  /\ UNCHANGED <<plan, crossed, broken, gen, born>>
             /\ conn' \in {"none", "up"} => conn \in {"none", "up"}
  BY <1>2 DEF Connect
<1>3. CASE ConnectionLost
  BY <1>3 DEF ConnectionLost
<1>4. ASSUME NEW c \in Calls, NEW e \in Events, ServerSends(c, e)
      PROVE  UNCHANGED <<plan, crossed, conn, gen, born>> /\ broken \subseteq broken'
  BY <1>4 DEF ServerSends
<1>5. ASSUME NEW c \in Calls, CallStep(c) \/ CancelledFirst(c)
      PROVE  /\ plan' = plan /\ crossed \subseteq crossed' /\ broken' = broken
             /\ conn' \in {"none", "up"} => conn \in {"none", "up"}
             /\ UNCHANGED <<gen, born>> \/ (at[c] = "new" /\ Reset(c))
  <2>1. plan' = plan /\ broken' = broken /\ (conn' = conn \/ Disconnect(c))
    BY <1>5 DEF CallStep, CancelledFirst, Begin, SendJoin, Look, Confirmed, Refused, Take, TimesOut,
       Register, AddMachineID, Track, RemoveMachineID, Stop, Pushes, PushesNothing, Disconnect
  <2>2. UNCHANGED <<gen, born, crossed>> \/ (at[c] = "new" /\ Reset(c))
    BY <1>5 DEF CallStep, CancelledFirst, Begin, SendJoin, Look, Confirmed, Refused, Take, TimesOut,
       Register, AddMachineID, Track, RemoveMachineID, Stop, Pushes, PushesNothing, Disconnect
  <2>3. Reset(c) => crossed \subseteq crossed'
    BY DEF Reset
  <2>4. Disconnect(c) => conn' \notin {"none", "up"}
    BY DEF Disconnect
  <2>5. QED
    BY <2>1, <2>2, <2>3, <2>4
<1>6. CASE UNCHANGED vars
  BY <1>6
<1>7. QED
  BY <1>1, <1>2, <1>3, <1>4, <1>5, <1>6 DEF Next

LEMMA UndisturbedBefore ==
  ASSUME TypeOK, CallsInv, [Next]_vars, NEW c \in Calls, Undisturbed(c)'
  PROVE  \/ Undisturbed(c) /\ gen'[TopicOf(c)] = gen[TopicOf(c)]
         \/ at[c] = "new" /\ Reset(c)
<1> DEFINE t == TopicOf(c)
<1>1. /\ plan' = plan /\ crossed \subseteq crossed' /\ broken \subseteq broken'
      /\ conn' \in {"none", "up"} => conn \in {"none", "up"}
  BY Undisturbs
<1>2. /\ Kind(c) \in DOMAIN Registers /\ born'[c] # 0 /\ gen'[t] = born'[c]
      /\ t \notin crossed' \cup broken' /\ conn' \in {"none", "up"}
  BY <1>1 DEF Undisturbed, Kind, TopicOf
<1>3. /\ t \in Topics /\ gen[t] \in Nat /\ born[c] \in Nat /\ born[c] <= gen[t]
  BY PlanTypes, GensFinite DEF CallsInv, TypeOK
<1>4. CASE UNCHANGED <<gen, born>>
  BY <1>1, <1>2, <1>4 DEF Undisturbed
<1>5. ASSUME NEW d \in Calls, at[d] = "new", Reset(d), d # c
      PROVE  Undisturbed(c) /\ gen'[t] = gen[t]
  <2>1. /\ born'[c] = born[c]
        /\ gen' = [gen EXCEPT ![TopicOf(d)] = @ + 1]
    BY <1>5 DEF Reset, TypeOK
  <2>2. CASE TopicOf(d) = t
    <3>1. gen'[t] = gen[t] + 1
      BY <1>3, <2>1, <2>2 DEF TypeOK
    <3>2. QED
      BY <1>2, <1>3, <2>1, <3>1
  <2>3. CASE TopicOf(d) # t
    <3>1. gen'[t] = gen[t]
      BY <1>3, <2>1, <2>3 DEF TypeOK
    <3>2. QED
      BY <1>1, <1>2, <2>1, <3>1 DEF Undisturbed
  <2>4. QED
    BY <2>2, <2>3
<1>6. QED
  BY <1>4, <1>5, Undisturbs

(* A step leaves what is heard of a call as it was, when it leaves its     *)
(* topic alone.                                                            *)
LEMMA HeardFrame ==
  ASSUME NEW c \in Calls, Heard(c), plan' = plan, at'[c] = at[c], NEW t \in Topics, TopicOf(c) = t,
         Waiting(t)' \subseteq Waiting(t), unclaimed'[t] = unclaimed[t], handlers'[t] = handlers[t],
         t \in joined => t \in joined', OkComes(t)' => OkComes(t)
  PROVE  Heard(c)'
<1>1. TopicOf(c)' = t
  BY DEF TopicOf
<1>2. QED
  BY <1>1 DEF Heard

LEMMA HeardReader ==
  ASSUME TypeOK, CallsInv, ErrorsInv, NEW c \in Calls, Undisturbed(c), Heard(c), ReaderStep
  PROVE  Heard(c)'
<1> USE DEF netVars, readerVars, channelVars, callVars, trackerVars, serverVars, history
<1>1. PICK t \in Topics : TopicOf(c) = t
  BY PlanTypes DEF CallsInv
<1>2. UNCHANGED <<plan, at, handlers, joined>>
  BY DEF ReaderStep, ReadFails, Read, HandleReply, ReplyGoesIn, HandleClose, HandleError, HandleEvent
<1>3. OkComes(t)' => OkComes(t)
  BY <1>1, SubscribedReader
<1>4. unclaimed'[t] = unclaimed[t]
  <2>1. CASE HandleError
    <3>1. cur \in Messages /\ cur.topic \in Topics /\ cur = Message(cur.topic, "phx_error")
      BY <2>1, MessageTypes DEF HandleError, TypeOK
    <3>2. cur.topic \in broken
      BY <3>1 DEF ErrorsInv, Coming
    <3>3. cur.topic # t
      BY <1>1, <3>2 DEF Undisturbed
    <3>4. QED
      BY <1>1, <2>1, <3>1, <3>3 DEF HandleError, TypeOK
  <2>2. CASE ~ HandleError
    BY <2>2 DEF ReaderStep, ReadFails, Read, HandleReply, ReplyGoesIn, HandleClose, HandleEvent
  <2>3. QED
    BY <2>1, <2>2
<1>5. Waiting(t)' \subseteq Waiting(t)
  BY <1>2 DEF Waiting, TopicOf
<1>6. QED
  BY <1>1, <1>2, <1>3, <1>4, <1>5, HeardFrame

(* A call on another channel.                                              *)
LEMMA HeardElsewhere ==
  ASSUME TypeOK, CallsInv, NEW c \in Calls, Heard(c), NEW d \in Calls, TopicOf(d) # TopicOf(c),
         CallStep(d) \/ CancelledFirst(d)
  PROVE  Heard(c)'
<1> USE DEF netVars, readerVars, channelVars, callVars, trackerVars, serverVars, history
<1>0. PICK t \in Topics : TopicOf(c) = t
  BY PlanTypes DEF CallsInv
<1>1. t \in Topics /\ TopicOf(d) \in Topics /\ TopicOf(d) # t
  BY <1>0, PlanTypes DEF CallsInv
<1>2. plan' = plan
  BY DEF CallStep, CancelledFirst, Begin, SendJoin, Look, Confirmed, Refused, Take, TimesOut, Register,
     AddMachineID, Track, RemoveMachineID, Stop, Pushes, PushesNothing, Disconnect
<1>3. OkComes(t)' => OkComes(t)
  <2>1. /\ Reply(t, "ok") # NoMsg /\ Reply(t, "ok") # Message(TopicOf(d), "phx_close")
        /\ \A s \in {"ok", "error"} : Reply(t, "ok") # Reply(TopicOf(d), s)
    BY <1>1, EventNames, Distinct
  <2>2. Coming(Reply(t, "ok"))' => Coming(Reply(t, "ok"))
    BY <2>1, ComingCall
  <2>3. InSubscribed(t)' => InSubscribed(t)
    BY <1>1, SubscribedCall
  <2>4. QED
    BY <2>2, <2>3 DEF OkComes
<1>4. \A e \in Calls : e # d => at'[e] = at[e]
  <2>1. at' = at \/ \E to : at' = [at EXCEPT ![d] = to]
    BY DEF CallStep, CancelledFirst, Begin, Reset, SendJoin, Look, Confirmed, Refused, Take, TimesOut, Register,
       AddMachineID, Track, RemoveMachineID, Stop, Pushes, PushesNothing, Disconnect, Goes, Fails
  <2>2. QED
    BY <2>1 DEF TypeOK
<1>5. at'[c] = at[c] /\ Waiting(t)' \subseteq Waiting(t)
  <2>1. c # d
    BY <1>0, <1>1
  <2>2. \A e \in Calls : TopicOf(e)' = TopicOf(e)
    BY <1>2 DEF TopicOf
  <2>3. QED
    BY <1>1, <1>4, <2>1, <2>2 DEF Waiting
<1>6. handlers'[t] = handlers[t]
  <2>1. handlers' = handlers \/ \E h : handlers' = [handlers EXCEPT ![TopicOf(d)] = h]
    BY DEF CallStep, CancelledFirst, Begin, Reset, SendJoin, Look, Confirmed, Refused, Take, TimesOut, Register,
       AddMachineID, Track, RemoveMachineID, Stop, Pushes, PushesNothing, Disconnect
  <2>2. QED
    BY <1>1, <2>1 DEF TypeOK
<1>7. unclaimed'[t] = unclaimed[t]
  <2>1. unclaimed' = unclaimed \/ \E n : unclaimed' = [unclaimed EXCEPT ![TopicOf(d)] = n]
    BY DEF CallStep, CancelledFirst, Begin, Reset, SendJoin, Look, Confirmed, Refused, Take, TimesOut, Register,
       AddMachineID, Track, RemoveMachineID, Stop, Pushes, PushesNothing, Disconnect
  <2>2. QED
    BY <1>1, <2>1 DEF TypeOK
<1>8. t \in joined => t \in joined'
  BY <1>1 DEF CallStep, CancelledFirst, Begin, SendJoin, Look, Confirmed, Refused, Take, TimesOut, Register,
     AddMachineID, Track, RemoveMachineID, Stop, Pushes, PushesNothing, Disconnect
<1>9. QED
  BY <1>0, <1>2, <1>3, <1>5, <1>6, <1>7, <1>8, HeardFrame

(* Another call on the same channel: while one waits there or is listened  *)
(* to, a second one would subscribe first, which replaces the generation.  *)
LEMMA HeardAlone ==
  ASSUME TypeOK, CallsInv, NEW c \in Calls, Undisturbed(c), Heard(c), NEW d \in Calls, d # c,
         TopicOf(d) = TopicOf(c), CallStep(d) \/ CancelledFirst(d), conn' \in {"none", "up"}
  PROVE  at[d] = "new" /\ Reset(d)
<1>1. Kind(d) \notin TrackerKinds
  BY OtherClient DEF Undisturbed
<1>2. at[d] \notin {"send", "look", "wait", "register"}
  BY DEF Heard, Waiting
<1>3. at[d] # "track"
  BY <1>1 DEF CallsInv, TrackerKinds
<1>4. conn \in {"none", "up"}
  BY DEF Undisturbed
<1>5. CASE Begin(d)
  BY <1>4, <1>5 DEF Begin
<1>6. CASE Disconnect(d)
  BY <1>6 DEF Disconnect
<1>7. ~ Begin(d) /\ ~ Disconnect(d) => FALSE
  BY <1>1, <1>2, <1>3 DEF CallStep, CancelledFirst, SendJoin, Look, Confirmed, Refused, Take, TimesOut, Register,
     AddMachineID, Track, RemoveMachineID, Stop, TrackerKinds
<1>8. QED
  BY <1>5, <1>6, <1>7

(* The call itself.                                                        *)
LEMMA HeardItself ==
  ASSUME TypeOK, CallsInv, AnswersInv, NEW c \in Calls, Undisturbed(c), Heard(c),
         CallStep(c) \/ CancelledFirst(c), conn' \in {"none", "up"}
  PROVE  Heard(c)'
<1> USE DEF netVars, readerVars, channelVars, callVars, trackerVars, serverVars, history
<1>1. PICK t \in Topics : TopicOf(c) = t
  BY PlanTypes DEF CallsInv
<1>2. /\ Kind(c) \notin TrackerKinds /\ Kind(c) \in Starts \cup {"machine", "never"} /\ at[c] # "new"
      /\ at[c] # "track" /\ conn \in {"none", "up"}
  BY OtherClient DEF Undisturbed, CallsInv, TrackerKinds
<1>3. /\ Waiting(t) \subseteq {c}
      /\ at[c] \in {"send", "look", "wait"} => unclaimed[t] = 0 /\ handlers[t] = {}
      /\ at[c] \in {"look", "wait"} /\ OkComes(t) => t \in joined
      /\ at[c] = "register" => t \in joined /\ handlers[t] = {}
  BY <1>1 DEF Heard
<1>4. ASSUME NEW to, Goes(c, to), plan' = plan
      PROVE  /\ TopicOf(c)' = t /\ at'[c] = to /\ Waiting(t)' \subseteq {c}
  <2>1. /\ at' = [at EXCEPT ![c] = to] /\ at \in [Calls -> Places]
        /\ \A e \in Calls : TopicOf(e)' = TopicOf(e)
    BY <1>4 DEF Goes, TypeOK, TopicOf
  <2>2. QED
    BY <1>1, <1>3, <2>1 DEF Waiting
<1>5. ASSUME Fails(c), plan' = plan PROVE Heard(c)'
  <2>1. PICK to \in {"closing", "failed"} : Goes(c, to)
    BY <1>5 DEF Fails
  <2>2. TopicOf(c)' = t /\ at'[c] = to /\ Waiting(t)' \subseteq {c}
    BY <1>4, <1>5, <2>1
  <2>3. QED
    BY <2>1, <2>2 DEF Heard
<1>6. ASSUME NEW ok \in BOOLEAN, NEW s \in Answers, SendJoin(c, ok, s) PROVE Heard(c)'
  <2>0. at[c] = "send" /\ UNCHANGED <<plan, buffer, unclaimed, handlers>>
    BY <1>6 DEF SendJoin
  <2>1. CASE ~ ok
    BY <1>5, <1>6, <2>0, <2>1 DEF SendJoin
  <2>2. CASE ok
    <3>1. Goes(c, "look") /\ conn = "up"
      BY <1>2, <1>6, <2>2 DEF SendJoin, Sent
    <3>2. /\ TopicOf(c)' = t /\ at'[c] = "look" /\ Waiting(t)' \subseteq {c}
      BY <1>4, <2>0, <3>1
    <3>3. OkComes(t)' => t \in joined'
      <4>1. Orphans(t) = {}
        BY <1>1, <1>3, <2>0 DEF Orphans, Waiting
      <4>2. ~ Coming(Reply(t, "ok")) /\ ~ OkComes(t)
        BY <1>3, <2>0, <4>1, NoneLeft
      <4>3. ~ InSubscribed(t)'
        BY <2>0, <4>2 DEF OkComes, InSubscribed
      <4>4. Coming(Reply(t, "ok"))' => s = "ok"
        <5>1. \A r \in {"ok", "error"} :
                 Reply(t, "ok") # Message(t, "phx_close") /\ (Reply(t, "ok") = Reply(t, r) => r = "ok")
          BY EventNames, Distinct
        <5>2. Coming(Reply(t, "ok"))' =>
                 \/ Coming(Reply(t, "ok")) \/ Reply(t, "ok") = Message(t, "phx_close")
                 \/ s \in {"ok", "error"} /\ Reply(t, "ok") = Reply(t, s)
          BY <1>1, <1>6, ComingJoin
        <5>3. QED
          BY <4>2, <5>1, <5>2
      <4>5. s = "ok" => t \in joined'
        BY <1>1, <1>6, <2>2, <3>1 DEF SendJoin
      <4>6. QED
        BY <4>3, <4>4, <4>5 DEF OkComes
    <3>4. QED
      BY <1>3, <2>0, <3>2, <3>3 DEF Heard
  <2>3. QED
    BY <2>1, <2>2
<1>7. CASE Look(c)
  <2>1. at[c] = "look" /\ Goes(c, "wait") /\ UNCHANGED <<plan, cur, inbox, buffer, unclaimed, handlers, joined>>
    BY <1>7 DEF Look
  <2>2. /\ TopicOf(c)' = t /\ at'[c] = "wait" /\ Waiting(t)' \subseteq {c}
    BY <1>4, <2>1
  <2>3. OkComes(t)' => OkComes(t)
    BY <2>1 DEF OkComes, Coming, Within, InSubscribed
  <2>4. QED
    BY <1>3, <2>1, <2>2, <2>3 DEF Heard
<1>8. CASE Confirmed(c)
  <2>1. /\ at[c] = "wait" /\ "ok" \in buffer[t][waitsOn[c]] /\ Goes(c, "register")
        /\ UNCHANGED <<plan, handlers, joined>>
    BY <1>1, <1>2, <1>8 DEF Confirmed, Take, TrackerKinds
  <2>2. /\ TopicOf(c)' = t /\ at'[c] = "register" /\ Waiting(t)' \subseteq {c}
    BY <1>4, <2>1
  <2>3. t \in joined
    BY <1>3, <2>1 DEF OkComes, InSubscribed, TypeOK
  <2>4. QED
    BY <1>3, <2>1, <2>2, <2>3 DEF Heard
<1>9. CASE Register(c)
  <2>1. /\ at[c] = "register" /\ Goes(c, "ok") /\ handlers' = [handlers EXCEPT ![t] = @ \cup {c}]
        /\ UNCHANGED <<plan, joined>>
    BY <1>1, <1>9 DEF Register
  <2>2. /\ TopicOf(c)' = t /\ at'[c] = "ok" /\ Waiting(t)' \subseteq {c}
    BY <1>4, <2>1
  <2>3. handlers'[t] = {c} /\ t \in joined'
    BY <1>3, <2>1 DEF TypeOK
  <2>4. QED
    BY <2>2, <2>3 DEF Heard
<1>10. CASE Refused(c) \/ TimesOut(c) \/ CancelledFirst(c)
  BY <1>5, <1>10 DEF Refused, Take, TimesOut, CancelledFirst
<1>11. CASE Disconnect(c)
  BY <1>11 DEF Disconnect
<1>12. ASSUME \/ Begin(c) \/ AddMachineID(c)
              \/ \E ok \in BOOLEAN : Track(c, ok) \/ RemoveMachineID(c, ok) \/ Stop(c, ok)
       PROVE  FALSE
  BY <1>2, <1>12 DEF Begin, AddMachineID, Track, RemoveMachineID, Stop
<1>13. QED
  BY <1>6, <1>7, <1>8, <1>9, <1>10, <1>11, <1>12 DEF CallStep

LEMMA HeardReset ==
  ASSUME TypeOK, CallsInv, NEW c \in Calls, at[c] = "new", Reset(c), plan' = plan, TopicOf(c) \notin crossed'
  PROVE  Heard(c)'
<1>1. PICK t \in Topics : TopicOf(c) = t
  BY PlanTypes DEF CallsInv
<1>2. \A e \in Calls : TopicOf(e)' = TopicOf(e)
  BY DEF TopicOf
<1>3. Waiting(t) = {} /\ unclaimed[t] = 0 /\ unclaimed' = unclaimed
  BY <1>1 DEF Reset
<1>4. at' = [at EXCEPT ![c] = "send"] /\ at \in [Calls -> Places]
  BY DEF Reset, Goes, TypeOK
<1>5. handlers'[t] = {}
  BY <1>1 DEF Reset, TypeOK
<1>6. Waiting(t)' \subseteq {c}
  BY <1>2, <1>3, <1>4 DEF Waiting
<1>7. QED
  BY <1>1, <1>2, <1>3, <1>4, <1>5, <1>6 DEF Heard

LEMMA HeardStep ==
  TypeOK /\ CallsInv /\ AnswersInv /\ ErrorsInv /\ HeardInv /\ [Next]_vars => HeardInv'
<1> SUFFICES ASSUME TypeOK, CallsInv, AnswersInv, ErrorsInv, HeardInv, [Next]_vars,
                    NEW c \in Calls, Undisturbed(c)'
             PROVE  Heard(c)'
  BY DEF HeardInv
<1> USE DEF vars, netVars, readerVars, channelVars, callVars, trackerVars, serverVars, history
<1>1. /\ plan' = plan /\ conn' \in {"none", "up"} /\ TopicOf(c) \notin crossed'
      /\ TopicOf(c) \notin broken'
  <2>1. plan' = plan
    BY Undisturbs
  <2>2. QED
    BY <2>1 DEF Undisturbed, TopicOf
<1>2. CASE at[c] = "new" /\ Reset(c)
  BY <1>1, <1>2, HeardReset
<1>3. CASE Undisturbed(c) /\ gen'[TopicOf(c)] = gen[TopicOf(c)]
  <2>0. PICK t \in Topics : TopicOf(c) = t
    BY PlanTypes DEF CallsInv
  <2>1. Heard(c)
    BY <1>3 DEF HeardInv
  <2>2. CASE ReaderStep
    BY <1>3, <2>1, <2>2, HeardReader
  <2>3. ASSUME NEW d \in Calls, CallStep(d) \/ CancelledFirst(d) PROVE Heard(c)'
    <3>1. CASE TopicOf(d) # t
      BY <2>0, <2>1, <2>3, <3>1, HeardElsewhere
    <3>2. CASE d = c
      BY <1>1, <1>3, <2>1, <2>3, <3>2, HeardItself
    <3>3. CASE TopicOf(d) = t /\ d # c
      <4>1. at[d] = "new" /\ Reset(d)
        BY <1>1, <1>3, <2>0, <2>1, <2>3, <3>3, HeardAlone
      <4>2. gen'[t] = gen[t] + 1 /\ gen[t] \in Nat
        BY <2>0, <3>3, <4>1, GensFinite DEF Reset, TypeOK
      <4>3. QED
        BY <1>3, <2>0, <4>2
    <3>4. QED
      BY <3>1, <3>2, <3>3
  <2>4. ASSUME UNCHANGED <<at, unclaimed, handlers>>, t \in joined => t \in joined',
               Coming(Reply(t, "ok"))' => Coming(Reply(t, "ok")), buffer' = buffer
        PROVE  Heard(c)'
    <3>1. OkComes(t)' => OkComes(t)
      BY <2>4 DEF OkComes, InSubscribed
    <3>2. Waiting(t)' \subseteq Waiting(t)
      BY <1>1, <2>4 DEF Waiting, TopicOf
    <3>3. QED
      BY <1>1, <2>0, <2>1, <2>4, <3>1, <3>2, HeardFrame
  <2>5. ASSUME NEW d \in Calls, NEW e \in Events, ServerSends(d, e) PROVE Heard(c)'
    <3>1. TopicOf(d) \in Topics
      BY PlanTypes DEF CallsInv
    <3>2. t \in joined => t \in joined'
      BY <1>1, <2>0, <2>5 DEF ServerSends
    <3>3. Reply(t, "ok") # Message(TopicOf(d), e)
      BY <3>1, Distinct
    <3>4. Coming(Reply(t, "ok"))' => Coming(Reply(t, "ok"))
      BY <2>5, <3>3, ComingServer
    <3>5. QED
      BY <2>4, <2>5, <3>2, <3>4 DEF ServerSends
  <2>6. Reply(t, "ok") # NoMsg
    BY MessageTypes
  <2>7. ASSUME NEW ok \in BOOLEAN, Connect(ok) PROVE Heard(c)'
    <3>1. Coming(Reply(t, "ok"))' => Coming(Reply(t, "ok"))
      BY <2>6, <2>7, ComingLess DEF Connect
    <3>2. QED
      BY <2>4, <2>7, <3>1 DEF Connect
  <2>8. CASE ConnectionLost
    BY <1>1, <2>8 DEF ConnectionLost
  <2>9. CASE UNCHANGED vars
    <3>1. Coming(Reply(t, "ok"))' => Coming(Reply(t, "ok"))
      BY <2>6, <2>9, ComingLess
    <3>2. QED
      BY <2>4, <2>9, <3>1
  <2>10. QED
    BY <2>2, <2>3, <2>5, <2>7, <2>8, <2>9 DEF Next
<1>4. QED
  BY <1>2, <1>3, UndisturbedBefore

--------------------------------------------------------------------------------
(* The presence tracker.                                                   *)
LEMMA MutexGo ==
  ASSUME TypeOK, NEW c \in Calls, NEW to, Goes(c, to), plan' = plan
  PROVE  /\ \A d \in Calls : d # c => (Tracks(d)' <=> Tracks(d)) /\ (Joins(d)' <=> Joins(d))
         /\ Tracks(c)' <=> to = "track"
         /\ Joins(c)' <=> Kind(c) = "add" /\ to \in {"send", "look", "wait"}
<1>1. /\ at' = [at EXCEPT ![c] = to] /\ at \in [Calls -> Places]
      /\ \A d \in Calls : Kind(d)' = Kind(d)
  BY DEF Goes, TypeOK, Kind
<1>2. QED
  BY <1>1 DEF Tracks, Joins

LEMMA MutexStays ==
  ASSUME MutexInv, UNCHANGED <<plan, at, holder, shared, tracked>>, present' \in {present, {}},
         conn' = "none" => conn = "none"
  PROVE  MutexInv'
<1>1. \A d \in Calls : (Tracks(d)' <=> Tracks(d)) /\ (Joins(d)' <=> Joins(d))
  BY DEF Tracks, Joins, Kind
<1>2. QED
  BY <1>1 DEF MutexInv

(* A call that keeps the mutex, or has nothing to do with it.              *)
LEMMA MutexKept ==
  ASSUME TypeOK, MutexInv, NEW c \in Calls, NEW to, Goes(c, to),
         UNCHANGED <<plan, holder, shared, tracked>>, present' \in {present, {}},
         conn' = "none" => conn = "none",
         (Kind(c) = "add" /\ to \in {"send", "look", "wait"}) => Joins(c),
         (Tracks(c) \/ Joins(c)) <=> to = "track" \/ (Kind(c) = "add" /\ to \in {"send", "look", "wait"})
  PROVE  MutexInv'
<1>1. /\ \A d \in Calls : d # c => (Tracks(d)' <=> Tracks(d)) /\ (Joins(d)' <=> Joins(d))
      /\ Tracks(c)' <=> to = "track"
      /\ Joins(c)' <=> Kind(c) = "add" /\ to \in {"send", "look", "wait"}
  BY MutexGo
<1>2. \A d \in Calls : (Tracks(d)' \/ Joins(d)' <=> Tracks(d) \/ Joins(d)) /\ (Joins(d)' => Joins(d))
  BY <1>1
<1>3. \A d \in Calls : holder' = d <=> Tracks(d)' \/ Joins(d)'
  BY <1>2 DEF MutexInv
<1>4. \A d \in Calls : (Tracks(d)' \/ Joins(d)' => shared') /\ (Joins(d)' => tracked' = {} /\ present' = {})
  BY <1>2 DEF MutexInv
<1>5. (~ shared' => tracked' = {} /\ present' = {}) /\ (conn' = "none" => ~ shared')
  BY DEF MutexInv
<1>6. QED
  BY <1>3, <1>4, <1>5 DEF MutexInv

(* A call that gives it back, or leaves it to the others.                  *)
LEMMA MutexFreed ==
  ASSUME TypeOK, MutexInv, NEW c \in Calls, NEW to, Goes(c, to), to \notin {"send", "look", "wait", "track"},
         plan' = plan, holder' = IF holder = c THEN None ELSE holder,
         shared' = shared, conn' = "none" => conn = "none",
         \/ tracked' = tracked /\ present' \in {present, {}}
         \/ Tracks(c)
         \/ holder = None /\ (tracked = {} => tracked' = {} /\ present' = present)
  PROVE  MutexInv'
<1>0. None \notin Calls
  BY RealtimeAssumption
<1>1. /\ \A d \in Calls : d # c => (Tracks(d)' <=> Tracks(d)) /\ (Joins(d)' <=> Joins(d))
      /\ ~ Tracks(c)' /\ ~ Joins(c)'
  BY MutexGo
<1>2. \A d \in Calls : holder' = d <=> Tracks(d)' \/ Joins(d)'
  BY <1>0, <1>1 DEF MutexInv
<1>3. \A d \in Calls : Tracks(d)' \/ Joins(d)' => shared'
  BY <1>1 DEF MutexInv
<1>4. \A d \in Calls : Joins(d)' => tracked' = {} /\ present' = {}
  <2> SUFFICES ASSUME NEW d \in Calls, Joins(d)' PROVE tracked' = {} /\ present' = {}
    OBVIOUS
  <2>1. d # c /\ Joins(d) /\ holder = d /\ tracked = {} /\ present = {}
    BY <1>1 DEF MutexInv
  <2>2. ~ Tracks(c)
    BY <2>1 DEF MutexInv
  <2>3. QED
    BY <1>0, <2>1, <2>2
<1>5. ~ shared' => tracked' = {} /\ present' = {}
  BY DEF MutexInv
<1>6. conn' = "none" => ~ shared'
  BY DEF MutexInv
<1>7. QED
  BY <1>2, <1>3, <1>4, <1>5, <1>6 DEF MutexInv

(* A call that takes it.                                                   *)
LEMMA MutexTaken ==
  ASSUME TypeOK, MutexInv, NEW c \in Calls, NEW to \in {"send", "track"}, Goes(c, to), Kind(c) = "add",
         plan' = plan, holder = None, holder' = c, shared' = TRUE, to = "send" => ~ shared,
         tracked' = tracked, present' = present, conn' # "none"
  PROVE  MutexInv'
<1>0. None \notin Calls
  BY RealtimeAssumption
<1>1. /\ \A d \in Calls : d # c => (Tracks(d)' <=> Tracks(d)) /\ (Joins(d)' <=> Joins(d))
      /\ Tracks(c)' <=> to = "track"
      /\ Joins(c)' <=> to = "send"
  BY MutexGo
<1>2. \A d \in Calls : ~ Tracks(d) /\ ~ Joins(d)
  BY <1>0 DEF MutexInv
<1>3. QED
  BY <1>1, <1>2 DEF MutexInv

LEMMA MutexCall ==
  ASSUME TypeOK, CallsInv, MutexInv, NEW c \in Calls, CallStep(c) \/ CancelledFirst(c)
  PROVE  MutexInv'
<1> USE DEF netVars, readerVars, channelVars, callVars, trackerVars, serverVars, history
<1>0. None \notin Calls /\ Kind(c) \in Kinds
  BY RealtimeAssumption, PlanTypes DEF CallsInv
<1>1. /\ at[c] = "track" => Kind(c) = "add"
      /\ at[c] = "register" => Kind(c) # "add"
      /\ holder = c <=> Tracks(c) \/ Joins(c)
  BY EventNames DEF CallsInv, MutexInv
<1>2. ASSUME Fails(c), UNCHANGED <<plan, conn>>, present' \in {present, {}} PROVE MutexInv'
  <2>1. PICK to \in {"closing", "failed"} : Goes(c, to)
    BY <1>2 DEF Fails
  <2>2. holder' = (IF holder = c THEN None ELSE holder) /\ shared' = shared /\ tracked' = tracked
    BY <1>2 DEF Fails
  <2>3. QED
    BY <1>2, <2>1, <2>2, MutexFreed
<1>3. CASE Begin(c)
  <2>1. /\ at[c] = "new" /\ Kind(c) # "add" /\ ~ Tracks(c) /\ ~ Joins(c)
        /\ UNCHANGED <<plan, holder, shared, tracked, present, conn>>
    BY <1>3 DEF Begin, Starts, Tracks, Joins
  <2>2. PICK to \in {"send", "failed"} : Goes(c, to)
    BY <1>3 DEF Begin, Reset
  <2>3. QED
    BY <2>1, <2>2, MutexKept
<1>4. ASSUME NEW ok \in BOOLEAN, NEW s \in Answers, SendJoin(c, ok, s) PROVE MutexInv'
  <2>1. at[c] = "send" /\ UNCHANGED <<plan, conn>> /\ present' \in {present, {}}
    BY <1>4 DEF SendJoin
  <2>2. CASE ok
    <3>1. Goes(c, "look") /\ UNCHANGED <<holder, shared, tracked>>
      BY <1>4, <2>2 DEF SendJoin
    <3>2. ~ Tracks(c) /\ (Joins(c) <=> Kind(c) = "add")
      BY <2>1 DEF Tracks, Joins
    <3>3. QED
      BY <2>1, <3>1, <3>2, MutexKept
  <2>3. CASE ~ ok
    BY <1>2, <1>4, <2>1, <2>3 DEF SendJoin
  <2>4. QED
    BY <2>2, <2>3
<1>5. CASE Look(c)
  <2>1. /\ Goes(c, "wait") /\ UNCHANGED <<plan, conn, holder, shared, tracked, present>>
        /\ ~ Tracks(c) /\ (Joins(c) <=> Kind(c) = "add")
    BY <1>5 DEF Look, Tracks, Joins
  <2>2. QED
    BY <2>1, MutexKept
<1>6. CASE Confirmed(c)
  <2>1. /\ UNCHANGED <<plan, conn, holder, shared, tracked, present>>
        /\ ~ Tracks(c) /\ (Joins(c) <=> Kind(c) = "add")
    BY <1>6 DEF Confirmed, Take, Tracks, Joins
  <2>2. PICK to \in {"track", "register"} : Goes(c, to) /\ (to = "track" <=> Kind(c) = "add")
    BY <1>6 DEF Confirmed
  <2>3. QED
    BY <2>1, <2>2, MutexKept
<1>7. CASE Refused(c) \/ TimesOut(c) \/ CancelledFirst(c)
  BY <1>2, <1>7 DEF Refused, Take, TimesOut, CancelledFirst
<1>8. CASE Register(c)
  <2>1. /\ Goes(c, "ok") /\ UNCHANGED <<plan, conn, holder, shared, tracked, present>>
        /\ ~ Tracks(c) /\ ~ Joins(c)
    BY <1>8 DEF Register, Tracks, Joins
  <2>2. QED
    BY <2>1, MutexKept
<1>9. CASE Disconnect(c)
  <2>1. /\ at[c] = "closing" /\ ~ Tracks(c) /\ ~ Joins(c) /\ conn' # "none"
        /\ UNCHANGED <<plan, holder, shared, tracked, present>>
    BY <1>9 DEF Disconnect, Tracks, Joins
  <2>2. CASE UNCHANGED at
    BY <2>1, <2>2, MutexStays
  <2>3. ASSUME NEW to \in {"ok", "failed"}, Goes(c, to) PROVE MutexInv'
    BY <2>1, <2>3, MutexKept
  <2>4. QED
    BY <1>9, <2>2, <2>3 DEF Disconnect
<1>10. CASE AddMachineID(c)
  <2>1. /\ at[c] = "new" /\ Kind(c) = "add" /\ holder = None /\ ~ Tracks(c) /\ ~ Joins(c)
        /\ UNCHANGED <<plan, conn, tracked, present>>
    BY <1>10 DEF AddMachineID, Tracks, Joins
  <2>2. CASE ~ shared /\ Connected /\ holder' = c /\ shared' = TRUE /\ Reset(c)
    <3>1. Goes(c, "send") /\ conn' # "none"
      BY <2>1, <2>2 DEF Reset, Connected
    <3>2. QED
      BY <2>1, <2>2, <3>1, MutexTaken
  <2>3. CASE shared /\ holder' = c /\ Goes(c, "track") /\ shared' = shared
    <3>1. conn' # "none" /\ shared' = TRUE
      BY <2>1, <2>3 DEF MutexInv, TypeOK
    <3>2. QED
      BY <2>1, <2>3, <3>1, MutexTaken
  <2>4. CASE Goes(c, "failed") /\ UNCHANGED <<holder, shared>>
    BY <2>1, <2>4, MutexKept
  <2>5. QED
    BY <1>10, <2>2, <2>3, <2>4 DEF AddMachineID
<1>11. ASSUME NEW ok \in BOOLEAN, Track(c, ok) PROVE MutexInv'
  <2>1. PICK to \in {"ok", "failed"} : Goes(c, to)
    BY <1>11 DEF Track
  <2>2. Tracks(c) /\ holder' = None /\ UNCHANGED <<plan, conn, shared>>
    BY <1>11 DEF Track, Tracks, Pushes
  <2>3. holder = c
    BY <1>1, <2>2
  <2>4. QED
    BY <2>1, <2>2, <2>3, MutexFreed
<1>12. ASSUME NEW ok \in BOOLEAN, RemoveMachineID(c, ok) PROVE MutexInv'
  <2>1. /\ Goes(c, "ok") /\ holder = None /\ holder' = None /\ UNCHANGED <<plan, conn, shared>>
        /\ tracked = {} => tracked' = {} /\ present' = present
    BY <1>12 DEF RemoveMachineID, Pushes, PushesNothing
  <2>2. QED
    BY <2>1, MutexFreed
<1>13. ASSUME NEW ok \in BOOLEAN, Stop(c, ok) PROVE MutexInv'
  <2>1. PICK to \in {"ok", "closing"} : Goes(c, to)
    BY <1>13 DEF Stop
  <2>2. /\ holder = None /\ holder' = None /\ UNCHANGED <<plan, conn, shared>>
        /\ tracked = {} => tracked' = {} /\ present' = present
    BY <1>13 DEF Stop, Pushes, PushesNothing
  <2>3. QED
    BY <2>1, <2>2, MutexFreed
<1>14. QED
  BY <1>3, <1>4, <1>5, <1>6, <1>7, <1>8, <1>9, <1>10, <1>11, <1>12, <1>13 DEF CallStep

LEMMA MutexStep == TypeOK /\ CallsInv /\ MutexInv /\ [Next]_vars => MutexInv'
<1> SUFFICES ASSUME TypeOK, CallsInv, MutexInv, [Next]_vars PROVE MutexInv'
  OBVIOUS
<1> USE DEF vars, netVars, readerVars, channelVars, callVars, trackerVars, serverVars, history
<1>1. CASE ReaderStep
  <2>1. UNCHANGED <<plan, at, holder, shared, tracked, present, conn>>
    BY <1>1 DEF ReaderStep, ReadFails, Read, HandleReply, ReplyGoesIn, HandleClose, HandleError, HandleEvent
  <2>2. QED
    BY <2>1, MutexStays
<1>2. ASSUME NEW ok \in BOOLEAN, Connect(ok) PROVE MutexInv'
  BY <1>2, MutexStays DEF Connect
<1>3. CASE ConnectionLost
  BY <1>3, MutexStays DEF ConnectionLost
<1>4. ASSUME NEW c \in Calls, NEW e \in Events, ServerSends(c, e) PROVE MutexInv'
  BY <1>4, MutexStays DEF ServerSends
<1>5. ASSUME NEW c \in Calls, CallStep(c) \/ CancelledFirst(c) PROVE MutexInv'
  BY <1>5, MutexCall
<1>6. CASE UNCHANGED vars
  BY <1>6, MutexStays
<1>7. QED
  BY <1>1, <1>2, <1>3, <1>4, <1>5, <1>6 DEF Next

(* A client of the tracker has no other calls, and one channel.            *)
LEMMA TrackersClient ==
  ASSUME CallsInv, NEW e \in Calls, Kind(e) = "add", NEW c \in Calls, at[c] # "never"
  PROVE  Kind(c) \in TrackerKinds /\ Kind(c) \notin DOMAIN Registers /\ TopicOf(c) = TopicOf(e)
<1>1. Kind(c) # "never" /\ Kind(e) \in TrackerKinds
  BY DEF CallsInv, TrackerKinds
<1>2. Kind(c) \in TrackerKinds /\ TopicOf(c) = TopicOf(e)
  BY <1>1, PlanTypes DEF CallsInv
<1>3. QED
  BY <1>2, EventNames DEF TrackerKinds

LEMMA EndsReader ==
  ASSUME TypeOK, NEW t \in Topics, ReaderStep
  PROVE  Ends(t)' => Ends(t)
<1>1. Message(t, "phx_close") # NoMsg /\ Message(t, "phx_error") # NoMsg
  BY EventNames, Distinct
<1>2. QED
  BY <1>1, ComingReader DEF Ends

LEMMA EndsLess ==
  ASSUME TypeOK, NEW t \in Topics, cur' \in {cur, NoMsg}, inbox' \in {inbox, <<>>}
  PROVE  Ends(t)' => Ends(t)
<1>1. Message(t, "phx_close") # NoMsg /\ Message(t, "phx_error") # NoMsg
  BY EventNames, Distinct
<1>2. QED
  BY <1>1, ComingLess DEF Ends

LEMMA EndsCall ==
  ASSUME TypeOK, CallsInv, NEW t \in Topics, NEW c \in Calls, TopicOf(c) = t, CallStep(c) \/ CancelledFirst(c)
  PROVE  Ends(t)' => Ends(t) \/ (t \in joined /\ at[c] = "send")
<1>1. /\ Message(t, "phx_close") # NoMsg /\ Message(t, "phx_error") # NoMsg
      /\ Message(t, "phx_error") # Message(t, "phx_close")
      /\ \A s \in {"ok", "error"} : Message(t, "phx_error") # Reply(t, s) /\ Message(t, "phx_close") # Reply(t, s)
  BY EventNames, Distinct
<1>2. Coming(Message(t, "phx_error"))' => Coming(Message(t, "phx_error"))
  BY <1>1, ComingCall
<1>3. Coming(Message(t, "phx_close"))' => Coming(Message(t, "phx_close")) \/ (t \in joined /\ at[c] = "send")
  BY <1>1, ComingCall
<1>4. QED
  BY <1>2, <1>3 DEF Ends

LEMMA AgreesFrame ==
  ASSUME NEW e \in Calls, NEW t \in Topics, TopicOf(e) = t, Agrees(e), plan' = plan, joined' = joined,
         Before(e)' => Before(e) /\ unclaimed'[t] = unclaimed[t],
         Ends(t)' => Ends(t) \/ (t \in joined /\ Before(e)),
         t \in joined /\ conn' = "up" => present' = tracked',
         t \in joined /\ Accepted(t)' => state'[t] = "subscribed"
  PROVE  Agrees(e)'
<1>1. TopicOf(e)' = t
  BY DEF TopicOf
<1>2. /\ Before(e) => t \notin joined /\ unclaimed[t] = 0
      /\ Before(e) \/ t \in joined => ~ Ends(t)
  BY DEF Agrees
<1>3. QED
  BY <1>1, <1>2 DEF Agrees

LEMMA AgreesReader ==
  ASSUME TypeOK, CallsInv, NEW e \in Calls, Agrees(e), ReaderStep
  PROVE  Agrees(e)'
<1> USE DEF netVars, readerVars, channelVars, callVars, trackerVars, serverVars, history
<1>0. PICK t \in Topics : TopicOf(e) = t
  BY PlanTypes DEF CallsInv
<1>1. UNCHANGED <<plan, at, conn, joined, present, tracked, shared>>
  BY DEF ReaderStep, ReadFails, Read, HandleReply, ReplyGoesIn, HandleClose, HandleError, HandleEvent
<1>2. /\ Before(e) => t \notin joined /\ unclaimed[t] = 0
      /\ Before(e) \/ t \in joined => ~ Ends(t)
      /\ t \in joined /\ conn = "up" => present = tracked
      /\ t \in joined /\ Accepted(t) => state[t] = "subscribed"
  BY <1>0 DEF Agrees
<1>3. Ends(t)' => Ends(t)
  BY EndsReader
<1>4. ASSUME HandleClose \/ HandleError, cur.topic = t PROVE Ends(t)
  <2>1. cur \in Messages
    BY <1>4 DEF HandleClose, HandleError, TypeOK
  <2>2. cur = Message(t, "phx_close") \/ cur = Message(t, "phx_error")
    BY <1>4, <2>1, MessageTypes DEF HandleClose, HandleError
  <2>3. QED
    BY <2>2 DEF Ends, Coming
<1>5. Before(e)' => Before(e) /\ unclaimed'[t] = unclaimed[t]
  <2>1. Before(e)' <=> Before(e)
    BY <1>1 DEF Before
  <2>2. CASE HandleError
    <3>1. cur.topic \in Topics
      BY <2>2, MessageTypes DEF HandleError, TypeOK
    <3>2. Before(e) => cur.topic # t
      BY <1>2, <1>4, <2>2
    <3>3. QED
      BY <2>1, <2>2, <3>1, <3>2 DEF HandleError, TypeOK
  <2>3. CASE ~ HandleError
    BY <2>1, <2>3 DEF ReaderStep, ReadFails, Read, HandleReply, ReplyGoesIn, HandleClose, HandleEvent
  <2>4. QED
    BY <2>2, <2>3
<1>6. t \in joined /\ Accepted(t)' => state'[t] = "subscribed"
  <2> SUFFICES ASSUME t \in joined, Accepted(t)' PROVE state'[t] = "subscribed"
    OBVIOUS
  <2>0. \A c \in Calls : Tracks(c)' <=> Tracks(c)
    BY <1>1 DEF Tracks
  <2>1. CASE HandleReply
    <3>1. cur \in Messages /\ cur.topic \in Topics /\ cur = Reply(cur.topic, cur.status) /\ reader = "handling"
      BY <2>1, MessageTypes DEF HandleReply, TypeOK
    <3>2. CASE cur = Reply(t, "ok")
      <4>1. cur.topic = t /\ cur.status = "ok"
        BY <3>2 DEF Reply
      <4>2. QED
        BY <2>1, <4>1 DEF HandleReply, TypeOK
    <3>3. CASE cur # Reply(t, "ok")
      <4>1. InSubscribed(t)' => InSubscribed(t)
        BY <2>1, <3>3, SubscribedFrom
      <4>2. ~ (reader' = "stuck" /\ cur' = Reply(t, "ok"))
        BY <2>1, <3>3 DEF HandleReply, BackToTop
      <4>3. Accepted(t)
        BY <1>1, <2>0, <4>1, <4>2 DEF Accepted
      <4>4. state'[t] = state[t]
        <5>1. cur.status = "ok" => cur.topic # t
          BY <3>1, <3>3
        <5>2. QED
          BY <2>1, <3>1, <5>1 DEF HandleReply, TypeOK
      <4>5. QED
        BY <1>2, <4>3, <4>4
    <3>4. QED
      BY <3>2, <3>3
  <2>2. CASE ReplyGoesIn
    <3>1. InSubscribed(t)' => InSubscribed(t) \/ cur = Reply(t, "ok")
      BY SubscribedFrom
    <3>2. reader = "stuck" /\ reader' # "stuck" /\ state' = state
      BY <2>2 DEF ReplyGoesIn, BackToTop
    <3>3. Accepted(t)
      BY <1>1, <2>0, <3>1, <3>2 DEF Accepted
    <3>4. QED
      BY <1>2, <3>2, <3>3
  <2>3. CASE ~ HandleReply /\ ~ ReplyGoesIn
    <3>1. InSubscribed(t)' => InSubscribed(t)
      BY <2>3, SubscribedFrom
    <3>2. reader' # "stuck"
      BY <2>3 DEF ReaderStep, ReadFails, Read, HandleClose, HandleError, HandleEvent, BackToTop
    <3>3. Accepted(t)
      BY <1>1, <2>0, <3>1, <3>2 DEF Accepted
    <3>4. state'[t] = state[t]
      <4>1. CASE HandleClose \/ HandleError
        <5>1. cur.topic # t
          BY <1>2, <1>4, <4>1
        <5>2. QED
          BY <4>1, <5>1 DEF HandleClose, HandleError, TypeOK
      <4>2. CASE ~ HandleClose /\ ~ HandleError
        BY <2>3, <4>2 DEF ReaderStep, ReadFails, Read, HandleEvent
      <4>3. QED
        BY <4>1, <4>2
    <3>5. QED
      BY <1>2, <3>3, <3>4
  <2>4. QED
    BY <2>1, <2>2, <2>3
<1>7. QED
  BY <1>0, <1>1, <1>2, <1>3, <1>5, <1>6, AgreesFrame

LEMMA AgreesNet ==
  ASSUME TypeOK, CallsInv, MutexInv, NEW e \in Calls, Kind(e) = "add", Agrees(e),
         \/ \E ok \in BOOLEAN : Connect(ok)
         \/ ConnectionLost
         \/ \E c \in Calls, f \in Events : ServerSends(c, f)
         \/ UNCHANGED vars
  PROVE  Agrees(e)'
<1> USE DEF vars, netVars, readerVars, channelVars, callVars, trackerVars, serverVars, history
<1>0. PICK t \in Topics : TopicOf(e) = t
  BY PlanTypes DEF CallsInv
<1>1. /\ Before(e) => t \notin joined /\ unclaimed[t] = 0
      /\ Before(e) \/ t \in joined => ~ Ends(t)
      /\ t \in joined /\ conn = "up" => present = tracked
      /\ t \in joined /\ Accepted(t) => state[t] = "subscribed"
  BY <1>0 DEF Agrees
<1>2. ASSUME UNCHANGED <<plan, at, shared, unclaimed, cur, tracked, present, joined, buffer, state>>,
             inbox' \in {inbox, <<>>}, reader' = "stuck" => reader = "stuck",
             t \in joined /\ conn' = "up" => conn = "up"
      PROVE  Agrees(e)'
  <2>1. (Before(e)' => Before(e)) /\ (Accepted(t)' => Accepted(t)) /\ (Ends(t)' => Ends(t))
    BY <1>2, EndsLess DEF Before, Accepted, Tracks, InSubscribed
  <2>2. QED
    BY <1>0, <1>1, <1>2, <2>1, AgreesFrame
<1>3. ASSUME NEW ok \in BOOLEAN, Connect(ok) PROVE Agrees(e)'
  <2>1. t \notin joined
    BY <1>1, <1>3 DEF Connect, MutexInv, Before
  <2>2. QED
    BY <1>2, <1>3, <2>1 DEF Connect
<1>4. CASE ConnectionLost
  BY <1>2, <1>4 DEF ConnectionLost
<1>5. CASE UNCHANGED vars
  BY <1>2, <1>5
<1>6. ASSUME NEW c \in Calls, NEW f \in Events, ServerSends(c, f) PROVE Agrees(e)'
  <2>1. Kind(c) \notin DOMAIN Sends /\ TopicOf(c) = t
    <3>1. at[c] # "never"
      BY <1>6 DEF ServerSends
    <3>2. Kind(c) \notin DOMAIN Registers /\ TopicOf(c) = TopicOf(e)
      BY <3>1, TrackersClient
    <3>3. QED
      BY <1>0, <3>2, EventNames
  <2>2. t \in joined /\ t \notin joined' /\ UNCHANGED <<plan, at, shared>>
    BY <1>6, <2>1 DEF ServerSends
  <2>3. ~ Before(e)'
    BY <1>1, <2>2 DEF Before
  <2>4. TopicOf(e)' = t
    BY <1>0, <2>2 DEF TopicOf
  <2>5. QED
    BY <2>2, <2>3, <2>4 DEF Agrees
<1>7. QED
  BY <1>3, <1>4, <1>5, <1>6

LEMMA AgreesCall ==
  ASSUME TypeOK, CallsInv, AnswersInv, MutexInv, AgreesInv, NEW e \in Calls, Kind(e) = "add",
         NEW d \in Calls, CallStep(d) \/ CancelledFirst(d)
  PROVE  Agrees(e)'
<1> USE DEF netVars, readerVars, channelVars, callVars, trackerVars, serverVars, history
<1>0. PICK t \in Topics : TopicOf(e) = t
  BY PlanTypes DEF CallsInv
<1>1. at[d] # "never"
  BY DEF CallStep, CancelledFirst, Begin, SendJoin, Look, Confirmed, Refused, Take, TimesOut, Register,
     AddMachineID, Track, RemoveMachineID, Stop, Disconnect
<1>2. Kind(d) \in TrackerKinds /\ Kind(d) \notin DOMAIN Registers /\ TopicOf(d) = t
  BY <1>0, <1>1, TrackersClient
<1>3. Agrees(e) /\ (Kind(d) = "add" => Agrees(d))
  BY DEF AgreesInv
<1>4. /\ Before(e) => t \notin joined /\ unclaimed[t] = 0
      /\ Before(e) \/ t \in joined => ~ Ends(t)
      /\ t \in joined /\ conn = "up" => present = tracked
      /\ t \in joined /\ Accepted(t) => state[t] = "subscribed"
  BY <1>0, <1>3 DEF Agrees
<1>5. Ends(t)' => Ends(t) \/ (t \in joined /\ at[d] = "send")
  BY <1>2, EndsCall
<1>6. InSubscribed(t)' => InSubscribed(t)
  BY SubscribedCall
<1>7. plan' = plan /\ reader' = reader /\ cur' = cur
  BY DEF CallStep, CancelledFirst, Begin, SendJoin, Look, Confirmed, Refused, Take, TimesOut, Register,
     AddMachineID, Track, RemoveMachineID, Stop, Pushes, PushesNothing, Disconnect
<1>8. at[d] \in {"send", "look", "wait"} => Kind(d) = "add" /\ Joins(d) /\ holder = d /\ shared
  <2>1. ASSUME at[d] \in {"send", "look", "wait"} PROVE Kind(d) = "add"
    BY <1>2, <2>1 DEF CallsInv, Subscribers, Starts, TrackerKinds
  <2>2. QED
    BY <2>1 DEF Joins, MutexInv
<1>9. \A f \in Calls : Tracks(f) \/ Joins(f) => holder = f
  BY DEF MutexInv
<1>10. None \notin Calls
  BY RealtimeAssumption
<1>11. at[e] = "send" => Joins(e)
  BY DEF Joins
(* A step after which nothing is expected that was not before.             *)
<1>12. ASSUME NEW to \in Places \ {"send", "track"}, Goes(d, to), at[d] # "send",
              shared' = shared, state' = state, joined' = joined, tracked' \subseteq tracked,
              Before(e) => unclaimed'[t] = unclaimed[t],
              t \in joined /\ conn' = "up" => present' = tracked'
       PROVE  Agrees(e)'
  <2>1. \A f \in Calls : f # d => (Tracks(f)' <=> Tracks(f)) /\ (Joins(f)' <=> Joins(f))
    BY <1>7, <1>12, MutexGo
  <2>2. ~ Tracks(d)' /\ at'[d] # "send" /\ \A f \in Calls : f # d => at'[f] = at[f]
    BY <1>12 DEF Goes, TypeOK, Tracks
  <2>3. Before(e)' => Before(e)
    BY <1>12, <2>2 DEF Before
  <2>4. Accepted(t)' => Accepted(t)
    <3>1. tracked' # {} => tracked # {}
      BY <1>12
    <3>2. (\E f \in Calls : Tracks(f)') => \E f \in Calls : Tracks(f)
      BY <2>1, <2>2
    <3>3. QED
      BY <1>6, <1>7, <3>1, <3>2 DEF Accepted
  <2>5. QED
    BY <1>0, <1>3, <1>4, <1>5, <1>7, <1>12, <2>3, <2>4, AgreesFrame
<1>13. ASSUME Fails(d), at[d] # "send", UNCHANGED <<state, joined, conn, present>>,
              Before(e) => unclaimed'[t] = unclaimed[t]
       PROVE  Agrees(e)'
  <2>1. PICK to \in {"closing", "failed"} : Goes(d, to)
    BY <1>13 DEF Fails
  <2>2. to \in Places \ {"send", "track"} /\ shared' = shared /\ tracked' = tracked
    BY <1>13 DEF Fails, Places
  <2>3. QED
    BY <1>4, <1>12, <1>13, <2>1, <2>2
<1>14. ASSUME NEW ok \in BOOLEAN, NEW s \in Answers, SendJoin(d, ok, s) PROVE Agrees(e)'
  <2>1. /\ at[d] = "send" /\ Before(d) /\ Agrees(d) /\ shared /\ holder = d
        /\ UNCHANGED <<conn, state, buffer, unclaimed>>
    BY <1>3, <1>8, <1>14 DEF SendJoin, Before
  <2>2. /\ t \notin joined /\ unclaimed[t] = 0 /\ ~ Ends(t)
        /\ tracked = {} /\ present = {}
    BY <1>2, <1>8, <2>1 DEF Agrees, MutexInv
  <2>3. /\ shared' = shared /\ tracked' = {} /\ present' = {} /\ TopicOf(e)' = t
        /\ \E to \in {"look", "closing", "failed"} : Goes(d, to)
    BY <1>0, <1>2, <1>7, <1>14, <2>2 DEF SendJoin, Fails, TopicOf
  <2>4. \A f \in Calls : ~ Tracks(f)' /\ (f # d => at'[f] = at[f]) /\ at'[d] # "send"
    <3>1. \A f \in Calls : f # d => ~ Tracks(f)
      BY <1>9, <2>1
    <3>2. QED
      BY <2>3, <3>1 DEF Goes, Tracks, TypeOK
  <2>5. ~ Before(e)'
    BY <1>9, <1>11, <2>1, <2>3, <2>4 DEF Before
  <2>6. ~ Ends(t)'
    BY <1>5, <2>2
  <2>7. ~ Accepted(t)'
    <3>1. Orphans(t) = {}
      <4> SUFFICES ASSUME NEW f \in Calls, TopicOf(f) = t, at[f] \in {"look", "wait"} PROVE FALSE
        BY DEF Orphans
      <4>1. Kind(f) = "add"
        <5>1. Kind(f) \in TrackerKinds
          BY TrackersClient
        <5>2. QED
          BY <5>1 DEF CallsInv, Subscribers, Starts, TrackerKinds
      <4>2. Joins(f) /\ f # d
        BY <2>1, <4>1 DEF Joins
      <4>3. QED
        BY <1>9, <2>1, <4>2
    <3>2. ~ OkComes(t)
      BY <2>2, <3>1, NoneLeft
    <3>3. ~ InSubscribed(t)' /\ ~ (reader' = "stuck" /\ cur' = Reply(t, "ok"))
      BY <1>6, <1>7, <3>2 DEF OkComes, Coming
    <3>4. QED
      BY <2>3, <2>4, <3>3 DEF Accepted
  <2>8. QED
    BY <2>3, <2>5, <2>6, <2>7 DEF Agrees
<1>15. CASE Look(d)
  <2>1. /\ Goes(d, "wait") /\ at[d] # "send"
        /\ UNCHANGED <<shared, state, joined, tracked, unclaimed, present, conn>>
    BY <1>15 DEF Look
  <2>2. "wait" \in Places \ {"send", "track"}
    BY DEF Places
  <2>3. QED
    BY <1>4, <1>12, <2>1, <2>2
<1>16. CASE Confirmed(d)
  <2>1. /\ at[d] = "wait" /\ "ok" \in buffer[t][waitsOn[d]] /\ (\E to \in {"track", "register"} : Goes(d, to))
        /\ UNCHANGED <<shared, state, joined, tracked, unclaimed, present, conn>>
    BY <1>2, <1>16 DEF Confirmed, Take
  <2>2. Accepted(t)
    BY <2>1 DEF Accepted, InSubscribed, TypeOK
  <2>3. Before(e)' => Before(e)
    BY <2>1 DEF Before, Goes, TypeOK
  <2>4. Ends(t)' => Ends(t)
    BY <1>5, <2>1
  <2>5. QED
    BY <1>0, <1>3, <1>4, <1>7, <2>1, <2>2, <2>3, <2>4, AgreesFrame
<1>17. CASE Refused(d) \/ CancelledFirst(d)
  BY <1>13, <1>17 DEF Refused, Take, CancelledFirst
<1>18. CASE TimesOut(d)
  <2>1. ~ Before(e)
    BY <1>8, <1>9, <1>11, <1>18 DEF TimesOut, Before
  <2>2. QED
    BY <1>13, <1>18, <2>1 DEF TimesOut
<1>19. ASSUME Begin(d) \/ Register(d) PROVE FALSE
  BY <1>2, <1>19 DEF Begin, Register, Starts, TrackerKinds, CallsInv
<1>20. CASE Disconnect(d)
  <2>1. /\ at[d] = "closing" /\ conn' # "up"
        /\ UNCHANGED <<shared, state, joined, tracked, unclaimed, present>>
    BY <1>20 DEF Disconnect
  <2>2. CASE UNCHANGED at
    <3>1. (Before(e)' => Before(e)) /\ (Accepted(t)' => Accepted(t))
      BY <1>6, <1>7, <2>1, <2>2 DEF Before, Accepted, Tracks
    <3>2. QED
      BY <1>0, <1>3, <1>4, <1>5, <1>7, <2>1, <3>1, AgreesFrame
  <2>3. ASSUME NEW to \in {"ok", "failed"}, Goes(d, to) PROVE Agrees(e)'
    <3>1. to \in Places \ {"send", "track"}
      BY DEF Places
    <3>2. QED
      BY <1>12, <2>1, <2>3, <3>1
  <2>4. QED
    BY <1>20, <2>2, <2>3 DEF Disconnect
<1>21. CASE AddMachineID(d)
  <2>1. /\ at[d] = "new" /\ Kind(d) = "add" /\ holder = None
        /\ UNCHANGED <<conn, tracked, present, joined, inbox>>
    BY <1>21 DEF AddMachineID
  <2>2. Ends(t)' => Ends(t)
    BY <1>5, <2>1
  <2>3. CASE ~ shared /\ shared' = TRUE /\ Reset(d)
    <3>1. Before(e) /\ UNCHANGED <<state, unclaimed>>
      BY <2>3 DEF Before, Reset
    <3>2. QED
      BY <1>0, <1>3, <1>4, <1>7, <2>1, <2>2, <3>1, AgreesFrame
  <2>4. CASE state[t] = "subscribed" /\ Goes(d, "track") /\ UNCHANGED <<shared, channelVars, history>>
    <3>1. Before(e)' => Before(e)
      BY <2>4 DEF Before, Goes, TypeOK
    <3>2. QED
      BY <1>0, <1>3, <1>4, <1>7, <2>1, <2>2, <2>4, <3>1, AgreesFrame
  <2>5. CASE Goes(d, "failed") /\ UNCHANGED <<shared, channelVars, history>>
    <3>1. "failed" \in Places \ {"send", "track"}
      BY DEF Places
    <3>2. QED
      BY <1>4, <1>12, <2>1, <2>5, <3>1
  <2>6. QED
    BY <1>2, <1>21, <2>3, <2>4, <2>5 DEF AddMachineID
<1>22. ASSUME NEW ok \in BOOLEAN, Track(d, ok) PROVE Agrees(e)'
  <2>1. /\ Tracks(d) /\ holder = d /\ at[d] = "track" /\ shared /\ shared' = shared
        /\ (\E to \in {"ok", "failed"} : Goes(d, to))
        /\ UNCHANGED <<state, joined, conn>>
    BY <1>9, <1>22 DEF Track, Pushes, Tracks, MutexInv
  <2>2. ~ Before(e)'
    <3>1. e # d => at[e] # "send"
      BY <1>9, <1>11, <2>1
    <3>2. QED
      BY <2>1, <3>1 DEF Before, Goes, TypeOK
  <2>3. Accepted(t) /\ (Ends(t)' => Ends(t))
    BY <1>5, <2>1 DEF Accepted
  <2>4. t \in joined /\ conn' = "up" => present' = tracked'
    BY <1>2, <1>22, <2>1 DEF Track, Pushes, Sent
  <2>5. QED
    BY <1>0, <1>3, <1>4, <1>7, <2>1, <2>2, <2>3, <2>4, AgreesFrame
<1>23. ASSUME NEW ok \in BOOLEAN, RemoveMachineID(d, ok) PROVE Agrees(e)'
  <2>1. /\ holder = None /\ Goes(d, "ok") /\ at[d] = "new"
        /\ UNCHANGED <<shared, state, joined, conn>> /\ tracked' = tracked \ {MachineOf(d)}
    BY <1>23 DEF RemoveMachineID, Pushes, PushesNothing
  <2>2. Before(e) => unclaimed'[t] = unclaimed[t]
    <3>1. Before(e) => tracked = {}
      BY <1>9, <1>10, <1>11, <2>1 DEF Before, MutexInv
    <3>2. tracked = {} => unclaimed' = unclaimed
      BY <1>23 DEF RemoveMachineID, PushesNothing
    <3>3. QED
      BY <3>1, <3>2
  <2>3. t \in joined /\ conn' = "up" => present' = tracked'
    <3> SUFFICES ASSUME t \in joined, conn = "up" PROVE present' = tracked'
      BY <2>1
    <3>1. present = tracked /\ (tracked # {} => state[t] = "subscribed")
      BY <1>4 DEF Accepted
    <3>2. CASE MachineOf(d) \in tracked
      <4>1. Pushes(t, tracked \ {MachineOf(d)}, ok, 1)
        BY <1>2, <1>23, <3>1, <3>2 DEF RemoveMachineID
      <4>2. QED
        BY <2>1, <4>1 DEF Pushes, Sent
    <3>3. CASE MachineOf(d) \notin tracked
      BY <1>23, <2>1, <3>1, <3>3 DEF RemoveMachineID, PushesNothing
    <3>4. QED
      BY <3>2, <3>3
  <2>4. "ok" \in Places \ {"send", "track"}
    BY DEF Places
  <2>5. QED
    BY <1>12, <2>1, <2>2, <2>3, <2>4
<1>24. ASSUME NEW ok \in BOOLEAN, Stop(d, ok) PROVE Agrees(e)'
  <2>1. /\ holder = None /\ at[d] = "new" /\ UNCHANGED <<shared, state, joined, conn>> /\ tracked' = {}
    BY <1>24 DEF Stop, Pushes, PushesNothing
  <2>2. PICK to \in {"ok", "closing"} : Goes(d, to)
    BY <1>24 DEF Stop
  <2>3. Before(e) => unclaimed'[t] = unclaimed[t]
    <3>1. Before(e) => tracked = {}
      BY <1>9, <1>10, <1>11, <2>1 DEF Before, MutexInv
    <3>2. tracked = {} => unclaimed' = unclaimed
      BY <1>24 DEF Stop, PushesNothing
    <3>3. QED
      BY <3>1, <3>2
  <2>4. t \in joined /\ conn' = "up" => present' = tracked'
    <3>1. CASE tracked # {}
      <4>1. Pushes(t, {}, ok, Cardinality(tracked))
        BY <1>2, <1>24, <3>1 DEF Stop
      <4>2. QED
        BY <2>1, <4>1 DEF Pushes, Sent
    <3>2. CASE tracked = {}
      <4>1. present' = present
        BY <1>24, <3>2 DEF Stop, PushesNothing
      <4>2. QED
        BY <1>4, <2>1, <3>2, <4>1
    <3>3. QED
      BY <3>1, <3>2
  <2>5. to \in Places \ {"send", "track"}
    BY <2>2 DEF Places
  <2>6. QED
    BY <1>12, <2>1, <2>2, <2>3, <2>4, <2>5
<1>25. QED
  BY <1>14, <1>15, <1>16, <1>17, <1>18, <1>19, <1>20, <1>21, <1>22, <1>23, <1>24 DEF CallStep

LEMMA AgreesStep ==
  TypeOK /\ CallsInv /\ AnswersInv /\ MutexInv /\ AgreesInv /\ [Next]_vars => AgreesInv'
<1> SUFFICES ASSUME TypeOK, CallsInv, AnswersInv, MutexInv, AgreesInv, [Next]_vars,
                    NEW e \in Calls, Kind(e)' = "add"
             PROVE  Agrees(e)'
  BY DEF AgreesInv
<1>1. Kind(e) = "add"
  BY Undisturbs DEF Kind
<1>2. Agrees(e)
  BY <1>1 DEF AgreesInv
<1>3. CASE ReaderStep
  BY <1>2, <1>3, AgreesReader
<1>4. ASSUME NEW d \in Calls, CallStep(d) \/ CancelledFirst(d) PROVE Agrees(e)'
  BY <1>1, <1>4, AgreesCall
<1>5. CASE \/ \E ok \in BOOLEAN : Connect(ok)
           \/ ConnectionLost
           \/ \E c \in Calls, f \in Events : ServerSends(c, f)
           \/ UNCHANGED vars
  BY <1>1, <1>2, <1>5, AgreesNet
<1>6. QED
  BY <1>3, <1>4, <1>5 DEF Next

--------------------------------------------------------------------------------
(* At first nothing has happened.                                          *)
LEMMA RealtimeInit == Init => RealtimeInv
<1> SUFFICES ASSUME Init PROVE RealtimeInv
  OBVIOUS
<1>0. plan \in Plans
  BY DEF Init
<1>1. TypeOK
  <2>1. at \in [Calls -> Places]
    BY DEF Init, Places
  <2>2. 0 \in Gens /\ <<>> \in Seq(Messages) /\ 0 \in 0..MaxEvents
    BY GensFinite, RealtimeAssumption
  <2>3. QED
    BY <2>1, <2>2 DEF Init, TypeOK
<1>2. CallsInv
  <2>1. \A t \in Topics : gen[t] = 0 /\ Born(t) = {}
    BY DEF Init, Born
  <2>2. Cardinality({}) = 0 /\ IsFiniteSet({})
    BY FS_EmptySet
  <2>3. \A c \in Calls : TopicOf(c) \in Topics /\ born[c] = 0 /\ at[c] = IF Kind(c) = "never" THEN "never" ELSE "new"
    BY <1>0, PlanTypes DEF Init
  <2>4. tracked = {} /\ reader = "none" /\ conn = "none"
    BY DEF Init
  <2>5. \A t \in Topics : gen[t] = Cardinality(Born(t))
    BY <2>1, <2>2
  <2>6. ASSUME NEW c \in Calls
        PROVE  /\ at[c] = "never" <=> Kind(c) = "never"
               /\ at[c] \in {"never", "new"}
               /\ born[c] = 0 /\ born[c] <= gen[TopicOf(c)]
    BY <2>1, <2>3
  <2>7. \A c, d \in Calls : TopicOf(c) = TopicOf(d) /\ born[c] = born[d] /\ born[c] # 0 => c = d
    BY <2>3
  <2>8. ASSUME NEW c \in Calls
        PROVE  /\ at[c] = "never" <=> Kind(c) = "never"
               /\ at[c] = "new" => born[c] = 0
               /\ at[c] \in {"send", "look", "wait"} => Kind(c) \in Subscribers
               /\ at[c] = "register" => Kind(c) \in DOMAIN Registers
               /\ Kind(c) \in DOMAIN Registers /\ at[c] \in {"send", "look", "wait", "register", "ok"} => born[c] # 0
               /\ at[c] = "track" => Kind(c) = "add"
               /\ born[c] <= gen[TopicOf(c)]
    BY <2>6
  <2>9. QED
    BY <1>0, <2>2, <2>4, <2>5, <2>7, <2>8 DEF CallsInv
<1>3. \A m : m # NoMsg => ~ Coming(m)
  BY DEF Init, Coming, Within
<1>4. \A t \in Topics : ~ InSubscribed(t)
  BY DEF Init, InSubscribed
<1>5. AnswersInv
  <2> SUFFICES ASSUME NEW t \in Topics PROVE Answered(t) <= unclaimed[t] + Cardinality(Orphans(t))
    BY DEF AnswersInv
  <2>1. Count(<<cur>>, Replies(t)) = 0
    BY CountMessage DEF Init
  <2>2. Count(inbox, Replies(t)) = 0
    BY CountEmpty DEF Init
  <2>3. InBuffer(t) = {} /\ Cardinality({}) = 0
    BY FS_EmptySet DEF Init, InBuffer
  <2>4. unclaimed[t] = 0 /\ Cardinality(Orphans(t)) \in Nat
    BY <1>1, AnswerCounts DEF Init
  <2>5. Answered(t) = 0
    BY <2>1, <2>2, <2>3 DEF Answered
  <2>6. QED
    BY <2>4, <2>5
<1>6. \A t \in Topics : ~ Coming(Message(t, "phx_error")) /\ ~ Coming(Message(t, "phx_close"))
  BY <1>3, EventNames, Distinct
<1>7. ErrorsInv
  BY <1>6 DEF ErrorsInv
<1>8. HeardInv
  BY DEF Init, HeardInv, Undisturbed
<1>9. \A c \in Calls : at[c] \in {"never", "new"}
  BY DEF Init
<1>10. MutexInv
  BY <1>9, RealtimeAssumption DEF Init, MutexInv, Tracks, Joins
<1>11. AgreesInv
  <2> SUFFICES ASSUME NEW e \in Calls PROVE Agrees(e)
    BY DEF AgreesInv
  <2>1. TopicOf(e) \in Topics
    BY <1>0, PlanTypes
  <2>2. /\ joined = {} /\ unclaimed[TopicOf(e)] = 0 /\ ~ Ends(TopicOf(e))
    BY <1>6, <2>1 DEF Init, Ends
  <2>3. QED
    BY <2>2 DEF Agrees
<1>12. QED
  BY <1>1, <1>2, <1>5, <1>7, <1>8, <1>10, <1>11 DEF RealtimeInv

LEMMA RealtimeStep == RealtimeInv /\ [Next]_vars => RealtimeInv'
<1> SUFFICES ASSUME RealtimeInv, [Next]_vars PROVE RealtimeInv'
  OBVIOUS
<1>1. TypeOK /\ CallsInv /\ AnswersInv /\ ErrorsInv /\ HeardInv /\ MutexInv /\ AgreesInv
  BY DEF RealtimeInv
<1>2. TypeOK' /\ CallsInv' /\ AnswersInv' /\ ErrorsInv'
  BY <1>1, TypesStep, CallsStep, AnswersStep, ErrorsStep
<1>3. HeardInv' /\ MutexInv' /\ AgreesInv'
  BY <1>1, HeardStep, MutexStep, AgreesStep
<1>4. QED
  BY <1>2, <1>3 DEF RealtimeInv

THEOREM RealtimeInvariant == Spec => []RealtimeInv
BY RealtimeInit, RealtimeStep, PTL DEF Spec

--------------------------------------------------------------------------------
(* Every variable keeps its type, and the reader holds a message when it   *)
(* handles one or waits to hand over a reply, at no other time.            *)
THEOREM RealtimeTypes == Spec => []TypeOK
<1>1. RealtimeInv => TypeOK
  BY DEF RealtimeInv
<1>2. QED
  BY <1>1, RealtimeInvariant, PTL

(* However many calls share a client, its reader stops for ever only where *)
(* a topic has had two answers that no call was left to receive.           *)
THEOREM OneSurplusIsAbsorbed == Spec => []StuckNeedsSurplus
<1>1. RealtimeInv => StuckNeedsSurplus
  BY SurplusNeeded DEF RealtimeInv
<1>2. QED
  BY <1>1, RealtimeInvariant, PTL

(* A call whose Subscribe has returned without an error is listened to, if *)
(* it is the last on its channel and has met no other's reply.             *)
THEOREM SubscribersAreHeard == Spec => []ConfirmedIsHeard
<1>1. RealtimeInv => ConfirmedIsHeard
  <2> SUFFICES ASSUME RealtimeInv, NEW c \in Calls, at[c] = "ok", Kind(c) \in DOMAIN Registers,
                      gen[TopicOf(c)] = born[c], TopicOf(c) \notin crossed \cup broken, conn = "up"
               PROVE  TopicOf(c) \in joined /\ handlers[TopicOf(c)] = {c}
    BY DEF ConfirmedIsHeard
  <2>1. born[c] # 0
    BY DEF RealtimeInv, CallsInv
  <2>2. Heard(c)
    BY <2>1 DEF RealtimeInv, HeardInv, Undisturbed
  <2>3. QED
    BY <2>2 DEF Heard
<1>2. QED
  BY <1>1, RealtimeInvariant, PTL

(* The presence that the server shows is that of the machines in           *)
(* machineChannels, whenever nobody holds the tracker's mutex.             *)
THEOREM PresenceIsTracked == Spec => []PresenceAgrees
<1>1. RealtimeInv => PresenceAgrees
  BY DEF RealtimeInv, AgreesInv, Agrees, PresenceAgrees
<1>2. QED
  BY <1>1, RealtimeInvariant, PTL
================================================================================
