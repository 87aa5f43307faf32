----------------------- MODULE SubscriptionTracking_proofs -----------------------
(***************************************************************************)
(* Proofs about SubscriptionTracking, for any number of topics, instances  *)
(* and streams, and any number of failures.                                *)
(***************************************************************************)
EXTENDS SubscriptionTracking, TLAPS

(* Where a stream is while its topics are tracked: an open one has tracked *)
(* them all.  A key expires only by a fault.                               *)
Progress ==
  /\ \A s \in Subs : handler[s] = "open" => todo[s] = {}
  /\ expired => faults # 0

TrackingInv == TypeOK /\ Progress

LEMMA TrackingStep == TrackingInv /\ [Next]_vars => TrackingInv'
<1> SUFFICES ASSUME TrackingInv, [Next]_vars PROVE TrackingInv'
  OBVIOUS
<1> USE TrackingAssumption DEF TrackingInv, TypeOK, Progress
<1>1. ASSUME NEW t \in Topics, TopicExpires(t) PROVE TrackingInv'
  BY <1>1 DEF TopicExpires, Expire, Fault, subVars, serverVars
<1>2. ASSUME NEW s \in Subs, Accept(s) \/ OpenReader(s) \/ Cancel(s) \/ CloseStream(s)
      PROVE  TrackingInv'
  <2>1. CASE Accept(s)
    BY <2>1 DEF Accept, redisVars, serverVars
  <2>2. CASE OpenReader(s)
    BY <2>2 DEF OpenReader, redisVars, serverVars
  <2>3. CASE Cancel(s)
    BY <2>3 DEF Cancel, redisVars, serverVars
  <2>4. CASE CloseStream(s)
    <3>1. live' \in [Subs -> BOOLEAN]
      BY <2>4, Zenon DEF CloseStream
    <3>2. QED
      BY <2>4, <3>1 DEF CloseStream, redisVars, serverVars
  <2>5. QED
    BY <1>2, <2>1, <2>2, <2>3, <2>4
<1>3. ASSUME NEW s \in Subs, OpenFails(s) PROVE TrackingInv'
  BY <1>3 DEF OpenFails, Fault, redisVars, serverVars
<1>4. ASSUME NEW s \in Subs, NEW t \in TopicsOf[s], NEW ok \in BOOLEAN, Track(s, t, ok)
      PROVE  TrackingInv'
  <2>1. t \in Topics /\ InstanceOf[s] \in Instances
    OBVIOUS
  <2>2. faults' \in 0 .. MaxFaults /\ (faults # 0 => faults' # 0)
    BY <1>4 DEF Track, Call, Fault
  <2>3. instances' \in [Topics -> SUBSET Instances] /\ topics' \in [Instances -> SUBSET Topics]
    BY <1>4, <2>1 DEF Track, redisVars
  <2>4. late' \in SUBSET Subs /\ todo' \in [Subs -> SUBSET Topics]
    BY <1>4 DEF Track
  <2>5. QED
    BY <1>4, <2>2, <2>3, <2>4 DEF Track, serverVars
<1>5. ASSUME NEW s \in Subs, NEW t \in TopicsOf[s], NEW ok \in BOOLEAN, Untrack(s, t, ok)
      PROVE  TrackingInv'
  <2>1. faults' \in 0 .. MaxFaults /\ (faults # 0 => faults' # 0)
    BY <1>5 DEF Untrack, Call, Fault
  <2>2. instances' \in [Topics -> SUBSET Instances] /\ topics' \in [Instances -> SUBSET Topics]
    BY <1>5 DEF Untrack, redisVars
  <2>3. live' \in [Subs -> BOOLEAN]
    BY <1>5, Zenon DEF Untrack
  <2>4. QED
    BY <1>5, <2>1, <2>2, <2>3 DEF Untrack, serverVars
<1>6. ASSUME NEW i \in Instances,
             CleanupReads(i) \/ CleanupDeletes(i) \/ CleanupFails(i) \/ InstanceExpires(i)
      PROVE  TrackingInv'
  <2>1. CASE CleanupReads(i)
    BY <2>1 DEF CleanupReads, redisVars, subVars
  <2>2. CASE CleanupDeletes(i)
    BY <2>2 DEF CleanupDeletes, subVars
  <2>3. CASE CleanupFails(i)
    BY <2>3 DEF CleanupFails, Fault, redisVars, subVars
  <2>4. CASE InstanceExpires(i)
    BY <2>4 DEF InstanceExpires, Expire, Fault, serverVars, subVars
  <2>5. QED
    BY <1>6, <2>1, <2>2, <2>3, <2>4
<1>7. ASSUME NEW i \in Instances, Crash(i) PROVE TrackingInv'
  <2> DEFINE mine == {s \in Subs : InstanceOf[s] = i /\ handler[s] # "new"}
  <2>1. /\ Fault
        /\ server' = [server EXCEPT ![i] = "down"] /\ members' = [members EXCEPT ![i] = {}]
        /\ handler' = [s \in Subs |-> IF s \in mine THEN "untracking" ELSE handler[s]]
        /\ todo' = [s \in Subs |-> IF s \in mine THEN {} ELSE todo[s]]
        /\ live' = [s \in Subs |-> live[s] /\ s \notin mine]
        /\ UNCHANGED <<redisVars, late, expired>>
    BY <1>7 DEF Crash
  <2> HIDE DEF mine
  <2>2. live' \in [Subs -> BOOLEAN]
    BY <2>1, Zenon
  <2>3. QED
    BY <2>1, <2>2 DEF Fault, redisVars
<1>8. CASE UNCHANGED vars
  BY <1>8 DEF vars, redisVars, subVars, serverVars
<1>9. QED
  BY <1>1, <1>2, <1>3, <1>4, <1>5, <1>6, <1>7, <1>8 DEF Next

(* The types of SubscriptionTracking.                                      *)
THEOREM TrackingTypes == Spec => [](TypeOK /\ Progress)
<1>1. Init => TrackingInv
  <2>1. Init => live \in [Subs -> BOOLEAN] /\ expired \in BOOLEAN
    BY Zenon DEF Init
  <2>2. Init => Progress /\ faults \in 0 .. MaxFaults
    BY TrackingAssumption DEF Init, Progress
  <2>3. QED
    BY <2>1, <2>2 DEF Init, TrackingInv, TypeOK
<1>2. QED
  BY <1>1, TrackingStep, PTL DEF Spec, TrackingInv

--------------------------------------------------------------------------------
(* The two kinds of sets change together, in Track and in Untrack.         *)
LEMMA AgreeStep == TrackingInv /\ SetsAgree /\ [Next]_vars => SetsAgree'
<1> SUFFICES ASSUME TrackingInv, SetsAgree, [Next]_vars,
                    ~expired', NEW i \in Instances, NEW t \in Topics, server'[i] = "serving"
             PROVE  i \in instances'[t] <=> t \in topics'[i]
  BY DEF SetsAgree
<1> USE TrackingAssumption DEF TrackingInv, TypeOK
<1> DEFINE Agree == i \in instances'[t] <=> t \in topics'[i]
<1>1. ASSUME UNCHANGED <<instances, topics>>, expired' = expired, server[i] = "serving"
      PROVE  Agree
  BY <1>1 DEF SetsAgree
<1>2. ASSUME NEW s \in Subs, NEW u \in TopicsOf[s], NEW ok \in BOOLEAN,
             Track(s, u, ok) \/ Untrack(s, u, ok)
      PROVE  Agree
  <2>1. u \in Topics /\ InstanceOf[s] \in Instances
    OBVIOUS
  <2>2. server[i] = "serving" /\ ~expired
    BY <1>2 DEF Track, Untrack, serverVars
  <2>3. i \in instances[t] <=> t \in topics[i]
    BY <2>2 DEF SetsAgree
  <2>4. CASE Track(s, u, ok)
    BY <2>1, <2>3, <2>4 DEF Track, redisVars
  <2>5. CASE Untrack(s, u, ok)
    BY <2>1, <2>3, <2>5 DEF Untrack, redisVars
  <2>6. QED
    BY <1>2, <2>4, <2>5
<1>3. ASSUME NEW s \in Subs,
             Accept(s) \/ OpenReader(s) \/ OpenFails(s) \/ Cancel(s) \/ CloseStream(s)
      PROVE  Agree
  BY <1>1, <1>3 DEF Accept, OpenReader, OpenFails, Cancel, CloseStream, redisVars, serverVars
<1>4. ASSUME NEW j \in Instances, CleanupReads(j) \/ CleanupFails(j) \/ Crash(j) PROVE Agree
  <2>1. server[i] = "serving"
    BY <1>4 DEF CleanupReads, CleanupFails, Crash
  <2>2. QED
    BY <1>1, <1>4, <2>1 DEF CleanupReads, CleanupFails, Crash, redisVars
<1>5. ASSUME NEW j \in Instances, CleanupDeletes(j) PROVE Agree
  <2>1. i # j /\ server[i] = "serving" /\ ~expired
    BY <1>5 DEF CleanupDeletes
  <2>2. i \in instances'[t] <=> i \in instances[t]
    BY <1>5, <2>1 DEF CleanupDeletes
  <2>3. topics'[i] = topics[i]
    BY <1>5, <2>1 DEF CleanupDeletes
  <2>4. QED
    BY <2>1, <2>2, <2>3 DEF SetsAgree
<1>6. ASSUME \/ \E u \in Topics : TopicExpires(u)
             \/ \E j \in Instances : InstanceExpires(j)
      PROVE  Agree
  BY <1>6 DEF TopicExpires, InstanceExpires, Expire
<1>7. CASE UNCHANGED vars
  BY <1>1, <1>7 DEF vars, redisVars, serverVars
<1>8. QED
  BY <1>2, <1>3, <1>4, <1>5, <1>6, <1>7 DEF Next

(* While an instance serves, its own set and those of the topics agree.    *)
THEOREM SetsAlwaysAgree == Spec => []SetsAgree
<1>1. Init => SetsAgree
  BY DEF Init, SetsAgree
<1>2. QED
  BY <1>1, AgreeStep, TrackingTypes, PTL DEF Spec, TrackingInv

--------------------------------------------------------------------------------
(* From SMEMBERS on, what the cleanup will not remove was tracked late.    *)
Late(i, t) == \E s \in late : InstanceOf[s] = i /\ t \in TopicsOf[s]

CleanupInv ==
  faults = 0 =>
    \A i \in Instances, t \in Topics : i \in instances[t] =>
      /\ server[i] = "cleaning" => t \in members[i] \/ Late(i, t)
      /\ server[i] = "down" => Late(i, t)

LEMMA CleanupStep ==
  TrackingInv /\ SetsAgree /\ CleanupInv /\ [Next]_vars => CleanupInv'
<1> SUFFICES ASSUME TrackingInv, SetsAgree, CleanupInv, [Next]_vars, faults' = 0,
                    NEW i \in Instances, NEW t \in Topics, i \in instances'[t]
             PROVE  /\ server'[i] = "cleaning" => t \in members'[i] \/ Late(i, t)'
                    /\ server'[i] = "down" => Late(i, t)'
  BY DEF CleanupInv
<1> USE TrackingAssumption DEF TrackingInv, TypeOK
<1> DEFINE Goal == /\ server'[i] = "cleaning" => t \in members'[i] \/ Late(i, t)'
                   /\ server'[i] = "down" => Late(i, t)'
<1>1. ASSUME faults = 0, i \in instances[t], server'[i] = server[i], members'[i] = members[i],
             late \subseteq late'
      PROVE  Goal
  BY <1>1 DEF CleanupInv, Late
<1>2. ASSUME NEW s \in Subs, NEW u \in TopicsOf[s], NEW ok \in BOOLEAN, Track(s, u, ok)
      PROVE  Goal
  <2>1. u \in Topics /\ InstanceOf[s] \in Instances
    OBVIOUS
  <2>2. faults = 0 /\ UNCHANGED <<server, members>> /\ late \subseteq late'
    BY <1>2 DEF Track, Call, Fault, serverVars
  <2>3. CASE i \in instances[t]
    BY <1>1, <2>2, <2>3
  <2>4. CASE i \notin instances[t]
    <3>1. i = InstanceOf[s] /\ t = u
      BY <1>2, <2>1, <2>4 DEF Track, redisVars
    <3>2. server[i] # "serving" => s \in late'
      BY <1>2, <3>1 DEF Track
    <3>3. QED
      BY <2>2, <3>1, <3>2 DEF Late
  <2>5. QED
    BY <2>3, <2>4
<1>3. ASSUME NEW s \in Subs, NEW u \in TopicsOf[s], NEW ok \in BOOLEAN, Untrack(s, u, ok)
      PROVE  Goal
  <2>1. i \in instances[t]
    BY <1>3 DEF Untrack, redisVars
  <2>2. QED
    BY <1>1, <1>3, <2>1 DEF Untrack, Call, Fault, serverVars
<1>4. ASSUME NEW s \in Subs,
             Accept(s) \/ OpenReader(s) \/ OpenFails(s) \/ Cancel(s) \/ CloseStream(s)
      PROVE  Goal
  <2>1. faults = 0 /\ UNCHANGED <<instances, server, members, late>>
    BY <1>4 DEF Accept, OpenReader, OpenFails, Cancel, CloseStream, Fault, redisVars, serverVars
  <2>2. QED
    BY <1>1, <2>1
<1>5. ASSUME NEW j \in Instances, CleanupReads(j) PROVE Goal
  <2>1. /\ faults = 0 /\ UNCHANGED <<instances, late>> /\ server[j] = "serving"
        /\ server' = [server EXCEPT ![j] = "cleaning"]
        /\ members' = [members EXCEPT ![j] = topics[j]]
    BY <1>5 DEF CleanupReads, redisVars, subVars
  <2>2. CASE i # j
    BY <1>1, <2>1, <2>2
  <2>3. CASE i = j
    BY <2>1, <2>3 DEF SetsAgree, Progress
  <2>4. QED
    BY <2>2, <2>3
<1>6. ASSUME NEW j \in Instances, CleanupDeletes(j) PROVE Goal
  <2>1. /\ faults = 0 /\ late' = late /\ server[j] = "cleaning"
        /\ instances' = [u \in Topics |-> IF u \in members[j] THEN instances[u] \ {j}
                                          ELSE instances[u]]
        /\ server' = [server EXCEPT ![j] = "down"]
        /\ members' = [members EXCEPT ![j] = {}]
    BY <1>6 DEF CleanupDeletes, subVars
  <2>2. i \in instances[t]
    BY <2>1
  <2>3. CASE i # j
    BY <1>1, <2>1, <2>2, <2>3
  <2>4. CASE i = j
    <3>1. t \notin members[i]
      BY <2>1, <2>4
    <3>2. QED
      BY <2>1, <2>2, <2>4, <3>1 DEF CleanupInv, Late
  <2>5. QED
    BY <2>3, <2>4
<1>7. ASSUME \/ \E u \in Topics : TopicExpires(u)
             \/ \E j \in Instances : CleanupFails(j) \/ Crash(j) \/ InstanceExpires(j)
      PROVE  Goal
  <2>1. faults' = faults + 1
    BY <1>7 DEF TopicExpires, CleanupFails, Crash, InstanceExpires, Expire, Fault
  <2>2. QED
    BY <2>1
<1>8. CASE UNCHANGED vars
  BY <1>1, <1>8 DEF vars, redisVars, subVars, serverVars
<1>9. QED
  BY <1>2, <1>3, <1>4, <1>5, <1>6, <1>7, <1>8 DEF Next

(* After its cleanup an instance is listed only where a stream that came   *)
(* too late has listed it again.                                           *)
THEOREM CleanupCompletes == Spec => []CleanupIsComplete
<1>1. Init => CleanupInv
  BY DEF Init, CleanupInv
<1>2. CleanupInv => CleanupIsComplete
  BY DEF CleanupInv, CleanupIsComplete, Late
<1>3. QED
  BY <1>1, <1>2, CleanupStep, SetsAlwaysAgree, TrackingTypes, PTL DEF Spec, TrackingInv

--------------------------------------------------------------------------------
(* What a stream has tracked stays tracked until a sibling leaves.         *)
Undisturbed(s) ==
  /\ handler[s] \in {"tracking", "open"} /\ live[s]
  /\ server[InstanceOf[s]] = "serving"
  /\ \A r \in Siblings(s) : handler[r] # "untracking"

TrackedInv ==
  faults = 0 =>
    \A s \in Subs : Undisturbed(s) =>
      \A t \in TopicsOf[s] \ todo[s] : InstanceOf[s] \in instances[t]

LEMMA TrackedStep == TrackingInv /\ TrackedInv /\ [Next]_vars => TrackedInv'
<1> SUFFICES ASSUME TrackingInv, TrackedInv, [Next]_vars, faults' = 0,
                    NEW s \in Subs, Undisturbed(s)',
                    NEW t \in TopicsOf[s], t \notin todo'[s]
             PROVE  InstanceOf[s] \in instances'[t]
  BY DEF TrackedInv
<1> USE TrackingAssumption DEF TrackingInv, TypeOK
<1>1. t \in Topics /\ InstanceOf[s] \in Instances
  OBVIOUS
<1>2. ASSUME faults = 0, \A r \in Subs : handler[r] = "untracking" => handler'[r] = "untracking",
             handler[s] \in {"tracking", "open"}, live[s], server[InstanceOf[s]] = "serving",
             t \notin todo[s]
      PROVE  InstanceOf[s] \in instances[t]
  BY <1>2 DEF TrackedInv, Undisturbed, Siblings
<1>3. ASSUME NEW r \in Subs, NEW u \in TopicsOf[r], NEW ok \in BOOLEAN, Track(r, u, ok)
      PROVE  InstanceOf[s] \in instances'[t]
  <2>1. u \in Topics /\ InstanceOf[r] \in Instances
    OBVIOUS
  <2>2. faults = 0 /\ UNCHANGED <<handler, live, server>> /\ (ok \/ ~live[r])
    BY <1>3 DEF Track, Call, Fault, serverVars
  <2>3. CASE r = s /\ t = u
    BY <1>1, <1>3, <2>2, <2>3 DEF Track, Undisturbed
  <2>4. CASE ~ (r = s /\ t = u)
    <3>1. t \notin todo[s]
      BY <1>3, <2>4 DEF Track
    <3>2. InstanceOf[s] \in instances[t]
      BY <1>2, <2>2, <3>1 DEF Undisturbed
    <3>3. QED
      BY <1>1, <1>3, <2>1, <3>2 DEF Track, redisVars
  <2>5. QED
    BY <2>3, <2>4
<1>4. ASSUME NEW r \in Subs, NEW u \in TopicsOf[r], NEW ok \in BOOLEAN, Untrack(r, u, ok)
      PROVE  InstanceOf[s] \in instances'[t]
  <2>1. /\ faults = 0 /\ UNCHANGED <<handler, server>> /\ handler[r] = "untracking"
        /\ live'[s] => live[s]
    BY <1>4 DEF Untrack, Call, Fault, serverVars
  <2>2. r # s /\ todo'[s] = todo[s]
    BY <1>4, <2>1 DEF Untrack, Undisturbed
  <2>3. InstanceOf[s] \in instances[t]
    BY <1>2, <2>1, <2>2 DEF Undisturbed
  <2>4. ~ (InstanceOf[r] = InstanceOf[s] /\ u = t)
    BY <2>1, <2>2 DEF Undisturbed, Siblings
  <2>5. QED
    BY <1>1, <1>4, <2>3, <2>4 DEF Untrack, redisVars
<1>5. ASSUME NEW r \in Subs, Accept(r) \/ OpenReader(r) \/ Cancel(r)
      PROVE  InstanceOf[s] \in instances'[t]
  <2>1. faults = 0 /\ UNCHANGED <<instances, server>>
    BY <1>5 DEF Accept, OpenReader, Cancel, redisVars, serverVars
  <2>2. \A q \in Subs : handler[q] = "untracking" => handler'[q] = "untracking"
    BY <1>5 DEF Accept, OpenReader, Cancel
  <2>3. handler[s] \in {"tracking", "open"} /\ t \notin todo[s] /\ live[s]
    BY <1>5 DEF Accept, OpenReader, Cancel, Undisturbed
  <2>4. QED
    BY <1>2, <2>1, <2>2, <2>3 DEF Undisturbed
<1>6. ASSUME NEW r \in Subs, OpenFails(r) \/ CloseStream(r)
      PROVE  InstanceOf[s] \in instances'[t]
  <2>1. faults = 0 /\ UNCHANGED <<instances, server>> /\ handler'[r] = "untracking"
    BY <1>6 DEF OpenFails, CloseStream, Fault, redisVars, serverVars
  <2>2. \A q \in Subs : handler[q] = "untracking" => handler'[q] = "untracking"
    BY <1>6 DEF OpenFails, CloseStream
  <2>3. r # s
    BY <2>1 DEF Undisturbed
  <2>4. handler[s] \in {"tracking", "open"} /\ t \notin todo[s] /\ live[s]
    BY <1>6, <2>3 DEF OpenFails, CloseStream, Undisturbed
  <2>5. QED
    BY <1>2, <2>1, <2>2, <2>4 DEF Undisturbed
<1>7. ASSUME NEW j \in Instances, CleanupReads(j) \/ CleanupDeletes(j)
      PROVE  InstanceOf[s] \in instances'[t]
  <2>1. /\ faults = 0 /\ UNCHANGED <<handler, todo, live>> /\ server'[j] # "serving"
        /\ \A k \in Instances : k # j => server'[k] = server[k]
    BY <1>7 DEF CleanupReads, CleanupDeletes, subVars
  <2>2. InstanceOf[s] # j
    BY <2>1 DEF Undisturbed
  <2>3. InstanceOf[s] \in instances[t]
    BY <1>1, <1>2, <2>1, <2>2 DEF Undisturbed
  <2>4. QED
    BY <1>1, <1>7, <2>2, <2>3 DEF CleanupReads, CleanupDeletes, redisVars
<1>8. ASSUME \/ \E u \in Topics : TopicExpires(u)
             \/ \E j \in Instances : CleanupFails(j) \/ Crash(j) \/ InstanceExpires(j)
      PROVE  FALSE
  <2>1. faults' = faults + 1
    BY <1>8 DEF TopicExpires, CleanupFails, Crash, InstanceExpires, Expire, Fault
  <2>2. QED
    BY <2>1
<1>9. CASE UNCHANGED vars
  BY <1>2, <1>9 DEF vars, redisVars, subVars, serverVars, Undisturbed
<1>10. QED
  BY <1>3, <1>4, <1>5, <1>6, <1>7, <1>8, <1>9 DEF Next

(* No webhook is dropped while a stream listens to its topic, as long as   *)
(* no sibling with the topic has been closed and nothing has failed.       *)
THEOREM NobodyAloneIsDropped == Spec => []AloneIsNotDropped
<1>1. Init => TrackedInv
  BY DEF Init, TrackedInv, Undisturbed
<1>2. TrackingInv /\ TrackedInv => AloneIsNotDropped
  BY DEF TrackingInv, Progress, TrackedInv, Undisturbed, AloneIsNotDropped, Listening, Drops
<1>3. QED
  BY <1>1, <1>2, TrackedStep, TrackingTypes, PTL DEF Spec, TrackingInv

================================================================================
