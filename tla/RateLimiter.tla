------------------------------- MODULE RateLimiter -------------------------------
(***************************************************************************)
(* The two sliding windows of one topic, or one anonymous topic, that      *)
(* ingest keeps in Redis.  A window is a sorted set with one member for    *)
(* each request, scored by the time at which the request looked at the     *)
(* clock.  A request goes through the window of a minute and then through  *)
(* that of a day, in each with a pipeline of four commands and, when it is *)
(* denied, one more call that takes its member out.                        *)
(*                                                                         *)
(* Members are taken to differ, as their random parts do, and the clocks   *)
(* of the processes to agree: a member is named after its request.         *)
(***************************************************************************)
EXTENDS Integers, FiniteSets

CONSTANTS
  Requests,
  Length,     (* the length of each window                                  *)
  Limit,      (* BurstPerMinute and DailyQuota of the tier                  *)
  Never,
  MaxTime,    (* bound on the clock                                         *)
  MaxFaults   (* bound on failed calls                                      *)

Minute == 1
Day == 2
Windows == {Minute, Day}

ASSUME LimiterAssumption ==
  /\ IsFiniteSet(Requests)
  /\ Length \in [Windows -> Nat \ {0}]
  /\ Limit \in [Windows -> Nat \ {0}]
  /\ Never \notin Nat
  /\ MaxTime \in Nat
  /\ MaxFaults \in Nat

VARIABLES
  now,
  entries,    (* the members of each window's key                           *)
  until,      (* when the key expires                                       *)
  stamp,      (* the score of each request in each window                   *)
  win,        (* the window that a request is at                            *)
  at,         (* where in CheckRateLimit it is, or how it has ended         *)
  faults

vars == <<now, entries, until, stamp, win, at, faults>>

Init ==
  /\ now = 0
  /\ entries = [w \in Windows |-> {}]
  /\ until = [w \in Windows |-> Never]
  /\ stamp = [r \in Requests |-> [w \in Windows |-> 0]]
  /\ win = [r \in Requests |-> Minute]
  /\ at = [r \in Requests |-> "start"]
  /\ faults = 0

Fault == faults < MaxFaults /\ faults' = faults + 1

Goes(r, to) == at' = [at EXCEPT ![r] = to]

(* Those that the window has let through.                                  *)
Passed(w) == {r \in Requests : win[r] > w \/ (win[r] = w /\ at[r] = "served")}

--------------------------------------------------------------------------------
Tick ==
  /\ now < MaxTime
  /\ now' = now + 1
  /\ UNCHANGED <<entries, until, stamp, win, at, faults>>

(* A handler looks at the clock; its pipeline may reach Redis later.       *)
\* Mutant: the score is the start of the window.
TakeStart(r) ==
  /\ at[r] = "start"
  /\ stamp' = [stamp EXCEPT ![r][win[r]] = now - Length[win[r]]]
  /\ Goes(r, "check")
  /\ UNCHANGED <<now, entries, until, win, faults>>

TakeTime(r) ==
  /\ at[r] = "start"
  /\ stamp' = [stamp EXCEPT ![r][win[r]] = now]
  /\ Goes(r, "check")
  /\ UNCHANGED <<now, entries, until, win, faults>>

(* ZREMRANGEBYSCORE, then ZADD.                                            *)
\* Mutant: entries leave the window one unit too early.
KeptTooFew(r) ==
  {q \in entries[win[r]] : stamp[q][win[r]] > stamp[r][win[r]] - Length[win[r]] + 1}

Kept(r) ==
  {q \in entries[win[r]] : stamp[q][win[r]] > stamp[r][win[r]] - Length[win[r]]}

Added(r) == Kept(r) \cup {r}

(* The pipeline ends with ZCARD and EXPIRE; the handler compares the count *)
(* with the limit.                                                         *)
Admit(r) ==
  /\ at[r] = "check"
  /\ Cardinality(Added(r)) <= Limit[win[r]]
  /\ entries' = [entries EXCEPT ![win[r]] = Added(r)]
  /\ until' = [until EXCEPT ![win[r]] = now + Length[win[r]]]
  /\ win' = [win EXCEPT ![r] = Day]
  /\ Goes(r, IF win[r] = Minute THEN "start" ELSE "served")
  /\ UNCHANGED <<now, stamp, faults>>

Deny(r) ==
  /\ at[r] = "check"
  /\ Cardinality(Added(r)) > Limit[win[r]]
  /\ entries' = [entries EXCEPT ![win[r]] = Added(r)]
  /\ until' = [until EXCEPT ![win[r]] = now + Length[win[r]]]
  /\ Goes(r, "remove")
  /\ UNCHANGED <<now, stamp, win, faults>>

(* The pipeline fails after some of its commands: none, the first, the     *)
(* first two or three, or all of them.  A key that becomes empty is gone,  *)
(* and its expiry with it.                                                 *)
CheckFails(r, done) ==
  /\ at[r] = "check"
  /\ Fault
  /\ entries' = IF done = "none" THEN entries
                ELSE [entries EXCEPT ![win[r]] = IF done = "removed" THEN Kept(r) ELSE Added(r)]
  /\ until' = IF done = "none" THEN until
              ELSE [until EXCEPT ![win[r]] = IF done = "all" THEN now + Length[win[r]]
                                             ELSE IF Kept(r) = {} THEN Never ELSE @]
  /\ Goes(r, "failed")
  /\ UNCHANGED <<now, stamp, win>>

(* A denied request takes its own member out.                              *)
\* Mutant: a denied request leaves its member in the window.
RemoveNothing(r) ==
  /\ at[r] = "remove"
  /\ Goes(r, "denied")
  /\ UNCHANGED <<now, entries, until, stamp, win, faults>>

Remove(r) ==
  /\ at[r] = "remove"
  /\ entries' = [entries EXCEPT ![win[r]] = @ \ {r}]
  /\ until' = [until EXCEPT ![win[r]] = IF entries[win[r]] \subseteq {r} THEN Never ELSE @]
  /\ Goes(r, "denied")
  /\ UNCHANGED <<now, stamp, win, faults>>

(* That call's failure is not looked at: the client may have hung up.      *)
RemoveFails(r) ==
  /\ at[r] = "remove"
  /\ Fault
  /\ Goes(r, "left")
  /\ UNCHANGED <<now, entries, until, stamp, win>>

(* Redis drops a key some time after its expiry.                           *)
KeyExpires(w) ==
  /\ until[w] # Never
  /\ until[w] <= now
  /\ entries' = [entries EXCEPT ![w] = {}]
  /\ until' = [until EXCEPT ![w] = Never]
  /\ UNCHANGED <<now, stamp, win, at, faults>>

--------------------------------------------------------------------------------
Next ==
  \/ Tick
  \/ \E r \in Requests :
       \/ TakeTime(r) \/ Admit(r) \/ Deny(r) \/ Remove(r) \/ RemoveFails(r)
       \/ \E done \in {"none", "removed", "added", "all"} : CheckFails(r, done)
  \/ \E w \in Windows : KeyExpires(w)

Spec == Init /\ [][Next]_vars

--------------------------------------------------------------------------------
TypeOK ==
  /\ now \in Nat
  /\ entries \in [Windows -> SUBSET Requests]
  /\ until \in [Windows -> Nat \cup {Never}]
  /\ stamp \in [Requests -> [Windows -> Nat]]
  /\ win \in [Requests -> Windows]
  /\ at \in [Requests -> {"start", "check", "remove", "served", "denied", "left", "failed"}]
  /\ faults \in 0 .. MaxFaults

(* The requests that a window has let through and that are in it now.      *)
Current(w) == {r \in Passed(w) : stamp[r][w] > now - Length[w]}

(* At any time, of the requests stamped within the window that ends now,   *)
(* no more than the limit have been let through: however their pipelines   *)
(* were delayed and overtook one another, whatever failed and expired.     *)
WithinLimit == \A w \in Windows : Cardinality(Current(w)) <= Limit[w]

(* A member in the set of a window is that of a request that was let       *)
(* through, that is on its way to take it out, or whose call failed.       *)
Accounted(r, w) ==
  r \in Passed(w) \/ (win[r] = w /\ at[r] \in {"remove", "left", "failed"})

(* A request is denied only when there are as many others as the limit, no *)
(* older than the window, that have been let through, have not yet been    *)
(* taken out after a denial, or could not be because of a failure: what    *)
(* was denied earlier does not count.                                      *)
DenialsAreEarned ==
  [][\A r \in Requests :
       (at[r] = "check" /\ at'[r] = "remove") =>
         Cardinality({q \in Requests \ {r} : /\ Accounted(q, win[r])
                                              /\ stamp[q][win[r]] > stamp[r][win[r]] - Length[win[r]]})
           >= Limit[win[r]]]_vars

(* What each window's key holds, and when it expires, covers what it must  *)
(* still count: the inductive invariant.                                   *)
StampsPast == \A r \in Requests, w \in Windows : stamp[r][w] <= now

CurrentIsKept == \A w \in Windows : Current(w) \subseteq entries[w]

ExpiryIsLate ==
  \A w \in Windows : until[w] # Never =>
    \A r \in Passed(w) \cap entries[w] : stamp[r][w] + Length[w] <= until[w]

EntriesAccounted == \A w \in Windows : \A r \in entries[w] : Accounted(r, w)

LimiterInv ==
  /\ TypeOK
  /\ StampsPast
  /\ CurrentIsKept
  /\ ExpiryIsLate
  /\ EntriesAccounted
  /\ WithinLimit
================================================================================
