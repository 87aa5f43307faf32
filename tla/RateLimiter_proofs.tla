--------------------------- MODULE RateLimiter_proofs ---------------------------
(***************************************************************************)
(* Proofs about RateLimiter, for every finite set of requests, every       *)
(* length and limit of the windows and every bound.                        *)
(***************************************************************************)
EXTENDS RateLimiter, FiniteSetTheorems, TLAPS

(* Sets of requests are finite, and the larger has no smaller cardinality. *)
LEMMA RequestSets ==
  ASSUME NEW S \in SUBSET Requests
  PROVE  /\ IsFiniteSet(S)
         /\ Cardinality(S) \in Nat
         /\ \A T \in SUBSET S : Cardinality(T) \in Nat /\ Cardinality(T) <= Cardinality(S)
<1>1. IsFiniteSet(S)
  BY FS_Subset, LimiterAssumption
<1>2. ASSUME NEW T \in SUBSET S
      PROVE  Cardinality(T) \in Nat /\ Cardinality(T) <= Cardinality(S)
  BY <1>1, FS_Subset, FS_CardinalityType
<1>3. QED
  BY <1>1, <1>2, FS_CardinalityType

(* What the pipeline of a request leaves in the set of its window.         *)
LEMMA PipelineSets ==
  ASSUME TypeOK, NEW r \in Requests
  PROVE  /\ Kept(r) \in SUBSET entries[win[r]]
         /\ Kept(r) \in SUBSET Requests
         /\ Added(r) \in SUBSET Requests
  BY DEF TypeOK, Kept, Added

--------------------------------------------------------------------------------
(* Types.                                                                  *)
LEMMA TypeInit == Init => TypeOK
  BY LimiterAssumption DEF Init, TypeOK, Windows, Minute, Day

LEMMA TypeStep == TypeOK /\ [Next]_vars => TypeOK'
<1> SUFFICES ASSUME TypeOK, [Next]_vars
             PROVE  TypeOK'
  OBVIOUS
<1> USE LimiterAssumption
<1>1. CASE Tick
  BY <1>1 DEF Tick, TypeOK
<1>2. ASSUME NEW r \in Requests, TakeTime(r)
      PROVE  TypeOK'
  BY <1>2 DEF TakeTime, Goes, TypeOK
<1>3. ASSUME NEW r \in Requests, Admit(r)
      PROVE  TypeOK'
  BY <1>3, PipelineSets DEF Admit, Goes, TypeOK, Windows, Minute, Day
<1>4. ASSUME NEW r \in Requests, Deny(r)
      PROVE  TypeOK'
  BY <1>4, PipelineSets DEF Deny, Goes, TypeOK
<1>5. ASSUME NEW r \in Requests, Remove(r)
      PROVE  TypeOK'
  BY <1>5 DEF Remove, Goes, TypeOK
<1>6. ASSUME NEW r \in Requests, RemoveFails(r)
      PROVE  TypeOK'
  BY <1>6 DEF RemoveFails, Fault, Goes, TypeOK
<1>7. ASSUME NEW r \in Requests, NEW done \in {"none", "removed", "added", "all"},
             CheckFails(r, done)
      PROVE  TypeOK'
  <2>1. entries' \in [Windows -> SUBSET Requests]
    BY <1>7, PipelineSets DEF CheckFails, TypeOK
  <2>2. until' \in [Windows -> Nat \cup {Never}]
    BY <1>7 DEF CheckFails, TypeOK
  <2>3. faults' \in 0 .. MaxFaults
    BY <1>7 DEF CheckFails, Fault, TypeOK
  <2>4. at' \in [Requests -> {"start", "check", "remove", "served", "denied", "left", "failed"}]
    BY <1>7 DEF CheckFails, Goes, TypeOK
  <2>5. QED
    BY <1>7, <2>1, <2>2, <2>3, <2>4 DEF CheckFails, TypeOK
<1>8. ASSUME NEW w \in Windows, KeyExpires(w)
      PROVE  TypeOK'
  BY <1>8 DEF KeyExpires, TypeOK
<1>9. CASE UNCHANGED vars
  BY <1>9 DEF vars, TypeOK
<1>10. QED
  BY <1>1, <1>2, <1>3, <1>4, <1>5, <1>6, <1>7, <1>8, <1>9 DEF Next

--------------------------------------------------------------------------------
(* The inductive invariant, initially.                                     *)
LEMMA InvInit == Init => LimiterInv
<1> SUFFICES ASSUME Init
             PROVE  LimiterInv
  OBVIOUS
<1>1. TypeOK
  BY TypeInit
<1>2. \A w \in Windows : Passed(w) = {}
  BY DEF Init, Passed, Windows, Minute, Day
<1>3. \A w \in Windows : Current(w) = {}
  BY <1>2 DEF Current
<1>4. WithinLimit
  BY <1>3, FS_EmptySet, LimiterAssumption DEF WithinLimit
<1>5. StampsPast
  BY DEF Init, StampsPast
<1>6. CurrentIsKept /\ ExpiryIsLate
  BY <1>2, <1>3 DEF CurrentIsKept, ExpiryIsLate
<1>7. EntriesAccounted
  BY DEF Init, EntriesAccounted
<1>8. QED
  BY <1>1, <1>4, <1>5, <1>6, <1>7 DEF LimiterInv

(* Nothing but Admit lets a request through a window, and nothing changes  *)
(* the score of one that has been let through.                             *)
LEMMA OthersLetNobodyThrough ==
  ASSUME TypeOK, [Next]_vars, NEW w \in Windows,
         \A r \in Requests : ~Admit(r)
  PROVE  /\ Passed(w)' = Passed(w)
         /\ \A q \in Passed(w) : stamp'[q][w] = stamp[q][w]
         /\ now' \in Nat /\ now <= now'
<1>1. CASE Tick
  BY <1>1 DEF Tick, TypeOK, Passed
<1>2. ASSUME NEW r \in Requests, TakeTime(r)
      PROVE  /\ Passed(w)' = Passed(w)
             /\ \A q \in Passed(w) : stamp'[q][w] = stamp[q][w]
             /\ now' = now
  <2>1. Passed(w)' = Passed(w) /\ now' = now
    BY <1>2 DEF TakeTime, Goes, TypeOK, Passed
  <2>2. r \in Passed(w) => win[r] # w
    BY <1>2 DEF TakeTime, Passed, TypeOK, Windows, Minute, Day
  <2>3. QED
    BY <1>2, <2>1, <2>2 DEF TakeTime, TypeOK, Passed
<1>3. ASSUME NEW r \in Requests, Deny(r) \/ Remove(r) \/ RemoveFails(r)
      PROVE  Passed(w)' = Passed(w) /\ stamp' = stamp /\ now' = now
  BY <1>3 DEF Deny, Remove, RemoveFails, Goes, TypeOK, Passed
<1>4. ASSUME NEW r \in Requests, NEW done \in {"none", "removed", "added", "all"},
             CheckFails(r, done)
      PROVE  Passed(w)' = Passed(w) /\ stamp' = stamp /\ now' = now
  BY <1>4 DEF CheckFails, Goes, TypeOK, Passed
<1>5. ASSUME NEW v \in Windows, KeyExpires(v)
      PROVE  Passed(w)' = Passed(w) /\ stamp' = stamp /\ now' = now
  BY <1>5 DEF KeyExpires, Passed
<1>6. CASE UNCHANGED vars
  BY <1>6 DEF vars, Passed, TypeOK
<1>7. QED
  BY <1>1, <1>2, <1>3, <1>4, <1>5, <1>6 DEF Next, TypeOK

(* Without Admit, the requests that are in a window get only fewer.        *)
LEMMA OthersKeepLimit ==
  ASSUME LimiterInv, [Next]_vars, \A r \in Requests : ~Admit(r)
  PROVE  /\ \A w \in Windows : Current(w)' \subseteq Current(w)
         /\ WithinLimit'
<1> USE LimiterAssumption
<1>1. ASSUME NEW w \in Windows
      PROVE  Current(w)' \subseteq Current(w)
  <2>1. /\ Passed(w)' = Passed(w)
        /\ \A q \in Passed(w) : stamp'[q][w] = stamp[q][w]
        /\ now' \in Nat /\ now <= now'
    BY OthersLetNobodyThrough DEF LimiterInv
  <2>2. /\ now \in Nat /\ Length[w] \in Nat
        /\ \A q \in Passed(w) : stamp[q][w] \in Nat
    BY DEF LimiterInv, TypeOK, Passed
  <2>3. QED
    BY <2>1, <2>2 DEF Current
<1>2. ASSUME NEW w \in Windows
      PROVE  Cardinality(Current(w)') <= Limit[w]
  <2>1. Current(w) \in SUBSET Requests
    BY DEF Current, Passed
  <2>2. /\ Cardinality(Current(w)') <= Cardinality(Current(w))
        /\ Cardinality(Current(w)') \in Nat
        /\ Cardinality(Current(w)) \in Nat
    BY <1>1, <2>1, RequestSets
  <2>3. Cardinality(Current(w)) <= Limit[w] /\ Limit[w] \in Nat
    BY DEF LimiterInv, WithinLimit
  <2>4. QED
    BY <2>2, <2>3
<1>3. QED
  BY <1>1, <1>2 DEF WithinLimit

(* A pipeline takes out nothing that is in the window now.                 *)
LEMMA PipelineKeepsCurrent ==
  ASSUME LimiterInv, NEW r \in Requests
  PROVE  Current(win[r]) \subseteq Kept(r)
<1>1. win[r] \in Windows /\ Length[win[r]] \in Nat /\ now \in Nat
  BY LimiterAssumption DEF LimiterInv, TypeOK
<1>2. stamp[r][win[r]] <= now /\ stamp[r][win[r]] \in Nat
  BY <1>1 DEF LimiterInv, TypeOK, StampsPast
<1>3. ASSUME NEW q \in Current(win[r])
      PROVE  q \in Kept(r)
  <2>1. q \in entries[win[r]]
    BY <1>1 DEF LimiterInv, CurrentIsKept
  <2>2. q \in Requests /\ stamp[q][win[r]] > now - Length[win[r]] /\ stamp[q][win[r]] \in Nat
    BY <1>1 DEF LimiterInv, TypeOK, Current, Passed
  <2>3. QED
    BY <1>1, <1>2, <2>1, <2>2 DEF Kept
<1>4. QED
  BY <1>3

--------------------------------------------------------------------------------
(* The inductive invariant, step by step.                                  *)

(* The clock goes on.                                                      *)
LEMMA TickKeeps ==
  ASSUME LimiterInv, Tick
  PROVE  StampsPast' /\ CurrentIsKept' /\ ExpiryIsLate' /\ EntriesAccounted'
<1>1. [Next]_vars /\ \A r \in Requests : ~Admit(r)
  BY DEF Next, Tick, Admit, LimiterInv, TypeOK
<1>2. StampsPast'
  BY LimiterAssumption DEF Tick, LimiterInv, TypeOK, StampsPast
<1>3. CurrentIsKept'
  BY <1>1, OthersKeepLimit DEF Tick, LimiterInv, CurrentIsKept
<1>4. ExpiryIsLate'
  BY DEF Tick, LimiterInv, ExpiryIsLate, Passed
<1>5. EntriesAccounted'
  BY DEF Tick, LimiterInv, EntriesAccounted, Accounted, Passed
<1>6. QED
  BY <1>2, <1>3, <1>4, <1>5

(* A request looks at the clock.                                           *)
LEMMA TakeTimeKeeps ==
  ASSUME LimiterInv, NEW r \in Requests, TakeTime(r)
  PROVE  StampsPast' /\ CurrentIsKept' /\ ExpiryIsLate' /\ EntriesAccounted'
<1>1. [Next]_vars /\ \A q \in Requests : ~Admit(q)
  BY DEF Next, TakeTime, Admit, Goes, LimiterInv, TypeOK
<1>2. StampsPast'
  BY DEF TakeTime, LimiterInv, TypeOK, StampsPast
<1>3. CurrentIsKept'
  BY <1>1, OthersKeepLimit DEF TakeTime, LimiterInv, CurrentIsKept
<1>4. \A w \in Windows : /\ Passed(w)' = Passed(w)
                         /\ \A q \in Passed(w) : stamp'[q][w] = stamp[q][w]
  BY <1>1, OthersLetNobodyThrough DEF LimiterInv
<1>5. ExpiryIsLate'
  BY <1>4 DEF TakeTime, LimiterInv, ExpiryIsLate
<1>6. EntriesAccounted'
  BY <1>4 DEF TakeTime, Goes, LimiterInv, TypeOK, EntriesAccounted, Accounted
<1>7. QED
  BY <1>2, <1>3, <1>5, <1>6

(* A request is let through.                                               *)
LEMMA AdmitKeeps ==
  ASSUME LimiterInv, NEW r \in Requests, Admit(r)
  PROVE  StampsPast' /\ CurrentIsKept' /\ ExpiryIsLate' /\ EntriesAccounted' /\ WithinLimit'
<1> USE LimiterAssumption
<1>1. /\ win[r] \in {Minute, Day} /\ at[r] = "check"
      /\ stamp' = stamp /\ now' = now
      /\ entries' = [entries EXCEPT ![win[r]] = Added(r)]
  BY DEF Admit, LimiterInv, TypeOK, Windows
<1>2. \A w \in Windows : Passed(w)' = IF w = win[r] THEN Passed(w) \cup {r} ELSE Passed(w)
  BY <1>1 DEF Admit, Goes, LimiterInv, TypeOK, Passed, Windows, Minute, Day
<1>3. \A w \in Windows : Current(w)' \subseteq IF w = win[r] THEN Current(w) \cup {r} ELSE Current(w)
  BY <1>1, <1>2 DEF Current
<1>4. StampsPast'
  BY <1>1 DEF LimiterInv, StampsPast
<1>5. CurrentIsKept'
  <2>1. ASSUME NEW w \in Windows, w # win[r]
        PROVE  Current(w)' \subseteq entries'[w]
    BY <1>1, <1>3, <2>1 DEF LimiterInv, TypeOK, CurrentIsKept
  <2>2. ASSUME NEW w \in Windows, w = win[r]
        PROVE  Current(w)' \subseteq entries'[w]
    <3>1. entries'[w] = Added(r)
      BY <1>1, <2>2 DEF LimiterInv, TypeOK
    <3>2. Current(w) \cup {r} \subseteq Added(r)
      BY <2>2, PipelineKeepsCurrent DEF Added
    <3>3. QED
      BY <1>3, <2>2, <3>1, <3>2
  <2>3. QED
    BY <2>1, <2>2 DEF CurrentIsKept
<1>6. WithinLimit'
  <2>1. ASSUME NEW w \in Windows, w = win[r]
        PROVE  Cardinality(Current(w)') <= Limit[w]
    <3>1. Current(w)' \in SUBSET Added(r)
      BY <1>1, <1>5, <2>1 DEF CurrentIsKept, LimiterInv, TypeOK
    <3>2. Added(r) \in SUBSET Requests
      BY PipelineSets DEF LimiterInv
    <3>3. /\ Cardinality(Current(w)') <= Cardinality(Added(r))
          /\ Cardinality(Current(w)') \in Nat /\ Cardinality(Added(r)) \in Nat
      BY <3>1, <3>2, RequestSets
    <3>4. Cardinality(Added(r)) <= Limit[w] /\ Limit[w] \in Nat
      BY <2>1 DEF Admit
    <3>5. QED
      BY <3>3, <3>4
  <2>2. ASSUME NEW w \in Windows, w # win[r]
        PROVE  Cardinality(Current(w)') <= Limit[w]
    <3>1. Current(w)' = Current(w)
      BY <1>1, <1>2, <2>2 DEF Current
    <3>2. QED
      BY <3>1 DEF LimiterInv, WithinLimit
  <2>3. QED
    BY <2>1, <2>2 DEF WithinLimit
<1>7. ExpiryIsLate'
  <2>1. ASSUME NEW w \in Windows, NEW q \in Passed(w)' \cap entries'[w], until'[w] # Never
        PROVE  stamp'[q][w] + Length[w] <= until'[w]
    <3>1. CASE w = win[r]
      <4>1. until'[w] = now + Length[w]
        BY <3>1 DEF Admit, LimiterInv, TypeOK
      <4>2. q \in Requests /\ stamp'[q][w] <= now /\ stamp'[q][w] \in Nat
        BY <1>1 DEF LimiterInv, TypeOK, StampsPast, Passed
      <4>3. now \in Nat /\ Length[w] \in Nat
        BY DEF LimiterInv, TypeOK
      <4>4. QED
        BY <4>1, <4>2, <4>3
    <3>2. CASE w # win[r]
      BY <1>1, <1>2, <2>1, <3>2 DEF Admit, LimiterInv, TypeOK, ExpiryIsLate
    <3>3. QED
      BY <3>1, <3>2
  <2>2. QED
    BY <2>1 DEF ExpiryIsLate
<1>8. EntriesAccounted'
  <2>1. ASSUME NEW w \in Windows, NEW q \in entries'[w], q # r
        PROVE  Accounted(q, w)'
    <3>1. q \in entries[w] /\ q \in Requests
      BY <1>1, <2>1, PipelineSets DEF Added, LimiterInv, TypeOK
    <3>2. QED
      BY <1>2, <2>1, <3>1 DEF Admit, Goes, LimiterInv, TypeOK, EntriesAccounted, Accounted
  <2>2. ASSUME NEW w \in Windows, r \in entries'[w]
        PROVE  Accounted(r, w)'
    <3>1. CASE w = win[r]
      BY <1>2, <3>1 DEF Accounted
    <3>2. CASE w # win[r]
      <4>1. Accounted(r, w)
        BY <1>1, <2>2, <3>2 DEF LimiterInv, TypeOK, EntriesAccounted
      <4>2. QED
        BY <1>2, <3>2, <4>1 DEF Accounted
    <3>3. QED
      BY <3>1, <3>2
  <2>3. QED
    BY <2>1, <2>2 DEF EntriesAccounted
<1>9. QED
  BY <1>4, <1>5, <1>6, <1>7, <1>8

(* What the pipeline of a request that is not let through, whether or not  *)
(* it fails, leaves in its window is accounted for if the request is, and  *)
(* has all that is in the window now.                                      *)
LEMMA PipelineKeeps ==
  ASSUME LimiterInv, NEW r \in Requests,
         [Next]_vars, \A q \in Requests : ~Admit(q),
         now' = now, stamp' = stamp, win' = win, at[r] = "check",
         at' = [at EXCEPT ![r] = at'[r]], at'[r] \in {"remove", "failed"},
         NEW S, S \in {Kept(r), Added(r), entries[win[r]]},
         entries' = [entries EXCEPT ![win[r]] = S]
  PROVE  StampsPast' /\ CurrentIsKept' /\ EntriesAccounted'
<1>1. /\ win[r] \in Windows
      /\ \A w \in Windows : Passed(w)' = Passed(w)
      /\ \A w \in Windows : Current(w)' \subseteq Current(w)
  BY OthersLetNobodyThrough, OthersKeepLimit DEF LimiterInv, TypeOK
<1>2. StampsPast'
  BY DEF LimiterInv, StampsPast
<1>3. ASSUME NEW w \in Windows
      PROVE  Current(w)' \subseteq entries'[w]
  <2>1. CASE w = win[r]
    <3>1. entries'[w] = S
      BY <2>1 DEF LimiterInv, TypeOK
    <3>2. Current(w) \subseteq Kept(r) /\ Current(w) \subseteq entries[w]
      BY <2>1, PipelineKeepsCurrent DEF LimiterInv, CurrentIsKept
    <3>3. QED
      BY <1>1, <2>1, <3>1, <3>2 DEF Added
  <2>2. CASE w # win[r]
    BY <1>1, <2>2 DEF LimiterInv, TypeOK, CurrentIsKept
  <2>3. QED
    BY <2>1, <2>2
<1>4. ASSUME NEW w \in Windows, NEW q \in entries'[w]
      PROVE  Accounted(q, w)'
  <2>1. CASE q # r
    <3>1. q \in entries[w] /\ q \in Requests
      BY <1>1, <1>4, <2>1, PipelineSets DEF Added, LimiterInv, TypeOK
    <3>2. at'[q] = at[q]
      BY <2>1, <3>1 DEF LimiterInv, TypeOK
    <3>3. QED
      BY <1>1, <3>1, <3>2 DEF LimiterInv, EntriesAccounted, Accounted
  <2>2. CASE q = r /\ w = win[r]
    BY <2>2 DEF Accounted
  <2>3. CASE q = r /\ w # win[r]
    <3>1. Accounted(r, w)
      BY <1>1, <1>4, <2>3 DEF LimiterInv, TypeOK, EntriesAccounted
    <3>2. QED
      BY <1>1, <2>3, <3>1 DEF Accounted
  <2>4. QED
    BY <2>1, <2>2, <2>3
<1>5. QED
  BY <1>2, <1>3, <1>4 DEF CurrentIsKept, EntriesAccounted

(* A request is denied.                                                    *)
LEMMA DenyKeeps ==
  ASSUME LimiterInv, NEW r \in Requests, Deny(r)
  PROVE  StampsPast' /\ CurrentIsKept' /\ ExpiryIsLate' /\ EntriesAccounted'
<1>1. [Next]_vars /\ \A q \in Requests : ~Admit(q)
  BY DEF Next, Deny, Admit, Goes, LimiterInv, TypeOK
<1>2. at'[r] = "remove" /\ at' = [at EXCEPT ![r] = at'[r]]
  BY DEF Deny, Goes, LimiterInv, TypeOK
<1>3. StampsPast' /\ CurrentIsKept' /\ EntriesAccounted'
  BY <1>1, <1>2, PipelineKeeps DEF Deny
<1>4. ASSUME NEW w \in Windows, NEW q \in Passed(w)' \cap entries'[w], until'[w] # Never
      PROVE  stamp'[q][w] + Length[w] <= until'[w]
  <2>1. Passed(w)' = Passed(w)
    BY <1>1, OthersLetNobodyThrough DEF LimiterInv
  <2>2. CASE w = win[r]
    <3>1. until'[w] = now + Length[w]
      BY <2>2 DEF Deny, LimiterInv, TypeOK
    <3>2. q \in Requests /\ stamp'[q][w] <= now /\ stamp'[q][w] \in Nat
      BY DEF Deny, LimiterInv, TypeOK, StampsPast, Passed
    <3>3. now \in Nat /\ Length[w] \in Nat
      BY LimiterAssumption DEF LimiterInv, TypeOK
    <3>4. QED
      BY <3>1, <3>2, <3>3
  <2>3. CASE w # win[r]
    BY <1>4, <2>1, <2>3 DEF Deny, LimiterInv, TypeOK, ExpiryIsLate
  <2>4. QED
    BY <2>2, <2>3
<1>5. QED
  BY <1>3, <1>4 DEF ExpiryIsLate

(* The pipeline of a request fails.                                        *)
LEMMA CheckFailsKeeps ==
  ASSUME LimiterInv, NEW r \in Requests,
         NEW done \in {"none", "removed", "added", "all"}, CheckFails(r, done)
  PROVE  StampsPast' /\ CurrentIsKept' /\ ExpiryIsLate' /\ EntriesAccounted'
<1>1. [Next]_vars /\ \A q \in Requests : ~Admit(q)
  BY DEF Next, CheckFails, Admit, Goes, LimiterInv, TypeOK
<1>2. at'[r] = "failed" /\ at' = [at EXCEPT ![r] = at'[r]]
  BY DEF CheckFails, Goes, LimiterInv, TypeOK
<1>3. \E S \in {Kept(r), Added(r), entries[win[r]]} : entries' = [entries EXCEPT ![win[r]] = S]
  BY DEF CheckFails, LimiterInv, TypeOK
<1>4. StampsPast' /\ CurrentIsKept' /\ EntriesAccounted'
  BY <1>1, <1>2, <1>3, PipelineKeeps DEF CheckFails
<1>5. ASSUME NEW w \in Windows, NEW q \in Passed(w)' \cap entries'[w], until'[w] # Never
      PROVE  stamp'[q][w] + Length[w] <= until'[w]
  <2>1. Passed(w)' = Passed(w)
    BY <1>1, OthersLetNobodyThrough DEF LimiterInv
  <2>2. q \in Requests /\ stamp'[q][w] = stamp[q][w] /\ stamp[q][w] <= now /\ stamp[q][w] \in Nat
    BY DEF CheckFails, LimiterInv, TypeOK, StampsPast, Passed
  <2>3. now \in Nat /\ Length[w] \in Nat
    BY LimiterAssumption DEF LimiterInv, TypeOK
  <2>4. CASE w = win[r] /\ done = "all"
    <3>1. until'[w] = now + Length[w]
      BY <2>4 DEF CheckFails, LimiterInv, TypeOK
    <3>2. QED
      BY <2>2, <2>3, <3>1
  <2>5. CASE ~(w = win[r] /\ done = "all")
    <3>1. until'[w] = until[w]
      BY <1>5, <2>5 DEF CheckFails, LimiterInv, TypeOK
    <3>2. w = win[r] => q # r
      BY <1>5, <2>1 DEF CheckFails, Passed, LimiterInv, TypeOK, Windows, Minute, Day
    <3>3. q \in entries[w]
      BY <1>3, <1>5, <3>2, PipelineSets DEF Added, LimiterInv, TypeOK
    <3>4. QED
      BY <1>5, <2>1, <2>2, <3>1, <3>3 DEF LimiterInv, ExpiryIsLate
  <2>6. QED
    BY <2>4, <2>5
<1>6. QED
  BY <1>4, <1>5 DEF ExpiryIsLate

(* A denied request takes its member out, or fails to.                     *)
LEMMA RemoveKeeps ==
  ASSUME LimiterInv, NEW r \in Requests, Remove(r) \/ RemoveFails(r)
  PROVE  StampsPast' /\ CurrentIsKept' /\ ExpiryIsLate' /\ EntriesAccounted'
<1>1. [Next]_vars /\ \A q \in Requests : ~Admit(q)
  BY DEF Next, Remove, RemoveFails, Admit, Goes, LimiterInv, TypeOK
<1>2. \A w \in Windows : Passed(w)' = Passed(w) /\ Current(w)' \subseteq Current(w)
  BY <1>1, OthersLetNobodyThrough, OthersKeepLimit DEF LimiterInv
<1>3. /\ now' = now /\ stamp' = stamp /\ win' = win /\ at[r] = "remove"
      /\ at'[r] \in {"denied", "left"} /\ \A q \in Requests : q # r => at'[q] = at[q]
  BY DEF Remove, RemoveFails, Goes, LimiterInv, TypeOK
<1>4. \A w \in Windows : entries'[w] \subseteq entries[w] /\ entries[w] \subseteq entries'[w] \cup {r}
  BY DEF Remove, RemoveFails, LimiterInv, TypeOK
<1>5. \A w \in Windows : w = win[r] => r \notin Passed(w)
  BY <1>3 DEF Passed, LimiterInv, TypeOK, Windows, Minute, Day
<1>6. \A w \in Windows : w # win[r] => entries'[w] = entries[w]
  BY DEF Remove, RemoveFails, LimiterInv, TypeOK
<1>7. StampsPast'
  BY <1>3 DEF LimiterInv, StampsPast
<1>8. CurrentIsKept'
  BY <1>2, <1>4, <1>5, <1>6 DEF LimiterInv, CurrentIsKept, Current
<1>9. ExpiryIsLate'
  <2>1. \A w \in Windows : until'[w] # Never => until'[w] = until[w]
    BY DEF Remove, RemoveFails, LimiterInv, TypeOK
  <2>2. QED
    BY <1>2, <1>3, <1>4, <2>1 DEF LimiterInv, ExpiryIsLate
<1>10. EntriesAccounted'
  <2>1. ASSUME NEW w \in Windows, NEW q \in entries'[w]
        PROVE  Accounted(q, w)'
    <3>1. Accounted(q, w) /\ q \in Requests
      BY <1>4, <2>1 DEF LimiterInv, TypeOK, EntriesAccounted
    <3>2. CASE q # r \/ w # win[r]
      BY <1>2, <1>3, <3>1, <3>2 DEF Accounted
    <3>3. CASE q = r /\ w = win[r]
      BY <2>1, <3>3 DEF Remove, RemoveFails, Goes, LimiterInv, TypeOK, Accounted
    <3>4. QED
      BY <3>2, <3>3
  <2>2. QED
    BY <2>1 DEF EntriesAccounted
<1>11. QED
  BY <1>7, <1>8, <1>9, <1>10

(* A key that expires has nothing that is in the window now.               *)
LEMMA KeyExpiresKeeps ==
  ASSUME LimiterInv, NEW v \in Windows, KeyExpires(v)
  PROVE  StampsPast' /\ CurrentIsKept' /\ ExpiryIsLate' /\ EntriesAccounted'
<1>1. now' = now /\ stamp' = stamp /\ win' = win /\ at' = at
  BY DEF KeyExpires
<1>2. \A w \in Windows : Passed(w)' = Passed(w) /\ Current(w)' = Current(w)
  BY <1>1 DEF Passed, Current
<1>3. Current(v) = {}
  <2>1. ASSUME NEW q \in Current(v)
        PROVE  FALSE
    <3>1. q \in Passed(v) \cap entries[v] /\ stamp[q][v] > now - Length[v]
      BY DEF LimiterInv, CurrentIsKept, Current
    <3>2. stamp[q][v] + Length[v] <= until[v] /\ until[v] <= now
      BY <3>1 DEF KeyExpires, LimiterInv, ExpiryIsLate
    <3>3. stamp[q][v] \in Nat /\ Length[v] \in Nat /\ until[v] \in Nat /\ now \in Nat
      BY <3>1, LimiterAssumption DEF KeyExpires, LimiterInv, TypeOK, Passed
    <3>4. QED
      BY <3>1, <3>2, <3>3
  <2>2. QED
    BY <2>1
<1>4. StampsPast'
  BY <1>1 DEF LimiterInv, StampsPast
<1>5. CurrentIsKept'
  BY <1>2, <1>3 DEF KeyExpires, LimiterInv, TypeOK, CurrentIsKept
<1>6. ExpiryIsLate'
  BY <1>1, <1>2 DEF KeyExpires, LimiterInv, TypeOK, ExpiryIsLate
<1>7. EntriesAccounted'
  BY <1>1, <1>2 DEF KeyExpires, LimiterInv, TypeOK, EntriesAccounted, Accounted
<1>8. QED
  BY <1>4, <1>5, <1>6, <1>7

LEMMA InvStep == LimiterInv /\ [Next]_vars => LimiterInv'
<1> SUFFICES ASSUME LimiterInv, [Next]_vars
             PROVE  LimiterInv'
  OBVIOUS
<1>1. TypeOK'
  BY TypeStep DEF LimiterInv
<1>2. StampsPast' /\ CurrentIsKept' /\ ExpiryIsLate' /\ EntriesAccounted'
  <2>1. CASE Tick
    BY <2>1, TickKeeps
  <2>2. ASSUME NEW r \in Requests, TakeTime(r)
        PROVE  StampsPast' /\ CurrentIsKept' /\ ExpiryIsLate' /\ EntriesAccounted'
    BY <2>2, TakeTimeKeeps
  <2>3. ASSUME NEW r \in Requests, Admit(r)
        PROVE  StampsPast' /\ CurrentIsKept' /\ ExpiryIsLate' /\ EntriesAccounted'
    BY <2>3, AdmitKeeps
  <2>4. ASSUME NEW r \in Requests, Deny(r)
        PROVE  StampsPast' /\ CurrentIsKept' /\ ExpiryIsLate' /\ EntriesAccounted'
    BY <2>4, DenyKeeps
  <2>5. ASSUME NEW r \in Requests, Remove(r) \/ RemoveFails(r)
        PROVE  StampsPast' /\ CurrentIsKept' /\ ExpiryIsLate' /\ EntriesAccounted'
    BY <2>5, RemoveKeeps
  <2>6. ASSUME NEW r \in Requests, NEW done \in {"none", "removed", "added", "all"},
               CheckFails(r, done)
        PROVE  StampsPast' /\ CurrentIsKept' /\ ExpiryIsLate' /\ EntriesAccounted'
    BY <2>6, CheckFailsKeeps
  <2>7. ASSUME NEW w \in Windows, KeyExpires(w)
        PROVE  StampsPast' /\ CurrentIsKept' /\ ExpiryIsLate' /\ EntriesAccounted'
    BY <2>7, KeyExpiresKeeps
  <2>8. CASE UNCHANGED vars
    BY <2>8 DEF vars, LimiterInv, StampsPast, CurrentIsKept, ExpiryIsLate, EntriesAccounted,
                Accounted, Current, Passed
  <2>9. QED
    BY <2>1, <2>2, <2>3, <2>4, <2>5, <2>6, <2>7, <2>8 DEF Next
<1>3. WithinLimit'
  <2>1. CASE \E r \in Requests : Admit(r)
    BY <2>1, AdmitKeeps
  <2>2. CASE \A r \in Requests : ~Admit(r)
    BY <2>2, OthersKeepLimit
  <2>3. QED
    BY <2>1, <2>2
<1>4. QED
  BY <1>1, <1>2, <1>3 DEF LimiterInv

--------------------------------------------------------------------------------
(* Every variable keeps its type.                                          *)
THEOREM LimiterTypes == Spec => []TypeOK
<1>1. Init => TypeOK
  BY TypeInit
<1>2. TypeOK /\ [Next]_vars => TypeOK'
  BY TypeStep
<1>3. QED
  BY <1>1, <1>2, PTL DEF Spec

(* The keys hold what they must still count, and do not expire before.     *)
THEOREM LimiterInvariant == Spec => []LimiterInv
<1>1. QED
  BY InvInit, InvStep, PTL DEF Spec

(* CheckRateLimit never lets more requests through a window than its       *)
(* limit, whatever is delayed, fails or expires.                           *)
THEOREM NeverOverTheLimit == Spec => []WithinLimit
<1>1. LimiterInv => WithinLimit
  BY DEF LimiterInv
<1>2. QED
  BY <1>1, LimiterInvariant, PTL

(* CheckRateLimit denies a request only when the limit has been reached by *)
(* others that were let through, are being taken out or could not be.      *)
THEOREM EarnedDenials == Spec => DenialsAreEarned
<1> DEFINE Others(r) == {q \in Requests \ {r} :
                           /\ Accounted(q, win[r])
                           /\ stamp[q][win[r]] > stamp[r][win[r]] - Length[win[r]]}
<1>1. ASSUME LimiterInv, [Next]_vars,
             NEW r \in Requests, at[r] = "check", at'[r] = "remove"
      PROVE  Cardinality(Others(r)) >= Limit[win[r]]
  <2>1. Deny(r)
    BY <1>1 DEF Next, vars, Tick, TakeTime, Admit, Deny, Remove, RemoveFails, CheckFails,
                KeyExpires, Goes, LimiterInv, TypeOK
  <2>2. /\ win[r] \in Windows /\ Limit[win[r]] \in Nat
        /\ Cardinality(Added(r)) > Limit[win[r]]
    BY <1>1, <2>1, LimiterAssumption DEF Deny, LimiterInv, TypeOK
  <2>3. Added(r) \subseteq Others(r) \cup {r}
    <3>1. ASSUME NEW q \in Kept(r), q # r
          PROVE  q \in Others(r)
      BY <1>1, <2>2, <3>1, PipelineSets DEF Kept, LimiterInv, EntriesAccounted
    <3>2. QED
      BY <3>1 DEF Added
  <2>4. /\ IsFiniteSet(Others(r)) /\ Cardinality(Others(r)) \in Nat
        /\ Others(r) \cup {r} \in SUBSET Requests
    BY RequestSets
  <2>5. Cardinality(Others(r) \cup {r}) = Cardinality(Others(r)) + 1
    BY <2>4, FS_AddElement
  <2>6. /\ Cardinality(Added(r)) <= Cardinality(Others(r) \cup {r})
        /\ Cardinality(Added(r)) \in Nat
    BY <2>3, <2>4, RequestSets
  <2>7. QED
    BY <2>2, <2>4, <2>5, <2>6
<1>2. LimiterInv /\ [Next]_vars =>
        [\A r \in Requests :
           (at[r] = "check" /\ at'[r] = "remove") =>
             Cardinality({q \in Requests \ {r} : /\ Accounted(q, win[r])
                                                  /\ stamp[q][win[r]] > stamp[r][win[r]] - Length[win[r]]})
               >= Limit[win[r]]]_vars
  BY <1>1
<1>3. QED
  BY <1>2, LimiterInvariant, PTL DEF Spec, DenialsAreEarned
================================================================================
