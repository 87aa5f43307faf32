------------------------ MODULE AnonymousChannels_proofs ------------------------
(***************************************************************************)
(* Proofs about AnonymousChannels, for any number of calls, IPs, requests  *)
(* and failures: how far an IP can exceed its limit, and that its slots    *)
(* come back.                                                              *)
(***************************************************************************)
EXTENDS AnonymousChannels, FiniteSetTheorems, TLAPS

(* A request that is under way has a channel.                              *)
Targets ==
  \A r \in Requests :
    hook[r] \in {"exists", "admitted", "published", "counting"} => target[r] \in Channels

Clock == now <= MaxTime + 1

ChannelTypes == TypeOK /\ Targets /\ Clock

LEMMA Lengths ==
  /\ Ttl \in Nat \ {0} /\ Ttl + 1 = Lifetime /\ Lifetime \in Nat
  /\ Never \in Nat /\ Never = MaxTime + Lifetime + 1 /\ MaxTime \in Nat
  /\ IpLimit \in Nat \ {0}
BY AnonymousAssumption DEF Ttl, Never

(* What a pipeline of CreateAnonChannel writes, whole or in part.          *)
LEMMA KeysTypes ==
  ASSUME TypeOK, NEW c \in Channels, NEW k \in 0 .. 5, Keys(c, k)
  PROVE  /\ score' \in [Channels -> Nat] /\ metaUntil' \in [Channels -> Nat]
         /\ slots' \in [Ips -> SUBSET Channels] /\ slotsUntil' \in [Ips -> Nat]
<1>1. IpOf[c] \in Ips /\ now + Ttl \in Nat /\ Never \in Nat
  BY AnonymousAssumption, Lengths DEF TypeOK
<1>2. score' \in [Channels -> Nat] /\ slots' \in [Ips -> SUBSET Channels]
  BY <1>1 DEF Keys, TypeOK
<1>3. metaUntil' \in [Channels -> Nat]
  BY <1>1 DEF Keys, TypeOK
<1>4. slotsUntil' \in [Ips -> Nat]
  BY <1>1 DEF Keys, TypeOK
<1>5. QED
  BY <1>2, <1>3, <1>4

LEMMA TypesStep == ChannelTypes /\ [Next]_vars => ChannelTypes'
<1> SUFFICES ASSUME ChannelTypes, [Next]_vars PROVE ChannelTypes'
  OBVIOUS
<1> USE DEF ChannelTypes, Clock
<1>1. CASE Tick
  <2>1. now' \in Nat /\ now' <= MaxTime + 1
    BY <1>1, Lengths DEF Tick, TypeOK
  <2>2. /\ metaUntil' \in [Channels -> Nat] /\ slotsUntil' \in [Ips -> Nat]
        /\ slots' \in [Ips -> SUBSET Channels]
    BY <1>1 DEF Tick, TypeOK
  <2>3. QED
    BY <1>1, <2>1, <2>2 DEF Tick, TypeOK, Targets, callVars, hookVars
<1>2. ASSUME NEW c \in Channels, Disable(c) PROVE ChannelTypes'
  BY <1>2 DEF Disable, TypeOK, Targets, callVars, hookVars
<1>3. ASSUME NEW c \in Channels, CheckIPCount(c) PROVE ChannelTypes'
  <2>1. now + Lifetime \in Nat
    BY Lengths DEF TypeOK
  <2>2. call' \in [Channels -> {"never", "new", "checked", "created", "failed", "denied"}]
        /\ expiresAt' \in [Channels -> Nat]
    BY <1>3, <2>1 DEF CheckIPCount, TypeOK
  <2>3. \A i \in Ips : Cardinality(InFlight(i)) \in Nat
    BY AnonymousAssumption, FS_Subset, FS_CardinalityType DEF InFlight
  <2>4. peak' \in [Ips -> Nat]
    <3> DEFINE n == Cardinality(InFlight(IpOf[c])) + 1
    <3>1. IpOf[c] \in Ips /\ n \in Nat
      BY <2>3, AnonymousAssumption
    <3>2. peak' = peak \/ peak' = [peak EXCEPT ![IpOf[c]] = IF n > @ THEN n ELSE @]
      BY <1>3 DEF CheckIPCount
    <3> HIDE DEF n
    <3>3. QED
      BY <3>1, <3>2 DEF TypeOK
  <2>5. QED
    BY <1>3, <2>2, <2>4 DEF CheckIPCount, TypeOK, Targets, keyVars, hookVars
<1>4. ASSUME NEW c \in Channels, CreateChannel(c) PROVE ChannelTypes'
  <2>1. Keys(c, 5) /\ 5 \in 0 .. 5
    BY <1>4 DEF CreateChannel
  <2>2. /\ score' \in [Channels -> Nat] /\ metaUntil' \in [Channels -> Nat]
        /\ slots' \in [Ips -> SUBSET Channels] /\ slotsUntil' \in [Ips -> Nat]
    BY <2>1, KeysTypes
  <2>3. QED
    BY <1>4, <2>2 DEF CreateChannel, TypeOK, Targets, hookVars
<1>5. ASSUME NEW c \in Channels, NEW k \in 0 .. 5, CreateFails(c, k) PROVE ChannelTypes'
  <2>1. /\ score' \in [Channels -> Nat] /\ metaUntil' \in [Channels -> Nat]
        /\ slots' \in [Ips -> SUBSET Channels] /\ slotsUntil' \in [Ips -> Nat]
    BY <1>5, KeysTypes DEF CreateFails
  <2>2. /\ call' \in [Channels -> {"never", "new", "checked", "created", "failed", "denied"}]
        /\ faults' \in Nat
    BY <1>5 DEF CreateFails, Fault, TypeOK
  <2>3. QED
    BY <1>5, <2>1, <2>2 DEF CreateFails, TypeOK, Targets, hookVars
<1>6. ASSUME NEW c \in Channels, NEW ok \in BOOLEAN, InsertRow(c, ok) PROVE ChannelTypes'
  BY <1>6 DEF InsertRow, Fault, TypeOK, Targets, keyVars, callVars, hookVars
<1>7. ASSUME NEW r \in Requests, Done(r)
      PROVE  /\ hook' \in [Requests -> {"new", "exists", "admitted", "published", "counting",
                                        "done"}]
             /\ target' \in [Requests -> Channels \cup {None}] /\ seen' \in [Requests -> Nat]
             /\ late' \in SUBSET (Channels \cup Requests)
             /\ Targets'
  BY <1>7 DEF Done, TypeOK, Targets
<1>8. ASSUME NEW r \in Requests, NEW c \in Channels, Arrive(r, c) PROVE ChannelTypes'
  <2>1. CASE Exists(c)
    BY <1>8, <2>1 DEF Arrive, TypeOK, Targets, keyVars, callVars
  <2>2. CASE ~Exists(c)
    BY <1>7, <1>8, <2>2 DEF Arrive, TypeOK, keyVars, callVars
  <2>3. QED
    BY <2>1, <2>2
<1>9. ASSUME NEW r \in Requests, ReadDisabled(r) PROVE ChannelTypes'
  <2>1. CASE MarkedDisabled(target[r])
    BY <1>7, <1>9, <2>1 DEF ReadDisabled, TypeOK, keyVars, callVars
  <2>2. CASE ~MarkedDisabled(target[r])
    BY <1>9, <2>2 DEF ReadDisabled, TypeOK, Targets, keyVars, callVars
  <2>3. QED
    BY <2>1, <2>2
<1>10. ASSUME NEW r \in Requests, Turned(r) \/ PublishFails(r) PROVE ChannelTypes'
  <2>1. CASE Turned(r)
    BY <1>7, <2>1 DEF Turned, TypeOK, keyVars, callVars
  <2>2. CASE PublishFails(r)
    BY <1>7, <2>2 DEF PublishFails, Fault, TypeOK, keyVars, callVars
  <2>3. QED
    BY <1>10, <2>1, <2>2
<1>11. ASSUME NEW r \in Requests, PublishWebhook(r) PROVE ChannelTypes'
  <2>1. target[r] \in Channels
    BY <1>11 DEF PublishWebhook, Targets
  <2> DEFINE p == alone[target[r]] /\ Others(r) = {} /\ row[target[r]] = "stored"
  <2>2. p \in BOOLEAN
    OBVIOUS
  <2>3. alone' = [alone EXCEPT ![target[r]] = p]
    BY <1>11, <2>1 DEF PublishWebhook, TypeOK
  <2> HIDE DEF p
  <2>4. alone' \in [Channels -> BOOLEAN]
    BY <2>2, <2>3 DEF TypeOK
  <2>5. stream' \in [Channels -> BOOLEAN] /\ published' \in [Channels -> Nat]
    BY <1>11, <2>1 DEF PublishWebhook, TypeOK
  <2>6. /\ hook' \in [Requests -> {"new", "exists", "admitted", "published", "counting",
                                   "done"}]
        /\ Targets'
    BY <1>11, <2>1 DEF PublishWebhook, TypeOK, Targets
  <2>7. QED
    BY <1>11, <2>4, <2>5, <2>6 DEF PublishWebhook, TypeOK, keyVars, callVars
<1>12. ASSUME NEW r \in Requests, ReadCount(r) PROVE ChannelTypes'
  <2>1. target[r] \in Channels
    BY <1>12 DEF ReadCount, Targets
  <2>2. CASE row[target[r]] = "stored"
    BY <1>12, <2>1, <2>2 DEF ReadCount, TypeOK, Targets, keyVars, callVars
  <2>3. CASE row[target[r]] # "stored"
    BY <1>7, <1>12, <2>3 DEF ReadCount, TypeOK, keyVars, callVars
  <2>4. QED
    BY <2>2, <2>3
<1>13. ASSUME NEW r \in Requests, WriteCount(r) \/ CountFails(r) PROVE ChannelTypes'
  <2>1. CASE WriteCount(r)
    <3>1. target[r] \in Channels /\ seen[r] + 1 \in Nat
      BY <2>1 DEF WriteCount, Targets, TypeOK
    <3>a. count' \in [Channels -> Nat]
      BY <2>1, <3>1 DEF WriteCount, TypeOK
    <3>2. QED
      BY <1>7, <2>1, <3>a DEF WriteCount, TypeOK, keyVars, callVars
  <2>2. CASE CountFails(r)
    <3>1. alone' \in [Channels -> BOOLEAN]
      BY <2>2 DEF CountFails, TypeOK
    <3>2. faults' \in Nat
      BY <2>2 DEF CountFails, Fault, TypeOK
    <3>3. QED
      BY <1>7, <2>2, <3>1, <3>2 DEF CountFails, TypeOK, keyVars, callVars
  <2>3. QED
    BY <1>13, <2>1, <2>2
<1>14. ASSUME NEW c \in Channels,
              ValidateScore(c) \/ ValidateDisabled(c) \/ SubscribeFails(c) \/ HangUp(c)
       PROVE  ChannelTypes'
  <2>1. CASE ValidateScore(c)
    BY <2>1 DEF ValidateScore, TypeOK, Targets, keyVars, callVars, hookVars
  <2>2. CASE ValidateDisabled(c)
    BY <2>2 DEF ValidateDisabled, TypeOK, Targets, keyVars, callVars, hookVars
  <2>3. CASE SubscribeFails(c) \/ HangUp(c)
    BY <2>3 DEF SubscribeFails, HangUp, Fault, TypeOK, Targets, keyVars, callVars, hookVars
  <2>4. QED
    BY <1>14, <2>1, <2>2, <2>3
<1>15. ASSUME NEW S \in SUBSET Channels, ListExpired(S) PROVE ChannelTypes'
  BY <1>15 DEF ListExpired, TypeOK, Targets, keyVars, callVars, hookVars
<1>16. ASSUME NEW c \in Channels, NEW ok \in BOOLEAN, CleanChannel(c, ok) PROVE ChannelTypes'
  <2>1. /\ score' \in [Channels -> Nat] /\ metaUntil' \in [Channels -> Nat]
        /\ slots' \in [Ips -> SUBSET Channels]
    BY <1>16, SMTT(30) DEF CleanChannel, TypeOK
  <2>2. slotsUntil' \in [Ips -> Nat] /\ faults' \in Nat
    BY <1>16 DEF CleanChannel, Fault, TypeOK
  <2>3. stream' \in [Channels -> BOOLEAN] /\ todo' \in SUBSET Channels
    BY <1>16 DEF CleanChannel, TypeOK
  <2>4. QED
    BY <1>16, <2>1, <2>2, <2>3 DEF CleanChannel, TypeOK, Targets, callVars, hookVars
<1>17. CASE UNCHANGED vars
  BY <1>17 DEF vars, TypeOK, Targets, keyVars, callVars, hookVars
<1>18. QED
  BY <1>1, <1>2, <1>3, <1>4, <1>5, <1>6, <1>8, <1>9, <1>10, <1>11, <1>12, <1>13, <1>14, <1>15,
     <1>16, <1>17 DEF Next

LEMMA InitTypes == Init => ChannelTypes
<1> SUFFICES ASSUME Init PROVE ChannelTypes
  OBVIOUS
<1>1. /\ disabled \in [Channels -> BOOLEAN] /\ stream \in [Channels -> BOOLEAN]
      /\ alone \in [Channels -> BOOLEAN]
  BY Zenon DEF Init
<1>2. /\ call \in [Channels -> {"never", "new", "checked", "created", "failed", "denied"}]
      /\ sub \in [Channels -> {"unused", "new", "exists", "listening", "ended"}]
  BY DEF Init
<1>3. Targets /\ Clock
  BY Lengths DEF Init, Targets, Clock
<1>4. QED
  BY <1>1, <1>2, <1>3 DEF Init, ChannelTypes, TypeOK

(* The types of AnonymousChannels, and that a request under way has a      *)
(* channel.                                                                *)
THEOREM ChannelsTyped == Spec => [](TypeOK /\ Targets /\ Clock)
  BY InitTypes, TypesStep, PTL DEF Spec, ChannelTypes

--------------------------------------------------------------------------------
(* What a call has got so far: the expiry it will return, the score it has *)
(* written, and when the pruner may have its channel in hand.              *)
Expiries ==
  \A c \in Channels :
    /\ call[c] \in {"checked", "created", "failed"} => expiresAt[c] <= now + Lifetime
    /\ score[c] # 0 => score[c] = expiresAt[c] /\ call[c] \in {"created", "failed"}
    /\ c \in todo => expiresAt[c] <= now /\ call[c] \in {"created", "failed"}

(* A channel that has more than a second left is counted for its IP.       *)
Counted ==
  \A c \in Channels :
    (call[c] = "created" /\ expiresAt[c] > now + 1)
      => c \in slots[IpOf[c]] /\ expiresAt[c] <= slotsUntil[IpOf[c]] + 1

(* What is counted and what is about to be exceeds the limit by the calls  *)
(* that were under way together, less one.                                 *)
Claimed(i) == slots[i] \cup InFlight(i)

Bounded ==
  \A i \in Ips :
    Claimed(i) # {} => peak[i] # 0 /\ Cardinality(Claimed(i)) + 1 <= IpLimit + peak[i]

(* Whoever has filled the set of an IP is one who keeps it.                *)
Backed ==
  \A i \in Ips : slots[i] # {} =>
    /\ slotsUntil[i] > now
    /\ \E c \in Channels :
         /\ IpOf[c] = i
         /\ \/ call[c] = "created" /\ slotsUntil[i] <= madeAt[c] + Ttl
            \/ call[c] = "failed"

(* An empty set is no key.                                                 *)
Emptied == \A i \in Ips : slots[i] = {} => slotsUntil[i] = 0

SlotFacts == Expiries /\ Counted /\ Bounded /\ Backed /\ Emptied

SlotsInv == ChannelTypes /\ SlotFacts

LEMMA ClaimedIsFinite ==
  ASSUME TypeOK, NEW i \in Ips
  PROVE  /\ IsFiniteSet(Claimed(i)) /\ IsFiniteSet(slots[i]) /\ IsFiniteSet(InFlight(i))
         /\ Cardinality(Claimed(i)) \in Nat /\ Cardinality(slots[i]) \in Nat
         /\ Cardinality(InFlight(i)) \in Nat
<1>1. /\ Claimed(i) \in SUBSET Channels /\ slots[i] \in SUBSET Channels
      /\ InFlight(i) \in SUBSET Channels
  BY DEF Claimed, InFlight, TypeOK
<1>2. QED
  BY <1>1, AnonymousAssumption, FS_Subset, FS_CardinalityType

(* Where nothing is claimed anew, the bound remains.                       *)
LEMMA ClaimsShrink ==
  ASSUME TypeOK, NEW i \in Ips, peak'[i] = peak[i], Claimed(i)' \subseteq Claimed(i),
         Claimed(i) # {} => peak[i] # 0 /\ Cardinality(Claimed(i)) + 1 <= IpLimit + peak[i],
         Claimed(i)' # {}
  PROVE  peak'[i] # 0 /\ Cardinality(Claimed(i)') + 1 <= IpLimit + peak'[i]
<1>1. IsFiniteSet(Claimed(i)) /\ Cardinality(Claimed(i)) \in Nat
  BY ClaimedIsFinite
<1>2. /\ Cardinality(Claimed(i)') <= Cardinality(Claimed(i)) /\ IsFiniteSet(Claimed(i)')
      /\ Cardinality(Claimed(i)') \in Nat
  BY <1>1, FS_Subset, FS_CardinalityType
<1>3. IpLimit \in Nat /\ peak[i] \in Nat
  BY Lengths DEF TypeOK
<1>4. QED
  BY <1>1, <1>2, <1>3

(* A step that leaves the calls and the keys alone.                        *)
LEMMA SlotsUnchanged ==
  ASSUME SlotsInv, UNCHANGED <<now, score, slots, slotsUntil, callVars>>, todo' \subseteq todo
  PROVE  SlotFacts'
<1> USE DEF SlotFacts
<1>1. Expiries' /\ Counted'
  BY DEF SlotsInv, Expiries, Counted, callVars
<1>2. \A i \in Ips : Claimed(i)' = Claimed(i)
  BY DEF Claimed, InFlight, callVars
<1>3. Bounded' /\ Backed' /\ Emptied'
  BY <1>2 DEF SlotsInv, Bounded, Backed, Emptied, callVars
<1>4. QED
  BY <1>1, <1>3

LEMMA TickKeepsSlots == SlotsInv /\ Tick => SlotFacts'
<1> SUFFICES ASSUME SlotsInv, Tick PROVE SlotFacts'
  OBVIOUS
<1> USE DEF SlotsInv, SlotFacts, ChannelTypes
<1>1. /\ now \in Nat /\ now' = now + 1 /\ UNCHANGED <<score, call, expiresAt, madeAt, peak, todo>>
      /\ slotsUntil' = [i \in Ips |-> IF slotsUntil[i] > now + 1 THEN slotsUntil[i] ELSE 0]
      /\ slots' = [i \in Ips |-> IF slotsUntil[i] > now + 1 THEN slots[i] ELSE {}]
  BY DEF Tick, TypeOK, callVars
<1>2. Expiries'
  BY <1>1, Lengths DEF Expiries, TypeOK
<1>3. Counted'
  <2> SUFFICES ASSUME NEW c \in Channels, call[c] = "created", expiresAt[c] > (now + 1) + 1
               PROVE  c \in slots'[IpOf[c]] /\ expiresAt[c] <= slotsUntil'[IpOf[c]] + 1
    BY <1>1 DEF Counted
  <2>1. IpOf[c] \in Ips /\ expiresAt[c] \in Nat /\ slotsUntil[IpOf[c]] \in Nat
    BY AnonymousAssumption DEF TypeOK
  <2>2. c \in slots[IpOf[c]] /\ expiresAt[c] <= slotsUntil[IpOf[c]] + 1
    BY <1>1, <2>1 DEF Counted
  <2>3. slotsUntil[IpOf[c]] > now + 1
    BY <1>1, <2>1, <2>2
  <2>4. QED
    BY <1>1, <2>1, <2>2, <2>3
<1>4. \A i \in Ips : slots'[i] # {} => slots'[i] = slots[i] /\ slotsUntil'[i] = slotsUntil[i]
                                       /\ slotsUntil[i] > now + 1
  BY <1>1
<1>5. \A i \in Ips : Claimed(i)' \subseteq Claimed(i) /\ peak'[i] = peak[i]
  BY <1>1, <1>4 DEF Claimed, InFlight
<1>6. Bounded'
  BY <1>5, ClaimsShrink DEF Bounded
<1>7. Backed'
  BY <1>1, <1>4 DEF Backed
<1>8. Emptied'
  BY <1>1 DEF Emptied
<1>9. QED
  BY <1>2, <1>3, <1>6, <1>7, <1>8

(* The check lets a call through only below the limit, and counts it among *)
(* those under way.                                                        *)
LEMMA CheckKeepsSlots ==
  ASSUME SlotsInv, NEW c \in Channels, CheckIPCount(c)
  PROVE  SlotFacts'
<1> USE DEF SlotsInv, SlotFacts, ChannelTypes
<1>1. /\ call[c] = "new" /\ IpOf[c] \in Ips
      /\ UNCHANGED <<now, score, slots, slotsUntil, todo, madeAt>>
      /\ \A d \in Channels : d # c => call'[d] = call[d] /\ expiresAt'[d] = expiresAt[d]
  BY AnonymousAssumption DEF CheckIPCount, TypeOK, keyVars
<1>2. CASE Cardinality(slots[IpOf[c]]) >= IpLimit
  <2>1. call'[c] = "denied" /\ UNCHANGED <<expiresAt, peak>>
    BY <1>2 DEF CheckIPCount, TypeOK
  <2>2. Expiries' /\ Counted' /\ Emptied'
    BY <1>1, <2>1 DEF Expiries, Counted, Emptied
  <2>a. Backed'
    BY <1>1, <2>1 DEF Backed
  <2>3. \A i \in Ips : Claimed(i)' \subseteq Claimed(i)
    BY <1>1, <2>1 DEF Claimed, InFlight
  <2>4. Bounded'
    BY <2>1, <2>3, ClaimsShrink DEF Bounded
  <2>5. QED
    BY <2>2, <2>a, <2>4
<1>3. CASE ~ (Cardinality(slots[IpOf[c]]) >= IpLimit)
  <2> DEFINE i0 == IpOf[c]
             n  == Cardinality(InFlight(i0)) + 1
  <2>1. /\ call'[c] = "checked" /\ expiresAt'[c] = now + Lifetime
        /\ peak' = [peak EXCEPT ![i0] = IF n > @ THEN n ELSE @]
    BY <1>3 DEF CheckIPCount, TypeOK
  <2>2. Expiries' /\ Emptied'
    BY <1>1, <2>1, Lengths DEF Expiries, Emptied, TypeOK
  <2>a. Counted'
    BY <1>1, <2>1 DEF Counted
  <2>b. Backed'
    BY <1>1, <2>1 DEF Backed
  <2>c. c \notin InFlight(i0) /\ peak[i0] \in Nat
    BY <1>1 DEF InFlight, TypeOK
  <2>3. /\ IsFiniteSet(slots[i0]) /\ IsFiniteSet(InFlight(i0)) /\ c \notin InFlight(i0)
        /\ Cardinality(slots[i0]) \in Nat /\ n \in Nat \ {0} /\ peak[i0] \in Nat
    <3>1. /\ IsFiniteSet(slots[i0]) /\ IsFiniteSet(InFlight(i0))
          /\ Cardinality(slots[i0]) \in Nat /\ Cardinality(InFlight(i0)) \in Nat
      BY <1>1, ClaimedIsFinite
    <3>2. QED
      BY <2>c, <3>1
  <2> DEFINE F == InFlight(i0) \cup {c}
             U == slots[i0] \cup F
  <2>4. IsFiniteSet(F) /\ Cardinality(F) = n
    BY <2>3, FS_AddElement
  <2>5. Claimed(i0)' = U
    BY <1>1, <2>1 DEF Claimed, InFlight
  <2>6. /\ IsFiniteSet(U) /\ Cardinality(U) \in Nat
        /\ Cardinality(U) <= Cardinality(slots[i0]) + Cardinality(F)
    <3> HIDE DEF F
    <3>1. /\ IsFiniteSet(U)
          /\ Cardinality(U) = Cardinality(slots[i0]) + Cardinality(F)
                               - Cardinality(slots[i0] \cap F)
      BY <2>3, <2>4, FS_Union
    <3>2. IsFiniteSet(slots[i0] \cap F)
      BY <2>3, FS_Subset
    <3>3. /\ Cardinality(U) \in Nat /\ Cardinality(F) \in Nat
          /\ Cardinality(slots[i0] \cap F) \in Nat
      BY <2>4, <3>1, <3>2, FS_CardinalityType
    <3>4. QED
      BY <2>3, <3>1, <3>3
  <2>7. peak'[i0] \in Nat \ {0} /\ n <= peak'[i0]
    <3> HIDE DEF n
    <3>1. QED
      BY <1>1, <2>1, <2>3 DEF TypeOK
  <2>8. Cardinality(Claimed(i0)') + 1 <= IpLimit + peak'[i0]
    <3> HIDE DEF n, F, U
    <3>1. Cardinality(slots[i0]) + 1 <= IpLimit /\ IpLimit \in Nat
      BY <1>3, <2>3, Lengths
    <3>2. QED
      BY <2>3, <2>4, <2>5, <2>6, <2>7, <3>1
  <2>9. \A i \in Ips : i # i0 => Claimed(i)' \subseteq Claimed(i) /\ peak'[i] = peak[i]
    BY <1>1, <2>1 DEF Claimed, InFlight, TypeOK
  <2> HIDE DEF n
  <2>10. Bounded'
    <3> SUFFICES ASSUME NEW i \in Ips, Claimed(i)' # {}
                 PROVE  peak'[i] # 0 /\ Cardinality(Claimed(i)') + 1 <= IpLimit + peak'[i]
      BY DEF Bounded
    <3>1. CASE i = i0
      BY <2>7, <2>8, <3>1
    <3>2. CASE i # i0
      BY <2>9, <3>2, ClaimsShrink DEF Bounded
    <3>3. QED
      BY <3>1, <3>2
  <2>11. QED
    BY <2>2, <2>a, <2>b, <2>10
<1>4. QED
  BY <1>2, <1>3

(* The pipeline moves a call from those under way into the set of its IP,  *)
(* and the set outlives all that is counted in it.                         *)
LEMMA KeysKeepSlots ==
  ASSUME SlotsInv, NEW c \in Channels, NEW k \in 0 .. 5,
         call[c] = "checked", Keys(c, k),
         UNCHANGED <<now, expiresAt, peak, todo>>,
         \A d \in Channels : d # c => call'[d] = call[d] /\ madeAt'[d] = madeAt[d],
         \/ call'[c] = "created" /\ k = 5 /\ madeAt'[c] = now
         \/ call'[c] = "failed"
  PROVE  SlotFacts'
<1> USE DEF SlotsInv, SlotFacts, ChannelTypes
<1> DEFINE i0 == IpOf[c]
<1>1. i0 \in Ips /\ slotsUntil[i0] \in Nat /\ now \in Nat /\ now <= MaxTime + 1
  BY AnonymousAssumption DEF TypeOK, Clock
<1>2. /\ \A d \in Channels : d # c => score'[d] = score[d]
      /\ score'[c] \in {score[c], expiresAt[c]}
  BY DEF Keys, TypeOK
<1>3. \A i \in Ips : i # i0 => slots'[i] = slots[i] /\ slotsUntil'[i] = slotsUntil[i]
  BY DEF Keys, TypeOK
<1>4. /\ k < 4  => slots'[i0] = slots[i0] /\ slotsUntil'[i0] = slotsUntil[i0]
      /\ k >= 4 => slots'[i0] = slots[i0] \cup {c}
      /\ k = 4  => slotsUntil'[i0] = IF slotsUntil[i0] = 0 THEN Never ELSE slotsUntil[i0]
      /\ k = 5  => slotsUntil'[i0] = now + Ttl
  BY <1>1 DEF Keys, TypeOK
<1>5. k < 4 \/ k = 4 \/ k = 5
  OBVIOUS
<1>6. Expiries'
  BY <1>2 DEF Expiries
<1>7. \A d \in Channels : call[d] \in {"checked", "created", "failed"} => expiresAt[d] <= now + Lifetime
  BY DEF Expiries
<1>8. Counted'
  <2> SUFFICES ASSUME NEW d \in Channels, call'[d] = "created", expiresAt[d] > now + 1
               PROVE  d \in slots'[IpOf[d]] /\ expiresAt[d] <= slotsUntil'[IpOf[d]] + 1
    BY DEF Counted
  <2>1. IpOf[d] \in Ips /\ expiresAt[d] \in Nat /\ expiresAt[d] <= now + Lifetime
    BY <1>7, AnonymousAssumption DEF TypeOK
  <2>2. d # c => d \in slots[IpOf[d]] /\ expiresAt[d] <= slotsUntil[IpOf[d]] + 1
    BY DEF Counted
  <2>3. CASE IpOf[d] # i0
    BY <1>3, <2>1, <2>2, <2>3
  <2>4. CASE IpOf[d] = i0 /\ k < 4
    BY <1>4, <2>2, <2>4
  <2>5. CASE IpOf[d] = i0 /\ k = 4
    <3>1. d # c
      BY <2>5
    <3>2. now + Lifetime <= Never + 1
      BY <1>1, Lengths
    <3>3. QED
      BY <1>1, <1>4, <2>1, <2>2, <2>5, <3>1, <3>2, Lengths
  <2>6. CASE IpOf[d] = i0 /\ k = 5
    <3>1. (now + Ttl) + 1 = now + Lifetime
      BY <1>1, Lengths
    <3>2. QED
      BY <1>4, <2>1, <2>2, <2>6, <3>1
  <2>7. QED
    BY <1>5, <2>3, <2>4, <2>5, <2>6
<1>9. \A i \in Ips : Claimed(i)' \subseteq Claimed(i) /\ peak'[i] = peak[i]
  <2> SUFFICES ASSUME NEW i \in Ips, NEW d \in Claimed(i)' PROVE d \in Claimed(i)
    OBVIOUS
  <2>1. CASE d \in InFlight(i)'
    BY <2>1 DEF InFlight, Claimed
  <2>2. CASE d \in slots'[i]
    <3>1. d \in slots[i] \/ (i = i0 /\ d = c)
      BY <1>3, <1>4, <1>5, <2>2
    <3>2. c \in InFlight(i0)
      BY DEF InFlight
    <3>3. QED
      BY <3>1, <3>2 DEF Claimed
  <2>3. QED
    BY <2>1, <2>2 DEF Claimed
<1>10. Bounded'
  BY <1>9, ClaimsShrink DEF Bounded
<1>11. Backed'
  <2> SUFFICES ASSUME NEW i \in Ips, slots'[i] # {}
               PROVE  /\ slotsUntil'[i] > now
                      /\ \E d \in Channels :
                           /\ IpOf[d] = i
                           /\ \/ call'[d] = "created" /\ slotsUntil'[i] <= madeAt'[d] + Ttl
                              \/ call'[d] = "failed"
    BY DEF Backed
  <2>1. ASSUME slots[i] # {}, slotsUntil'[i] = slotsUntil[i]
        PROVE  /\ slotsUntil'[i] > now
               /\ \E d \in Channels :
                    /\ IpOf[d] = i
                    /\ \/ call'[d] = "created" /\ slotsUntil'[i] <= madeAt'[d] + Ttl
                       \/ call'[d] = "failed"
    <3>1. slotsUntil[i] > now
      BY <2>1 DEF Backed
    <3>2. PICK d \in Channels : /\ IpOf[d] = i
                               /\ \/ call[d] = "created" /\ slotsUntil[i] <= madeAt[d] + Ttl
                                  \/ call[d] = "failed"
      BY <2>1 DEF Backed
    <3>3. d # c
      BY <3>2
    <3>4. QED
      BY <2>1, <3>1, <3>2, <3>3
  <2>2. CASE i # i0
    BY <1>3, <2>1, <2>2
  <2>3. CASE i = i0 /\ k < 4
    BY <1>4, <2>1, <2>3
  <2>4. CASE i = i0 /\ k = 4
    <3>1. call'[c] = "failed" /\ IpOf[c] = i
      BY <2>4
    <3>2. CASE slotsUntil[i0] = 0
      <4>1. Never > now
        BY <1>1, Lengths
      <4>2. QED
        BY <1>4, <2>4, <3>1, <3>2, <4>1
    <3>3. CASE slotsUntil[i0] # 0
      <4>1. slots[i0] # {}
        BY <1>1, <3>3 DEF Emptied
      <4>2. QED
        BY <1>4, <2>1, <2>4, <3>3, <4>1
    <3>4. QED
      BY <3>2, <3>3
  <2>5. CASE i = i0 /\ k = 5
    <3>1. slotsUntil'[i] = now + Ttl /\ now + Ttl > now
      BY <1>1, <1>4, <2>5, Lengths
    <3>2. call'[c] = "created" => slotsUntil'[i] <= madeAt'[c] + Ttl
      BY <1>1, <3>1, Lengths
    <3>3. QED
      BY <2>5, <3>1, <3>2
  <2>6. QED
    BY <1>5, <2>2, <2>3, <2>4, <2>5
<1>12. Emptied'
  <2> SUFFICES ASSUME NEW i \in Ips, slots'[i] = {} PROVE slotsUntil'[i] = 0
    BY DEF Emptied
  <2>1. slots'[i] = slots[i] /\ slotsUntil'[i] = slotsUntil[i]
    BY <1>3, <1>4, <1>5
  <2>2. QED
    BY <2>1 DEF Emptied
<1>13. QED
  BY <1>6, <1>8, <1>10, <1>11, <1>12

(* The pruner takes out only channels that have run out: they are no       *)
(* longer counted, and the set of an IP stays with those who keep it.      *)
LEMMA CleanKeepsSlots ==
  ASSUME SlotsInv, NEW c \in Channels, NEW ok \in BOOLEAN, CleanChannel(c, ok)
  PROVE  SlotFacts'
<1> USE DEF SlotsInv, SlotFacts, ChannelTypes
<1>1. /\ c \in todo /\ todo' \subseteq todo
      /\ UNCHANGED <<now, call, expiresAt, madeAt, peak, callVars>>
  BY DEF CleanChannel, callVars
<1>2. CASE ~ok
  <2>1. UNCHANGED <<now, score, slots, slotsUntil, callVars>>
    BY <1>1, <1>2 DEF CleanChannel
  <2>2. QED
    BY <1>1, <2>1, SlotsUnchanged
<1>3. CASE ok
  <2>1. /\ score' = [score EXCEPT ![c] = 0]
        /\ slots' = [slots EXCEPT ![IpOf[c]] = @ \ {c}] \/ slots' = slots
        /\ slotsUntil' = [i \in Ips |-> IF slots'[i] = {} THEN 0 ELSE slotsUntil[i]]
    BY <1>3 DEF CleanChannel
  <2>2. \A i \in Ips : /\ slots'[i] \subseteq slots[i] /\ slots[i] \subseteq slots'[i] \cup {c}
                      /\ slotsUntil'[i] = IF slots'[i] = {} THEN 0 ELSE slotsUntil[i]
    BY <2>1 DEF TypeOK
  <2>3. Expiries'
    BY <1>1, <2>1 DEF Expiries, TypeOK
  <2>4. expiresAt[c] <= now /\ now \in Nat /\ expiresAt[c] \in Nat
    BY <1>1 DEF Expiries, TypeOK
  <2>5. Counted'
    <3> SUFFICES ASSUME NEW d \in Channels, call[d] = "created", expiresAt[d] > now + 1
                 PROVE  d \in slots'[IpOf[d]] /\ expiresAt[d] <= slotsUntil'[IpOf[d]] + 1
      BY <1>1 DEF Counted
    <3>1. d # c /\ IpOf[d] \in Ips
      BY <2>4, AnonymousAssumption
    <3>2. d \in slots[IpOf[d]] /\ expiresAt[d] <= slotsUntil[IpOf[d]] + 1
      BY DEF Counted
    <3>3. d \in slots'[IpOf[d]]
      BY <2>2, <3>1, <3>2
    <3>4. slotsUntil'[IpOf[d]] = slotsUntil[IpOf[d]]
      BY <2>2, <3>1, <3>3
    <3>5. QED
      BY <3>2, <3>3, <3>4
  <2>6. \A i \in Ips : Claimed(i)' \subseteq Claimed(i) /\ peak'[i] = peak[i]
    BY <1>1, <2>2 DEF Claimed, InFlight
  <2>7. Bounded'
    BY <2>6, ClaimsShrink DEF Bounded
  <2>8. \A i \in Ips : slots'[i] # {} => slots[i] # {} /\ slotsUntil'[i] = slotsUntil[i]
    BY <2>2
  <2>9. Backed'
    BY <1>1, <2>8 DEF Backed
  <2>10. Emptied'
    BY <2>2 DEF Emptied
  <2>11. QED
    BY <2>3, <2>5, <2>7, <2>9, <2>10
<1>4. QED
  BY <1>2, <1>3

(* What the pruner lists has run out.                                      *)
LEMMA ListKeepsSlots ==
  ASSUME SlotsInv, NEW S \in SUBSET Channels, ListExpired(S)
  PROVE  SlotFacts'
<1> USE DEF SlotsInv, SlotFacts, ChannelTypes
<1>1. /\ UNCHANGED <<now, score, slots, slotsUntil, call, expiresAt, madeAt, peak>>
      /\ todo' = S /\ S \subseteq RunOut
  BY DEF ListExpired, keyVars, callVars
<1>2. Expiries'
  BY <1>1 DEF Expiries, RunOut, Exists
<1>3. Counted' /\ Emptied'
  BY <1>1 DEF Counted, Emptied
<1>4. Backed'
  BY <1>1 DEF Backed
<1>5. \A i \in Ips : Claimed(i)' = Claimed(i)
  BY <1>1 DEF Claimed, InFlight
<1>6. Bounded'
  BY <1>1, <1>5 DEF Bounded
<1>7. QED
  BY <1>2, <1>3, <1>4, <1>6

LEMMA SlotsStep == SlotsInv /\ [Next]_vars => SlotsInv'
<1> SUFFICES ASSUME SlotsInv, [Next]_vars PROVE SlotFacts'
  BY TypesStep DEF SlotsInv
<1>1. CASE Tick
  BY <1>1, TickKeepsSlots
<1>2. ASSUME NEW c \in Channels, CheckIPCount(c) PROVE SlotFacts'
  BY <1>2, CheckKeepsSlots
<1>3. ASSUME NEW c \in Channels, CreateChannel(c) PROVE SlotFacts'
  <2>1. /\ call[c] = "checked" /\ Keys(c, 5) /\ UNCHANGED <<now, expiresAt, peak, todo>>
        /\ call'[c] = "created" /\ madeAt'[c] = now /\ 5 \in 0 .. 5
        /\ \A d \in Channels : d # c => call'[d] = call[d] /\ madeAt'[d] = madeAt[d]
    BY <1>3 DEF CreateChannel, SlotsInv, ChannelTypes, TypeOK
  <2>2. QED
    BY <2>1, KeysKeepSlots
<1>4. ASSUME NEW c \in Channels, NEW k \in 0 .. 5, CreateFails(c, k) PROVE SlotFacts'
  <2>1. /\ call[c] = "checked" /\ Keys(c, k) /\ UNCHANGED <<now, expiresAt, peak, todo>>
        /\ call'[c] = "failed"
        /\ \A d \in Channels : d # c => call'[d] = call[d] /\ madeAt'[d] = madeAt[d]
    BY <1>4 DEF CreateFails, SlotsInv, ChannelTypes, TypeOK
  <2>2. QED
    BY <2>1, KeysKeepSlots
<1>5. ASSUME NEW c \in Channels, NEW ok \in BOOLEAN, CleanChannel(c, ok) PROVE SlotFacts'
  BY <1>5, CleanKeepsSlots
<1>6. ASSUME NEW S \in SUBSET Channels, ListExpired(S) PROVE SlotFacts'
  BY <1>6, ListKeepsSlots
<1>7. ASSUME NEW c \in Channels, NEW ok \in BOOLEAN,
             \/ Disable(c) \/ InsertRow(c, ok) \/ ValidateScore(c) \/ ValidateDisabled(c)
             \/ SubscribeFails(c) \/ HangUp(c)
      PROVE  SlotFacts'
  <2>1. UNCHANGED <<now, score, slots, slotsUntil, callVars, todo>>
    BY <1>7 DEF Disable, InsertRow, ValidateScore, ValidateDisabled, SubscribeFails, HangUp,
                keyVars
  <2>2. QED
    BY <2>1, SlotsUnchanged
<1>8. ASSUME NEW r \in Requests, NEW c \in Channels, Arrive(r, c) PROVE SlotFacts'
  <2>1. UNCHANGED <<now, score, slots, slotsUntil, callVars, todo>>
    BY <1>8 DEF Arrive, keyVars
  <2>2. QED
    BY <2>1, SlotsUnchanged
<1>9. ASSUME NEW r \in Requests,
             \/ ReadDisabled(r) \/ Turned(r) \/ PublishWebhook(r) \/ PublishFails(r)
             \/ ReadCount(r) \/ WriteCount(r) \/ CountFails(r)
      PROVE  SlotFacts'
  <2>1. UNCHANGED <<now, score, slots, slotsUntil, callVars, todo>>
    BY <1>9 DEF ReadDisabled, Turned, PublishWebhook, PublishFails, ReadCount, WriteCount,
                CountFails, keyVars
  <2>2. QED
    BY <2>1, SlotsUnchanged
<1>10. CASE UNCHANGED vars
  <2>1. UNCHANGED <<now, score, slots, slotsUntil, callVars, todo>>
    BY <1>10 DEF vars, keyVars
  <2>2. QED
    BY <2>1, SlotsUnchanged
<1>11. QED
  BY <1>1, <1>2, <1>3, <1>4, <1>5, <1>6, <1>7, <1>8, <1>9, <1>10 DEF Next

LEMMA SlotsAlways == Spec => []SlotsInv
<1>1. Init => SlotsInv
  <2> SUFFICES ASSUME Init PROVE SlotFacts
    BY InitTypes DEF SlotsInv
  <2>1. Expiries
    BY DEF Init, Expiries
  <2>2. Counted
    BY DEF Init, Counted
  <2>3. Backed /\ Emptied
    BY DEF Init, Backed, Emptied
  <2>4. \A i \in Ips : Claimed(i) = {}
    BY DEF Init, Claimed, InFlight
  <2>5. Bounded
    BY <2>4 DEF Bounded
  <2>6. QED
    BY <2>1, <2>2, <2>3, <2>5 DEF SlotFacts
<1>2. QED
  BY <1>1, SlotsStep, PTL DEF Spec

(* An IP has more live channels than its limit only as far as its calls    *)
(* came together (CheckAnonIPCount and CreateAnonChannel).                 *)
THEOREM BoundedByOverlap == Spec => []IpBound
<1>1. SlotsInv => IpBound
  <2> SUFFICES ASSUME SlotsInv, NEW i \in Ips
               PROVE  Cardinality({c \in Channels : IpOf[c] = i /\ call[c] = "created"
                                                      /\ expiresAt[c] > now + 1})
                        <= IpLimit + (IF peak[i] = 0 THEN 0 ELSE peak[i] - 1)
    BY DEF IpBound
  <2> DEFINE L == {c \in Channels : IpOf[c] = i /\ call[c] = "created" /\ expiresAt[c] > now + 1}
  <2>1. L \subseteq Claimed(i)
    BY DEF SlotsInv, SlotFacts, Counted, Claimed
  <2>2. IsFiniteSet(Claimed(i)) /\ Cardinality(Claimed(i)) \in Nat
    BY ClaimedIsFinite DEF SlotsInv, ChannelTypes
  <2>3. /\ Cardinality(L) <= Cardinality(Claimed(i)) /\ IsFiniteSet(L)
        /\ Cardinality(L) \in Nat
    BY <2>1, <2>2, FS_Subset, FS_CardinalityType
  <2>4. peak[i] \in Nat /\ IpLimit \in Nat
    BY Lengths DEF SlotsInv, ChannelTypes, TypeOK
  <2>5. ASSUME Claimed(i) # {}
        PROVE  Cardinality(L) <= IpLimit + (IF peak[i] = 0 THEN 0 ELSE peak[i] - 1)
    <3>1. peak[i] # 0 /\ Cardinality(Claimed(i)) + 1 <= IpLimit + peak[i]
      BY <2>5 DEF SlotsInv, SlotFacts, Bounded
    <3> HIDE DEF L
    <3>2. QED
      BY <2>2, <2>3, <2>4, <3>1
  <2>6. ASSUME Claimed(i) = {}
        PROVE  Cardinality(L) <= IpLimit + (IF peak[i] = 0 THEN 0 ELSE peak[i] - 1)
    <3>1. L = {} /\ Cardinality({}) = 0
      BY <2>1, <2>6, FS_EmptySet
    <3> HIDE DEF L
    <3>2. QED
      BY <2>4, <3>1
  <2>7. QED
    BY <2>5, <2>6
<1>2. QED
  BY <1>1, SlotsAlways, PTL

(* The slots of an IP are taken only while it has called in the last two   *)
(* hours, or a call has failed half way (the EXPIRE of anon:ip).           *)
THEOREM SlotsAreReturned == Spec => []SlotsComeBack
<1>1. SlotsInv => SlotsComeBack
  <2> SUFFICES ASSUME SlotsInv, NEW i \in Ips, slots[i] # {}
               PROVE  \E c \in Channels :
                        /\ IpOf[c] = i
                        /\ \/ call[c] = "created" /\ now < madeAt[c] + Ttl
                           \/ call[c] = "failed"
    BY DEF SlotsComeBack
  <2>1. slotsUntil[i] > now
    BY DEF SlotsInv, SlotFacts, Backed
  <2>2. PICK c \in Channels : /\ IpOf[c] = i
                             /\ \/ call[c] = "created" /\ slotsUntil[i] <= madeAt[c] + Ttl
                                \/ call[c] = "failed"
    BY DEF SlotsInv, SlotFacts, Backed
  <2>3. now \in Nat /\ slotsUntil[i] \in Nat /\ madeAt[c] \in Nat /\ Ttl \in Nat
    BY Lengths DEF SlotsInv, ChannelTypes, TypeOK
  <2>4. QED
    BY <2>1, <2>2, <2>3
<1>2. QED
  BY <1>1, SlotsAlways, PTL

--------------------------------------------------------------------------------
(* Nothing but what had found a channel before its removal can bring its   *)
(* stream back (CleanExpiredAnonChannels against ForAnon and               *)
(* ValidateAnonChannel).                                                   *)
THEOREM RemovedStaysRemoved == Spec => GoneIsGone
<1>1. ChannelTypes /\ [Next]_vars =>
        [\A c \in Channels : Gone(c) /\ ~Pending(c) =>
            ~Pending(c)' /\ (stream'[c] => stream[c])]_vars
  <2> SUFFICES ASSUME ChannelTypes, [Next]_vars, NEW c \in Channels, Gone(c), ~Pending(c)
               PROVE  ~Pending(c)' /\ (stream'[c] => stream[c])
    OBVIOUS
  <2> USE DEF ChannelTypes
  <2>1. /\ call[c] = "created" /\ score[c] = 0 /\ sub[c] # "exists"
        /\ \A r \in Requests : target[r] = c => hook[r] \notin {"exists", "admitted"}
    BY DEF Gone, Exists, Pending
  <2>2. ASSUME \A r \in Requests : target'[r] = c /\ hook'[r] \in {"exists", "admitted"} =>
                                    target[r] = c /\ hook[r] \in {"exists", "admitted"},
               sub'[c] # "exists"
        PROVE  ~Pending(c)'
    BY <2>1, <2>2 DEF Pending
  <2>3. CASE Tick
    BY <2>1, <2>2, <2>3 DEF Tick, hookVars
  <2>4. ASSUME NEW d \in Channels, NEW ok \in BOOLEAN,
               \/ Disable(d) \/ CheckIPCount(d) \/ CreateChannel(d) \/ InsertRow(d, ok)
        PROVE  ~Pending(c)' /\ (stream'[c] => stream[c])
    <3>1. UNCHANGED <<hook, target, sub, stream>>
      BY <2>4 DEF Disable, CheckIPCount, CreateChannel, InsertRow, hookVars
    <3>2. QED
      BY <2>1, <2>2, <3>1
  <2>5. ASSUME NEW d \in Channels, NEW k \in 0 .. 5, CreateFails(d, k)
        PROVE  ~Pending(c)' /\ (stream'[c] => stream[c])
    <3>1. UNCHANGED <<hook, target, sub, stream>>
      BY <2>5 DEF CreateFails, hookVars
    <3>2. QED
      BY <2>1, <2>2, <3>1
  <2>6. ASSUME NEW d \in Channels,
               ValidateScore(d) \/ ValidateDisabled(d) \/ SubscribeFails(d) \/ HangUp(d)
        PROVE  ~Pending(c)' /\ (stream'[c] => stream[c])
    <3>1. UNCHANGED <<hook, target>>
      BY <2>6 DEF ValidateScore, ValidateDisabled, SubscribeFails, HangUp, hookVars
    <3>2. CASE ValidateScore(d)
      <4>1. sub'[c] # "exists" /\ UNCHANGED stream
        BY <2>1, <3>2 DEF ValidateScore, TypeOK
      <4>2. QED
        BY <2>1, <2>2, <3>1, <4>1
    <3>3. CASE ValidateDisabled(d)
      <4>1. d # c
        BY <2>1, <3>3 DEF ValidateDisabled
      <4>2. sub'[c] # "exists" /\ stream'[c] = stream[c]
        BY <2>1, <3>3, <4>1 DEF ValidateDisabled, TypeOK
      <4>3. QED
        BY <2>1, <2>2, <3>1, <4>2
    <3>4. CASE SubscribeFails(d) \/ HangUp(d)
      <4>1. sub'[c] # "exists" /\ UNCHANGED stream
        BY <2>1, <3>4 DEF SubscribeFails, HangUp, TypeOK
      <4>2. QED
        BY <2>1, <2>2, <3>1, <4>1
    <3>5. QED
      BY <2>6, <3>2, <3>3, <3>4
  <2>7. ASSUME NEW d \in Channels, NEW ok \in BOOLEAN, CleanChannel(d, ok)
        PROVE  ~Pending(c)' /\ (stream'[c] => stream[c])
    <3>1. UNCHANGED <<hook, target, sub>>
      BY <2>7 DEF CleanChannel, hookVars
    <3>2. stream'[c] => stream[c]
      BY <2>7 DEF CleanChannel, TypeOK
    <3>3. QED
      BY <2>1, <2>2, <3>1, <3>2
  <2>8. ASSUME NEW r \in Requests, NEW d \in Channels, Arrive(r, d)
        PROVE  ~Pending(c)' /\ (stream'[c] => stream[c])
    <3>1. UNCHANGED <<sub, stream>>
      BY <2>8 DEF Arrive
    <3>2. CASE Exists(d)
      <4>1. d # c
        BY <2>1, <3>2 DEF Exists
      <4>2. /\ target' = [target EXCEPT ![r] = d] /\ hook' = [hook EXCEPT ![r] = "exists"]
        BY <2>8, <3>2 DEF Arrive
      <4>3. QED
        BY <2>1, <2>2, <3>1, <4>1, <4>2 DEF TypeOK
    <3>3. CASE ~Exists(d)
      BY <2>1, <2>2, <2>8, <3>1, <3>3 DEF Arrive, Done, TypeOK
    <3>4. QED
      BY <3>2, <3>3
  <2>9. ASSUME NEW r \in Requests,
               \/ ReadDisabled(r) \/ Turned(r) \/ PublishFails(r)
               \/ ReadCount(r) \/ WriteCount(r) \/ CountFails(r)
        PROVE  ~Pending(c)' /\ (stream'[c] => stream[c])
    <3>1. UNCHANGED <<sub, stream>>
      BY <2>9 DEF ReadDisabled, Turned, PublishFails, ReadCount, WriteCount, CountFails
    <3>2. \/ Done(r)
          \/ hook[r] = "exists" /\ UNCHANGED target /\ hook' = [hook EXCEPT ![r] = "admitted"]
          \/ UNCHANGED target /\ hook' = [hook EXCEPT ![r] = "counting"]
      BY <2>9 DEF ReadDisabled, Turned, PublishFails, ReadCount, WriteCount, CountFails
    <3>3. QED
      BY <2>1, <2>2, <3>1, <3>2 DEF Done, TypeOK
  <2>10. ASSUME NEW r \in Requests, PublishWebhook(r)
         PROVE  ~Pending(c)' /\ (stream'[c] => stream[c])
    <3>1. target[r] # c
      BY <2>1, <2>10 DEF PublishWebhook
    <3>2. stream'[c] = stream[c] /\ UNCHANGED <<sub, target>>
          /\ hook' = [hook EXCEPT ![r] = "published"]
      BY <2>10, <3>1 DEF PublishWebhook, TypeOK
    <3>3. QED
      BY <2>1, <2>2, <3>2 DEF TypeOK
  <2>11. ASSUME NEW S \in SUBSET Channels, ListExpired(S)
         PROVE  ~Pending(c)' /\ (stream'[c] => stream[c])
    BY <2>1, <2>2, <2>11 DEF ListExpired, hookVars
  <2>12. CASE UNCHANGED vars
    BY <2>1, <2>2, <2>12 DEF vars, hookVars
  <2>13. QED
    BY <2>3, <2>4, <2>5, <2>6, <2>7, <2>8, <2>9, <2>10, <2>11, <2>12 DEF Next
<1>2. QED
  BY <1>1, ChannelsTyped, PTL DEF Spec, GoneIsGone, ChannelTypes

--------------------------------------------------------------------------------
(* The mark of a channel lasts until its last second, or the pruner.       *)
MarkLasts ==
  \A c \in Channels : call[c] = "created" => expiresAt[c] <= metaUntil[c] + 1
                                            \/ expiresAt[c] <= now + 1

(* Who comes to a disabled channel finds the mark, or finds it in its last *)
(* second.                                                                 *)
LateRequests ==
  \A r \in Requests \cap late :
    /\ hook[r] # "new"
    /\ hook[r] = "exists" => disabled[target[r]] /\ call[target[r]] = "created"
    /\ hook[r] \in {"admitted", "published", "counting"} =>
         call[target[r]] = "created" /\ expiresAt[target[r]] <= now + 1

LateClients ==
  \A c \in Channels \cap late :
    /\ sub[c] # "new"
    /\ sub[c] = "exists" => disabled[c] /\ call[c] = "created"
    /\ sub[c] = "listening" => call[c] = "created" /\ expiresAt[c] <= now + 1

LateFacts == MarkLasts /\ LateRequests /\ LateClients

(* A step that lets nobody in, nor anything run out sooner.                *)
LEMMA NobodyLetIn ==
  ASSUME ChannelTypes, LateFacts, now' \in Nat, now <= now',
         \A c \in Channels : call[c] = "created" =>
           call'[c] = "created" /\ expiresAt'[c] = expiresAt[c],
         \A c \in Channels : disabled[c] => disabled'[c],
         UNCHANGED <<hook, target, sub, late>>
  PROVE  LateRequests' /\ LateClients'
<1>1. \A c \in Channels : call[c] = "created" /\ expiresAt[c] <= now + 1 =>
                           call'[c] = "created" /\ expiresAt'[c] <= now' + 1
  BY DEF ChannelTypes, TypeOK
<1>2. LateRequests'
  BY <1>1 DEF LateFacts, LateRequests, ChannelTypes, Targets
<1>3. LateClients'
  BY <1>1 DEF LateFacts, LateClients
<1>4. QED
  BY <1>2, <1>3

LEMMA LateStep == SlotsInv /\ LateFacts /\ [Next]_vars => LateFacts'
<1> SUFFICES ASSUME SlotsInv, LateFacts, [Next]_vars PROVE LateFacts'
  OBVIOUS
<1> USE DEF SlotsInv, ChannelTypes
<1>d. Requests \cap Channels = {} /\ None \notin Channels
  BY AnonymousAssumption
<1>t. now \in Nat /\ now <= now + 1 /\ now + 1 \in Nat
  BY DEF TypeOK
<1>1. CASE Tick
  <2>1. /\ now' = now + 1 /\ UNCHANGED <<call, expiresAt, disabled, hook, target, sub, late>>
        /\ metaUntil' = [c \in Channels |-> IF metaUntil[c] > now + 1 THEN metaUntil[c] ELSE 0]
    BY <1>1 DEF Tick, callVars, hookVars
  <2>2. MarkLasts'
    BY <1>t, <2>1 DEF LateFacts, MarkLasts, TypeOK
  <2>3. LateRequests' /\ LateClients'
    BY <1>t, <2>1, NobodyLetIn
  <2>4. QED
    BY <2>2, <2>3 DEF LateFacts
<1>2. ASSUME NEW c \in Channels, Disable(c) PROVE LateFacts'
  <2>1. /\ UNCHANGED <<now, metaUntil, call, expiresAt, hook, target, sub, late>>
        /\ \A d \in Channels : disabled[d] => disabled'[d]
    BY <1>2 DEF Disable, callVars, hookVars, TypeOK
  <2>2. MarkLasts'
    BY <2>1 DEF LateFacts, MarkLasts
  <2>3. LateRequests' /\ LateClients'
    BY <1>t, <2>1, NobodyLetIn
  <2>4. QED
    BY <2>2, <2>3 DEF LateFacts
<1>3. ASSUME NEW c \in Channels, CheckIPCount(c) PROVE LateFacts'
  <2>1. UNCHANGED <<now, metaUntil, disabled, hook, target, sub, late>>
    BY <1>3 DEF CheckIPCount, keyVars, hookVars
  <2>2. /\ \A d \in Channels : call[d] = "created" =>
             call'[d] = "created" /\ expiresAt'[d] = expiresAt[d]
        /\ \A d \in Channels : call'[d] = "created" => call[d] = "created"
    BY <1>3 DEF CheckIPCount, TypeOK
  <2>3. MarkLasts'
    BY <2>1, <2>2 DEF LateFacts, MarkLasts
  <2>4. LateRequests' /\ LateClients'
    BY <1>t, <2>1, <2>2, NobodyLetIn
  <2>5. QED
    BY <2>3, <2>4 DEF LateFacts
<1>4. ASSUME NEW c \in Channels, CreateChannel(c) PROVE LateFacts'
  <2>1. /\ UNCHANGED <<now, expiresAt, disabled, hook, target, sub, late>>
        /\ call[c] = "checked" /\ \A d \in Channels : d # c => call'[d] = call[d]
        /\ metaUntil' = [metaUntil EXCEPT ![c] = now + Ttl]
    BY <1>4 DEF CreateChannel, Keys, hookVars, TypeOK
  <2>2. expiresAt[c] <= (now + Ttl) + 1
    <3>1. expiresAt[c] <= now + Lifetime /\ expiresAt[c] \in Nat
      BY <2>1 DEF SlotFacts, Expiries, TypeOK
    <3>2. QED
      BY <1>t, <3>1, Lengths
  <2>3. MarkLasts'
    BY <2>1, <2>2 DEF LateFacts, MarkLasts, TypeOK
  <2>4. LateRequests' /\ LateClients'
    BY <1>t, <1>4, <2>1, NobodyLetIn DEF CreateChannel, TypeOK
  <2>5. QED
    BY <2>3, <2>4 DEF LateFacts
<1>5. ASSUME NEW c \in Channels, NEW k \in 0 .. 5, CreateFails(c, k) PROVE LateFacts'
  <2>1. /\ UNCHANGED <<now, expiresAt, disabled, hook, target, sub, late>>
        /\ call[c] = "checked" /\ call'[c] = "failed"
        /\ \A d \in Channels : d # c => call'[d] = call[d] /\ metaUntil'[d] = metaUntil[d]
    BY <1>5 DEF CreateFails, Keys, hookVars, TypeOK
  <2>2. MarkLasts'
    BY <2>1 DEF LateFacts, MarkLasts
  <2>3. LateRequests' /\ LateClients'
    BY <1>t, <2>1, NobodyLetIn
  <2>4. QED
    BY <2>2, <2>3 DEF LateFacts
<1>6. ASSUME NEW c \in Channels, NEW ok \in BOOLEAN, InsertRow(c, ok) PROVE LateFacts'
  BY <1>6 DEF InsertRow, keyVars, callVars, hookVars, LateFacts, MarkLasts, LateRequests,
              LateClients
<1>7. ASSUME NEW S \in SUBSET Channels, ListExpired(S) PROVE LateFacts'
  BY <1>7 DEF ListExpired, keyVars, callVars, hookVars, LateFacts, MarkLasts, LateRequests,
              LateClients
<1>8. ASSUME NEW c \in Channels, NEW ok \in BOOLEAN, CleanChannel(c, ok) PROVE LateFacts'
  <2>1. /\ UNCHANGED <<now, call, expiresAt, disabled, hook, target, sub, late>>
        /\ \A d \in Channels : d # c => metaUntil'[d] = metaUntil[d]
        /\ c \in todo
    BY <1>8 DEF CleanChannel, callVars, hookVars, TypeOK
  <2>2. expiresAt[c] <= now + 1
    BY <1>t, <2>1 DEF SlotFacts, Expiries, TypeOK
  <2>3. MarkLasts'
    BY <2>1, <2>2 DEF LateFacts, MarkLasts
  <2>4. LateRequests' /\ LateClients'
    BY <1>t, <2>1, NobodyLetIn
  <2>5. QED
    BY <2>3, <2>4 DEF LateFacts
<1>9. ASSUME NEW c \in Channels, ValidateScore(c) \/ SubscribeFails(c) \/ HangUp(c)
      PROVE  LateFacts'
  <2>1. UNCHANGED <<now, metaUntil, call, expiresAt, disabled, hook, target>>
    BY <1>9 DEF ValidateScore, SubscribeFails, HangUp, keyVars, callVars, hookVars
  <2>2. MarkLasts'
    BY <2>1 DEF LateFacts, MarkLasts
  <2>3. Requests \cap late' = Requests \cap late
    BY <1>9, <1>d DEF ValidateScore, SubscribeFails, HangUp
  <2>4. LateRequests'
    BY <2>1, <2>3 DEF LateFacts, LateRequests
  <2>5. /\ \A d \in Channels : d # c => sub'[d] = sub[d] /\ (d \in late' <=> d \in late)
        /\ c \in late' => /\ sub'[c] \in {"exists", "ended"}
                          /\ sub'[c] = "exists" => disabled[c] /\ call[c] = "created"
    <3>1. CASE ValidateScore(c)
      <4>1. /\ sub[c] = "new" /\ call[c] = "created" /\ sub'[c] \in {"exists", "ended"}
            /\ \A d \in Channels : d # c => sub'[d] = sub[d]
            /\ late' = IF disabled[c] THEN late \cup {c} ELSE late
        BY <3>1 DEF ValidateScore, TypeOK
      <4>2. c \notin late
        BY <4>1 DEF LateFacts, LateClients
      <4>3. QED
        BY <4>1, <4>2
    <3>2. CASE SubscribeFails(c) \/ HangUp(c)
      BY <3>2 DEF SubscribeFails, HangUp, TypeOK
    <3>3. QED
      BY <1>9, <3>1, <3>2
  <2>6. LateClients'
    BY <2>1, <2>5 DEF LateFacts, LateClients
  <2>7. QED
    BY <2>2, <2>4, <2>6 DEF LateFacts
<1>10. ASSUME NEW c \in Channels, ValidateDisabled(c) PROVE LateFacts'
  <2>1. UNCHANGED <<now, metaUntil, call, expiresAt, disabled, hook, target, late>>
    BY <1>10 DEF ValidateDisabled, keyVars, callVars, hookVars
  <2>2. MarkLasts' /\ LateRequests'
    BY <2>1 DEF LateFacts, MarkLasts, LateRequests
  <2>3. LateClients'
    <3> SUFFICES ASSUME NEW d \in Channels \cap late'
                 PROVE  /\ sub'[d] # "new"
                        /\ sub'[d] = "exists" => disabled'[d] /\ call'[d] = "created"
                        /\ sub'[d] = "listening" => call'[d] = "created" /\ expiresAt'[d] <= now' + 1
      BY DEF LateClients
    <3>1. /\ sub[d] # "new"
          /\ sub[d] = "exists" => disabled[d] /\ call[d] = "created"
          /\ sub[d] = "listening" => call[d] = "created" /\ expiresAt[d] <= now + 1
      BY <2>1 DEF LateFacts, LateClients
    <3>2. CASE d # c
      <4>1. sub'[d] = sub[d]
        BY <1>10, <3>2 DEF ValidateDisabled, TypeOK
      <4>2. QED
        BY <2>1, <3>1, <4>1
    <3>3. CASE d = c
      <4>1. sub[c] = "exists" /\ sub'[c] \in {"ended", "listening"}
        BY <1>10 DEF ValidateDisabled, TypeOK
      <4>2. sub'[c] = "listening" => ~MarkedDisabled(c)
        BY <1>10 DEF ValidateDisabled, TypeOK
      <4>3. sub'[c] = "listening" => metaUntil[c] <= now
        BY <3>1, <3>3, <4>1, <4>2 DEF MarkedDisabled, TypeOK
      <4>4. sub'[c] = "listening" => expiresAt[c] <= now + 1
        <5>1. expiresAt[c] <= metaUntil[c] + 1 \/ expiresAt[c] <= now + 1
          BY <3>1, <3>3, <4>1 DEF LateFacts, MarkLasts
        <5>2. QED
          BY <1>t, <4>3, <5>1 DEF TypeOK
      <4>5. QED
        BY <2>1, <3>1, <3>3, <4>1, <4>4
    <3>4. QED
      BY <3>2, <3>3
  <2>4. QED
    BY <2>2, <2>3 DEF LateFacts
<1>11. ASSUME NEW r \in Requests, UNCHANGED <<now, metaUntil, call, expiresAt, disabled, sub>>,
              Channels \cap late' = Channels \cap late,
              \A q \in Requests : q # r =>
                hook'[q] = hook[q] /\ target'[q] = target[q] /\ (q \in late' <=> q \in late),
              r \in late' =>
                /\ hook'[r] # "new"
                /\ hook'[r] = "exists" => disabled[target'[r]] /\ call[target'[r]] = "created"
                /\ hook'[r] \in {"admitted", "published", "counting"} =>
                     call[target'[r]] = "created" /\ expiresAt[target'[r]] <= now + 1
       PROVE  LateFacts'
  <2>1. MarkLasts' /\ LateClients'
    BY <1>11 DEF LateFacts, MarkLasts, LateClients
  <2>2. LateRequests'
    BY <1>11 DEF LateFacts, LateRequests
  <2>3. QED
    BY <2>1, <2>2 DEF LateFacts
<1>12. ASSUME NEW r \in Requests, Done(r), UNCHANGED <<now, metaUntil, call, expiresAt, disabled, sub>>
       PROVE  LateFacts'
  <2>1. /\ Channels \cap late' = Channels \cap late /\ r \notin late'
        /\ \A q \in Requests : q # r =>
             hook'[q] = hook[q] /\ target'[q] = target[q] /\ (q \in late' <=> q \in late)
    BY <1>d, <1>12 DEF Done, TypeOK
  <2>2. QED
    BY <1>11, <1>12, <2>1
<1>13. ASSUME NEW r \in Requests, NEW c \in Channels, Arrive(r, c) PROVE LateFacts'
  <2>1. UNCHANGED <<now, metaUntil, call, expiresAt, disabled, sub>>
    BY <1>13 DEF Arrive, keyVars, callVars
  <2>2. CASE Exists(c)
    <3>1. /\ hook[r] = "new" /\ call[c] = "created" /\ hook'[r] = "exists" /\ target'[r] = c
          /\ \A q \in Requests : q # r => hook'[q] = hook[q] /\ target'[q] = target[q]
          /\ late' = IF disabled[c] THEN late \cup {r} ELSE late
      BY <1>13, <2>2 DEF Arrive, TypeOK
    <3>2. r \notin late
      BY <3>1 DEF LateFacts, LateRequests
    <3>3. Channels \cap late' = Channels \cap late
      BY <1>d, <3>1
    <3>4. r \in late' => disabled[c]
      BY <3>1, <3>2
    <3>5. \A q \in Requests : q # r => (q \in late' <=> q \in late)
      BY <3>1
    <3>6. QED
      BY <1>11, <2>1, <3>1, <3>3, <3>4, <3>5
  <2>3. CASE ~Exists(c)
    BY <1>12, <1>13, <2>1, <2>3 DEF Arrive
  <2>4. QED
    BY <2>2, <2>3
<1>14. ASSUME NEW r \in Requests, ReadDisabled(r) PROVE LateFacts'
  <2>1. UNCHANGED <<now, metaUntil, call, expiresAt, disabled, sub>> /\ target[r] \in Channels
        /\ hook[r] = "exists"
    BY <1>14 DEF ReadDisabled, keyVars, callVars, Targets
  <2>2. CASE MarkedDisabled(target[r])
    BY <1>12, <1>14, <2>1, <2>2 DEF ReadDisabled
  <2>3. CASE ~MarkedDisabled(target[r])
    <3>1. /\ UNCHANGED <<target, late>> /\ hook'[r] = "admitted"
          /\ \A q \in Requests : q # r => hook'[q] = hook[q]
      BY <1>14, <2>3 DEF ReadDisabled, TypeOK
    <3>2. ASSUME r \in late
          PROVE  call[target[r]] = "created" /\ expiresAt[target[r]] <= now + 1
      <4>1. disabled[target[r]] /\ call[target[r]] = "created"
        BY <2>1, <3>2 DEF LateFacts, LateRequests
      <4>2. metaUntil[target[r]] <= now
        BY <2>1, <2>3, <4>1 DEF MarkedDisabled, TypeOK
      <4>3. expiresAt[target[r]] <= metaUntil[target[r]] + 1 \/ expiresAt[target[r]] <= now + 1
        BY <2>1, <4>1 DEF LateFacts, MarkLasts
      <4>4. QED
        BY <1>t, <2>1, <4>1, <4>2, <4>3 DEF TypeOK
    <3>3. QED
      BY <1>11, <2>1, <3>1, <3>2
  <2>4. QED
    BY <2>2, <2>3
<1>15. ASSUME NEW r \in Requests, Turned(r) \/ PublishFails(r) \/ WriteCount(r) \/ CountFails(r)
       PROVE  LateFacts'
  <2>1. Done(r) /\ UNCHANGED <<now, metaUntil, call, expiresAt, disabled, sub>>
    BY <1>15 DEF Turned, PublishFails, WriteCount, CountFails, keyVars, callVars
  <2>2. QED
    BY <1>12, <2>1
<1>16. ASSUME NEW r \in Requests,
              hook[r] \in {"admitted", "published", "counting"},
              hook' = [hook EXCEPT ![r] = "published"] \/ hook' = [hook EXCEPT ![r] = "counting"],
              UNCHANGED <<now, metaUntil, call, expiresAt, disabled, sub, target, late>>
       PROVE  LateFacts'
  <2>1. /\ \A q \in Requests : q # r => hook'[q] = hook[q]
        /\ hook'[r] \in {"published", "counting"}
    BY <1>16 DEF TypeOK
  <2>2. r \in late => call[target[r]] = "created" /\ expiresAt[target[r]] <= now + 1
    BY <1>16 DEF LateFacts, LateRequests
  <2>3. QED
    BY <1>11, <1>16, <2>1, <2>2
<1>17. ASSUME NEW r \in Requests, PublishWebhook(r) \/ ReadCount(r) PROVE LateFacts'
  <2>1. UNCHANGED <<now, metaUntil, call, expiresAt, disabled, sub>>
    BY <1>17 DEF PublishWebhook, ReadCount, keyVars, callVars
  <2>2. \/ Done(r)
        \/ /\ hook[r] \in {"admitted", "published", "counting"} /\ UNCHANGED <<target, late>>
           /\ hook' = [hook EXCEPT ![r] = "published"] \/ hook' = [hook EXCEPT ![r] = "counting"]
    BY <1>17 DEF PublishWebhook, ReadCount
  <2>3. QED
    BY <1>12, <1>16, <2>1, <2>2
<1>18. CASE UNCHANGED vars
  BY <1>18 DEF vars, keyVars, callVars, hookVars, LateFacts, MarkLasts, LateRequests, LateClients
<1>19. QED
  BY <1>1, <1>2, <1>3, <1>4, <1>5, <1>6, <1>7, <1>8, <1>9, <1>10, <1>13, <1>14, <1>15, <1>17, <1>18
     DEF Next

(* A disabled channel takes nobody in: the mark is kept as long as         *)
(* anything can be let in (IsAnonTopicDisabled and ValidateAnonChannel).   *)
THEOREM DisabledStaysShut == Spec => []DisabledIsRefused
<1>1. Init => LateFacts
  BY DEF Init, LateFacts, MarkLasts, LateRequests, LateClients
<1>2. LateFacts => DisabledIsRefused
  BY DEF LateFacts, LateRequests, LateClients, DisabledIsRefused
<1>3. QED
  BY <1>1, <1>2, LateStep, SlotsAlways, PTL DEF Spec

--------------------------------------------------------------------------------
(* The requests that have been published and are not counted yet.          *)
Uncounted(c) == {r \in Requests : target[r] = c /\ hook[r] \in {"published", "counting"}}

(* The count and the uncounted never exceed what was published, nor will   *)
(* they when a count that has been read is written back.                   *)
CountOf(c) ==
  /\ count[c] + Cardinality(Uncounted(c)) <= published[c]
  /\ \A r \in Uncounted(c) :
       hook[r] = "counting" => seen[r] + Cardinality(Uncounted(c)) <= published[c]
  /\ row[c] # "none" => call[c] = "created"

(* Where no update has met another there is one at most, and what it has   *)
(* read is the count.                                                      *)
AloneOf(c) ==
  alone[c] =>
    /\ count[c] + Cardinality(Uncounted(c)) = published[c]
    /\ \A r, q \in Uncounted(c) : r = q
    /\ \A r \in Uncounted(c) :
         row[c] = "stored" /\ (hook[r] = "counting" => seen[r] = count[c])

CountInv == \A c \in Channels : CountOf(c) /\ AloneOf(c)

LEMMA UncountedIsFinite ==
  ASSUME NEW c \in Channels
  PROVE  /\ IsFiniteSet(Uncounted(c)) /\ Cardinality(Uncounted(c)) \in Nat
         /\ \A r \in Uncounted(c) : Cardinality(Uncounted(c) \ {r}) = Cardinality(Uncounted(c)) - 1
         /\ \A r \in Requests \ Uncounted(c) :
              Cardinality(Uncounted(c) \cup {r}) = Cardinality(Uncounted(c)) + 1
<1>1. IsFiniteSet(Uncounted(c))
  BY AnonymousAssumption, FS_Subset DEF Uncounted
<1> HIDE DEF Uncounted
<1>2. Cardinality(Uncounted(c)) \in Nat
  BY <1>1, FS_CardinalityType
<1>3. \A r \in Uncounted(c) : Cardinality(Uncounted(c) \ {r}) = Cardinality(Uncounted(c)) - 1
  BY <1>1, FS_RemoveElement
<1>4. \A r : r \notin Uncounted(c) => Cardinality(Uncounted(c) \cup {r}) = Cardinality(Uncounted(c)) + 1
  BY <1>1, FS_AddElement
<1>5. QED
  BY <1>1, <1>2, <1>3, <1>4

(* A channel whose count, webhooks and requests stay what they are.        *)
LEMMA CountUnchanged ==
  ASSUME NEW c \in Channels, CountOf(c), AloneOf(c), Uncounted(c)' = Uncounted(c),
         count'[c] = count[c], published'[c] = published[c], alone'[c] = alone[c],
         row[c] = "stored" => row'[c] = "stored",
         row'[c] # "none" => call'[c] = "created",
         \A r \in Uncounted(c) : hook'[r] = "counting" => hook[r] = "counting" /\ seen'[r] = seen[r]
  PROVE  CountOf(c)' /\ AloneOf(c)'
<1>1. Cardinality(Uncounted(c)') = Cardinality(Uncounted(c))
  OBVIOUS
<1>2. CountOf(c)'
  BY <1>1 DEF CountOf
<1>3. AloneOf(c)'
  BY <1>1 DEF AloneOf
<1>4. QED
  BY <1>2, <1>3

(* A request that is given up: its webhook stays uncounted for good.       *)
LEMMA CountGivenUp ==
  ASSUME TypeOK, NEW c \in Channels, CountOf(c), NEW r \in Uncounted(c),
         Uncounted(c)' = Uncounted(c) \ {r},
         count'[c] = count[c], published'[c] = published[c], ~alone'[c],
         row'[c] # "none" => call'[c] = "created",
         \A q \in Uncounted(c)' : hook'[q] = hook[q] /\ seen'[q] = seen[q]
  PROVE  CountOf(c)' /\ AloneOf(c)'
<1>1. /\ Cardinality(Uncounted(c)') = Cardinality(Uncounted(c)) - 1
      /\ Cardinality(Uncounted(c)) \in Nat
  BY UncountedIsFinite
<1>2. count[c] \in Nat /\ published[c] \in Nat
  BY DEF TypeOK
<1>3. count'[c] + Cardinality(Uncounted(c)') <= published'[c]
  BY <1>1, <1>2 DEF CountOf
<1>4. ASSUME NEW q \in Uncounted(c)', hook'[q] = "counting"
      PROVE  seen'[q] + Cardinality(Uncounted(c)') <= published'[c]
  <2>1. q \in Uncounted(c) /\ q \in Requests /\ seen[q] \in Nat
    BY DEF Uncounted, TypeOK
  <2>2. seen[q] + Cardinality(Uncounted(c)) <= published[c] /\ seen'[q] = seen[q]
    BY <1>4, <2>1 DEF CountOf
  <2>3. QED
    BY <1>1, <1>2, <2>1, <2>2
<1>5. QED
  BY <1>3, <1>4 DEF CountOf, AloneOf

(* XADD: one more is published, and uncounted.                             *)
LEMMA PublishKeepsCount ==
  ASSUME ChannelTypes, CountInv, NEW r \in Requests, PublishWebhook(r)
  PROVE  CountInv'
<1> USE DEF ChannelTypes
<1>t. PICK t \in Channels : t = target[r]
  BY DEF PublishWebhook, Targets
<1>1. /\ t \in Channels /\ hook[r] = "admitted" /\ UNCHANGED <<target, seen, count, row, call>>
      /\ hook' = [hook EXCEPT ![r] = "published"]
      /\ published' = [published EXCEPT ![t] = @ + 1]
  BY <1>t DEF PublishWebhook, callVars
<1>2. alone' = [alone EXCEPT ![t] = @ /\ Others(r) = {} /\ row[t] = "stored"]
  BY <1>t DEF PublishWebhook
<1>3. /\ Uncounted(t)' = Uncounted(t) \cup {r} /\ r \notin Uncounted(t)
      /\ \A c \in Channels : c # t => Uncounted(c)' = Uncounted(c) /\ r \notin Uncounted(c)
      /\ \A q \in Requests : q # r => hook'[q] = hook[q]
  BY <1>t, <1>1 DEF Uncounted, TypeOK
<1>4. /\ Cardinality(Uncounted(t)') = Cardinality(Uncounted(t)) + 1
      /\ Cardinality(Uncounted(t)) \in Nat
  BY <1>1, <1>3, UncountedIsFinite
<1>5. /\ count[t] \in Nat /\ published[t] \in Nat /\ published'[t] = published[t] + 1
      /\ hook'[r] = "published"
  BY <1>1 DEF TypeOK
<1>6. CountOf(t) /\ AloneOf(t)
  BY <1>1 DEF CountInv
<1>7. CountOf(t)'
  <2>1. count'[t] + Cardinality(Uncounted(t)') <= published'[t]
    BY <1>1, <1>4, <1>5, <1>6 DEF CountOf
  <2>2. ASSUME NEW q \in Uncounted(t)', hook'[q] = "counting"
        PROVE  seen'[q] + Cardinality(Uncounted(t)') <= published'[t]
    <3>1. q # r /\ q \in Uncounted(t) /\ q \in Requests
      BY <1>3, <1>5, <2>2 DEF Uncounted
    <3>2. seen[q] + Cardinality(Uncounted(t)) <= published[t] /\ seen[q] \in Nat
      BY <1>3, <1>6, <2>2, <3>1 DEF CountOf, TypeOK
    <3>3. QED
      BY <1>1, <1>4, <1>5, <3>2
  <2>3. row'[t] # "none" => call'[t] = "created"
    BY <1>1, <1>6 DEF CountOf
  <2>4. QED
    BY <2>1, <2>2, <2>3 DEF CountOf
<1>8. AloneOf(t)'
  <2> SUFFICES ASSUME alone'[t]
               PROVE  /\ count'[t] + Cardinality(Uncounted(t)') = published'[t]
                      /\ \A p, q \in Uncounted(t)' : p = q
                      /\ \A q \in Uncounted(t)' :
                           row'[t] = "stored" /\ (hook'[q] = "counting" => seen'[q] = count'[t])
    BY DEF AloneOf
  <2>1. alone[t] /\ Others(r) = {} /\ row[t] = "stored"
    BY <1>1, <1>2 DEF TypeOK
  <2>2. Uncounted(t) = {}
    BY <1>t, <1>3, <2>1 DEF Others, Uncounted
  <2>3. count[t] + Cardinality(Uncounted(t)) = published[t]
    BY <1>6, <2>1 DEF AloneOf
  <2>4. count'[t] + Cardinality(Uncounted(t)') = published'[t]
    BY <1>1, <1>4, <1>5, <2>3
  <2>5. QED
    BY <1>1, <1>3, <1>5, <2>1, <2>2, <2>4
<1>9. ASSUME NEW c \in Channels, c # t PROVE CountOf(c)' /\ AloneOf(c)'
  <2>1. published'[c] = published[c] /\ alone'[c] = alone[c]
    BY <1>1, <1>2, <1>9 DEF TypeOK
  <2>2. \A q \in Uncounted(c) : hook'[q] = "counting" => hook[q] = "counting" /\ seen'[q] = seen[q]
    BY <1>1, <1>3, <1>9 DEF Uncounted
  <2>3. CountOf(c) /\ AloneOf(c) /\ Uncounted(c)' = Uncounted(c)
    BY <1>3, <1>9 DEF CountInv
  <2>4. row'[c] # "none" => call'[c] = "created"
    BY <1>1, <2>3 DEF CountOf
  <2>5. count'[c] = count[c] /\ (row[c] = "stored" => row'[c] = "stored")
    BY <1>1
  <2>6. QED
    BY <2>1, <2>2, <2>3, <2>4, <2>5, CountUnchanged
<1>10. QED
  BY <1>7, <1>8, <1>9 DEF CountInv

(* The select of IncrementAnonTopicCount finds the row.                    *)
LEMMA ReadKeepsCount ==
  ASSUME ChannelTypes, CountInv, NEW r \in Requests, ReadCount(r), row[target[r]] = "stored"
  PROVE  CountInv'
<1> USE DEF ChannelTypes
<1>t. PICK t \in Channels : t = target[r]
  BY DEF ReadCount, Targets
<1>1. /\ t \in Channels /\ hook[r] = "published"
      /\ UNCHANGED <<target, count, row, call, published, alone>>
      /\ hook' = [hook EXCEPT ![r] = "counting"] /\ seen' = [seen EXCEPT ![r] = count[t]]
  BY <1>t DEF ReadCount, callVars
<1>2. /\ \A c \in Channels : Uncounted(c)' = Uncounted(c)
      /\ r \in Uncounted(t) /\ \A c \in Channels : c # t => r \notin Uncounted(c)
      /\ \A q \in Requests : q # r => hook'[q] = hook[q] /\ seen'[q] = seen[q]
      /\ seen'[r] = count[t]
  BY <1>t, <1>1 DEF Uncounted, TypeOK
<1>3. CountOf(t) /\ AloneOf(t)
  BY <1>1 DEF CountInv
<1>4. CountOf(t)'
  <2>1. Cardinality(Uncounted(t)') = Cardinality(Uncounted(t))
    BY <1>1, <1>2
  <2>2. count'[t] + Cardinality(Uncounted(t)') <= published'[t]
    BY <1>1, <1>3, <2>1 DEF CountOf
  <2>3. ASSUME NEW q \in Uncounted(t)', hook'[q] = "counting"
        PROVE  seen'[q] + Cardinality(Uncounted(t)') <= published'[t]
    <3>1. CASE q = r
      BY <1>1, <1>2, <2>2, <3>1
    <3>2. CASE q # r
      <4>1. q \in Requests /\ q \in Uncounted(t)
        BY <1>1, <1>2, <2>3 DEF Uncounted
      <4>2. QED
        BY <1>1, <1>2, <1>3, <2>1, <2>3, <3>2, <4>1 DEF CountOf
    <3>3. QED
      BY <3>1, <3>2
  <2>4. QED
    BY <1>1, <1>3, <2>2, <2>3 DEF CountOf
<1>5. AloneOf(t)'
  <2>1. Cardinality(Uncounted(t)') = Cardinality(Uncounted(t))
    BY <1>1, <1>2
  <2>2. ASSUME alone[t], NEW q \in Uncounted(t)
        PROVE  q = r
    BY <1>2, <1>3, <2>2 DEF AloneOf
  <2>3. QED
    BY <1>1, <1>2, <1>3, <2>1, <2>2 DEF AloneOf
<1>6. ASSUME NEW c \in Channels, c # t PROVE CountOf(c)' /\ AloneOf(c)'
  <2>1. \A q \in Uncounted(c) : hook'[q] = "counting" => hook[q] = "counting" /\ seen'[q] = seen[q]
    BY <1>2, <1>6 DEF Uncounted
  <2>2. CountOf(c) /\ AloneOf(c) /\ Uncounted(c)' = Uncounted(c)
    BY <1>2 DEF CountInv
  <2>3. row'[c] # "none" => call'[c] = "created"
    BY <1>1, <2>2 DEF CountOf
  <2>4. /\ count'[c] = count[c] /\ published'[c] = published[c] /\ alone'[c] = alone[c]
        /\ row[c] = "stored" => row'[c] = "stored"
    BY <1>1
  <2>5. QED
    BY <2>1, <2>2, <2>3, <2>4, CountUnchanged
<1>7. QED
  BY <1>4, <1>5, <1>6 DEF CountInv

(* The update writes back what was read, and one more.                     *)
LEMMA WriteKeepsCount ==
  ASSUME ChannelTypes, CountInv, NEW r \in Requests, WriteCount(r)
  PROVE  CountInv'
<1> USE DEF ChannelTypes
<1>t. PICK t \in Channels : t = target[r]
  BY DEF WriteCount, Targets
<1>1. /\ t \in Channels /\ hook[r] = "counting" /\ Done(r)
      /\ UNCHANGED <<row, call, published, alone>>
      /\ count' = [count EXCEPT ![t] = seen[r] + 1]
  BY <1>t DEF WriteCount, callVars
<1>2. /\ Uncounted(t)' = Uncounted(t) \ {r} /\ r \in Uncounted(t)
      /\ \A c \in Channels : c # t => Uncounted(c)' = Uncounted(c) /\ r \notin Uncounted(c)
      /\ \A q \in Requests : q # r => hook'[q] = hook[q] /\ seen'[q] = seen[q]
  BY <1>t, <1>1, AnonymousAssumption DEF Uncounted, Done, TypeOK
<1>3. /\ Cardinality(Uncounted(t)') = Cardinality(Uncounted(t)) - 1
      /\ Cardinality(Uncounted(t)) \in Nat
  BY <1>1, <1>2, UncountedIsFinite
<1>4. /\ count[t] \in Nat /\ published[t] \in Nat /\ seen[r] \in Nat
      /\ count'[t] = seen[r] + 1
  BY <1>1 DEF TypeOK
<1>5. CountOf(t) /\ AloneOf(t)
  BY <1>1 DEF CountInv
<1>6. CountOf(t)'
  <2>1. seen[r] + Cardinality(Uncounted(t)) <= published[t]
    BY <1>1, <1>2, <1>5 DEF CountOf
  <2>2. count'[t] + Cardinality(Uncounted(t)') <= published'[t]
    BY <1>1, <1>3, <1>4, <2>1
  <2>3. ASSUME NEW q \in Uncounted(t)', hook'[q] = "counting"
        PROVE  seen'[q] + Cardinality(Uncounted(t)') <= published'[t]
    <3>1. q # r /\ q \in Uncounted(t) /\ q \in Requests
      BY <1>2 DEF Uncounted
    <3>2. hook[q] = "counting" /\ seen'[q] = seen[q] /\ seen[q] \in Nat
      BY <1>2, <2>3, <3>1 DEF TypeOK
    <3>3. seen[q] + Cardinality(Uncounted(t)) <= published[t]
      BY <1>5, <3>1, <3>2 DEF CountOf
    <3>4. QED
      BY <1>1, <1>3, <1>4, <3>2, <3>3
  <2>4. QED
    BY <1>1, <1>5, <2>2, <2>3 DEF CountOf
<1>7. AloneOf(t)'
  <2> SUFFICES ASSUME alone[t]
               PROVE  /\ count'[t] + Cardinality(Uncounted(t)') = published'[t]
                      /\ Uncounted(t)' = {}
    BY <1>1 DEF AloneOf
  <2>1. /\ count[t] + Cardinality(Uncounted(t)) = published[t]
        /\ \A q \in Uncounted(t) : q = r
        /\ seen[r] = count[t]
    BY <1>1, <1>2, <1>5 DEF AloneOf
  <2>2. Uncounted(t)' = {}
    BY <1>2, <2>1
  <2>3. count'[t] + Cardinality(Uncounted(t)') = published'[t]
    BY <1>1, <1>3, <1>4, <2>1
  <2>4. QED
    BY <2>2, <2>3
<1>8. ASSUME NEW c \in Channels, c # t PROVE CountOf(c)' /\ AloneOf(c)'
  <2>1. \A q \in Uncounted(c) : hook'[q] = "counting" => hook[q] = "counting" /\ seen'[q] = seen[q]
    BY <1>2, <1>8 DEF Uncounted
  <2>2. CountOf(c) /\ AloneOf(c) /\ Uncounted(c)' = Uncounted(c)
    BY <1>2, <1>8 DEF CountInv
  <2>3. row'[c] # "none" => call'[c] = "created"
    BY <1>1, <2>2 DEF CountOf
  <2>4. /\ count'[c] = count[c] /\ published'[c] = published[c] /\ alone'[c] = alone[c]
        /\ row[c] = "stored" => row'[c] = "stored"
    BY <1>1, <1>8 DEF TypeOK
  <2>5. QED
    BY <2>1, <2>2, <2>3, <2>4, CountUnchanged
<1>9. QED
  BY <1>6, <1>7, <1>8 DEF CountInv

(* A request that leaves without having been counted.                      *)
LEMMA LeavingKeepsCount ==
  ASSUME ChannelTypes, CountInv, NEW r \in Requests, Done(r), UNCHANGED <<count, published, row, call>>,
         \/ hook[r] \in {"new", "exists", "admitted"} /\ UNCHANGED alone
         \/ /\ hook[r] \in {"published", "counting"}
            /\ ~alone'[target[r]]
            /\ \A c \in Channels : c # target[r] => alone'[c] = alone[c]
  PROVE  CountInv'
<1> USE DEF ChannelTypes
<1> SUFFICES ASSUME NEW c \in Channels PROVE CountOf(c)' /\ AloneOf(c)'
  BY DEF CountInv
<1>1. /\ Uncounted(c)' = Uncounted(c) \ {r}
      /\ \A q \in Uncounted(c) \ {r} : hook'[q] = hook[q] /\ seen'[q] = seen[q]
  BY AnonymousAssumption DEF Uncounted, Done, TypeOK
<1>2. /\ CountOf(c) /\ AloneOf(c) /\ count'[c] = count[c] /\ published'[c] = published[c]
      /\ row[c] = "stored" => row'[c] = "stored"
  BY DEF CountInv
<1>3. row'[c] # "none" => call'[c] = "created"
  BY <1>2 DEF CountOf
<1>4. CASE r \in Uncounted(c)
  <2>1. ~alone'[c]
    BY <1>4 DEF Uncounted
  <2>2. QED
    BY <1>1, <1>2, <1>3, <1>4, <2>1, CountGivenUp
<1>5. CASE r \notin Uncounted(c)
  <2>1. alone'[c] = alone[c]
    BY <1>5 DEF Uncounted
  <2>2. Uncounted(c)' = Uncounted(c)
    BY <1>1, <1>5
  <2>3. \A q \in Uncounted(c) : hook'[q] = "counting" => hook[q] = "counting" /\ seen'[q] = seen[q]
    BY <1>1, <1>5
  <2>4. QED
    BY <1>2, <1>3, <2>1, <2>2, <2>3, CountUnchanged
<1>6. QED
  BY <1>4, <1>5

(* A step that publishes and counts nothing.                               *)
LEMMA OthersKeepCount ==
  ASSUME ChannelTypes, CountInv, UNCHANGED <<count, published, alone, seen>>,
         \A c \in Channels : Uncounted(c)' = Uncounted(c),
         \A c \in Channels : row[c] = "stored" => row'[c] = "stored",
         \A c \in Channels : row'[c] # "none" => call'[c] = "created",
         \A r \in Requests : hook'[r] = "counting" => hook[r] = "counting"
  PROVE  CountInv'
<1> SUFFICES ASSUME NEW c \in Channels PROVE CountOf(c)' /\ AloneOf(c)'
  BY DEF CountInv
<1>1. CountOf(c) /\ AloneOf(c)
  BY DEF CountInv
<1>2. \A q \in Uncounted(c) : hook'[q] = "counting" => hook[q] = "counting" /\ seen'[q] = seen[q]
  BY DEF Uncounted
<1>3. QED
  BY <1>1, <1>2, CountUnchanged

LEMMA CountStep == ChannelTypes /\ CountInv /\ [Next]_vars => CountInv'
<1> SUFFICES ASSUME ChannelTypes, CountInv, [Next]_vars PROVE CountInv'
  OBVIOUS
<1> USE DEF ChannelTypes
<1>1. \A c \in Channels : row[c] # "none" => call[c] = "created"
  BY DEF CountInv, CountOf
<1>2. ASSUME UNCHANGED hookVars,
             \A c \in Channels : row[c] = "stored" => row'[c] = "stored",
             \A c \in Channels : row'[c] # "none" => call'[c] = "created"
      PROVE  CountInv'
  <2>1. \A c \in Channels : Uncounted(c)' = Uncounted(c)
    BY <1>2 DEF Uncounted, hookVars
  <2>2. UNCHANGED <<hook, count, published, alone, seen>>
    BY <1>2 DEF hookVars
  <2>3. QED
    BY <1>2, <2>1, <2>2, OthersKeepCount
<1>3. CASE Tick
  BY <1>1, <1>2, <1>3 DEF Tick, callVars
<1>4. ASSUME NEW c \in Channels, CheckIPCount(c) PROVE CountInv'
  <2>1. /\ call[c] = "new" /\ UNCHANGED row /\ UNCHANGED hookVars
        /\ \A d \in Channels : d # c => call'[d] = call[d]
    BY <1>4 DEF CheckIPCount, TypeOK
  <2>2. QED
    BY <1>1, <1>2, <2>1
<1>5. ASSUME NEW c \in Channels, CreateChannel(c) PROVE CountInv'
  <2>1. /\ call[c] = "checked" /\ call'[c] = "created" /\ UNCHANGED hookVars
        /\ \A d \in Channels : d # c => call'[d] = call[d] /\ row'[d] = row[d]
    BY <1>5 DEF CreateChannel, TypeOK
  <2>2. QED
    BY <1>1, <1>2, <2>1
<1>6. ASSUME NEW c \in Channels, NEW k \in 0 .. 5, CreateFails(c, k) PROVE CountInv'
  <2>1. /\ call[c] = "checked" /\ UNCHANGED row /\ UNCHANGED hookVars
        /\ \A d \in Channels : d # c => call'[d] = call[d]
    BY <1>6 DEF CreateFails, TypeOK
  <2>2. QED
    BY <1>1, <1>2, <2>1
<1>7. ASSUME NEW c \in Channels, NEW ok \in BOOLEAN, InsertRow(c, ok) PROVE CountInv'
  <2>1. /\ row[c] = "inserting" /\ UNCHANGED hookVars /\ UNCHANGED callVars
        /\ \A d \in Channels : d # c => row'[d] = row[d]
    BY <1>7 DEF InsertRow, TypeOK
  <2>2. QED
    BY <1>1, <1>2, <2>1 DEF callVars
<1>8. ASSUME NEW c \in Channels, NEW ok \in BOOLEAN,
             \/ Disable(c) \/ ValidateScore(c) \/ ValidateDisabled(c) \/ SubscribeFails(c)
             \/ HangUp(c) \/ CleanChannel(c, ok)
      PROVE  CountInv'
  <2>1. UNCHANGED hookVars /\ UNCHANGED callVars /\ UNCHANGED row
    BY <1>8 DEF Disable, ValidateScore, ValidateDisabled, SubscribeFails, HangUp, CleanChannel
  <2>2. QED
    BY <1>1, <1>2, <2>1 DEF callVars
<1>9. ASSUME NEW S \in SUBSET Channels, ListExpired(S) PROVE CountInv'
  BY <1>1, <1>2, <1>9 DEF ListExpired, callVars
<1>10. ASSUME NEW r \in Requests, UNCHANGED <<count, published, alone, seen, row, call>>,
              hook[r] \in {"new", "exists", "admitted"}, hook'[r] \in {"exists", "admitted"},
              \A q \in Requests : q # r => hook'[q] = hook[q] /\ target'[q] = target[q]
       PROVE  CountInv'
  <2>1. \A c \in Channels : Uncounted(c)' = Uncounted(c)
    BY <1>10 DEF Uncounted
  <2>2. \A q \in Requests : hook'[q] = "counting" => hook[q] = "counting"
    BY <1>10
  <2>3. QED
    BY <1>1, <1>10, <2>1, <2>2, OthersKeepCount
<1>11. ASSUME NEW r \in Requests, NEW c \in Channels, Arrive(r, c) PROVE CountInv'
  <2>1. hook[r] = "new" /\ UNCHANGED <<count, published, alone, row, call>>
    BY <1>11 DEF Arrive, callVars
  <2>2. CASE Exists(c)
    <3>1. /\ hook'[r] = "exists" /\ UNCHANGED seen
          /\ \A q \in Requests : q # r => hook'[q] = hook[q] /\ target'[q] = target[q]
      BY <1>11, <2>2 DEF Arrive, TypeOK
    <3>2. QED
      BY <1>10, <2>1, <3>1
  <2>3. CASE ~Exists(c)
    <3>1. Done(r)
      BY <1>11, <2>3 DEF Arrive
    <3>2. QED
      BY <2>1, <3>1, LeavingKeepsCount
  <2>4. QED
    BY <2>2, <2>3
<1>12. ASSUME NEW r \in Requests, ReadDisabled(r) PROVE CountInv'
  <2>1. hook[r] = "exists" /\ UNCHANGED <<count, published, alone, row, call>>
    BY <1>12 DEF ReadDisabled, callVars
  <2>2. \/ Done(r)
        \/ /\ hook'[r] = "admitted" /\ UNCHANGED <<target, seen>>
           /\ \A q \in Requests : q # r => hook'[q] = hook[q]
    BY <1>12 DEF ReadDisabled, TypeOK
  <2>3. QED
    BY <1>10, <2>1, <2>2, LeavingKeepsCount
<1>13. ASSUME NEW r \in Requests, Turned(r) \/ PublishFails(r) PROVE CountInv'
  <2>1. hook[r] = "admitted" /\ Done(r) /\ UNCHANGED <<count, published, alone, row, call>>
    BY <1>13 DEF Turned, PublishFails, callVars
  <2>2. QED
    BY <2>1, LeavingKeepsCount
<1>14. ASSUME NEW r \in Requests, PublishWebhook(r) PROVE CountInv'
  BY <1>14, PublishKeepsCount
<1>15. ASSUME NEW r \in Requests, ReadCount(r) PROVE CountInv'
  <2>1. CASE row[target[r]] = "stored"
    BY <1>15, <2>1, ReadKeepsCount
  <2>2. CASE row[target[r]] # "stored"
    <3>1. /\ hook[r] = "published" /\ Done(r) /\ UNCHANGED <<count, published, alone, row, call>>
          /\ target[r] \in Channels
      BY <1>15, <2>2 DEF ReadCount, callVars, Targets
    <3>2. r \in Uncounted(target[r])
      BY <3>1 DEF Uncounted
    <3>3. ~alone[target[r]]
      BY <2>2, <3>1, <3>2 DEF CountInv, AloneOf
    <3>4. QED
      BY <3>1, <3>3, LeavingKeepsCount
  <2>3. QED
    BY <2>1, <2>2
<1>16. ASSUME NEW r \in Requests, WriteCount(r) PROVE CountInv'
  BY <1>16, WriteKeepsCount
<1>17. ASSUME NEW r \in Requests, CountFails(r) PROVE CountInv'
  <2>1. /\ hook[r] \in {"published", "counting"} /\ Done(r)
        /\ UNCHANGED <<count, published, row, call>> /\ target[r] \in Channels
        /\ alone' = [alone EXCEPT ![target[r]] = FALSE]
    BY <1>17 DEF CountFails, callVars, Targets
  <2>2. ~alone'[target[r]] /\ \A c \in Channels : c # target[r] => alone'[c] = alone[c]
    BY <2>1 DEF TypeOK
  <2>3. QED
    BY <2>1, <2>2, LeavingKeepsCount
<1>18. CASE UNCHANGED vars
  BY <1>1, <1>2, <1>18 DEF vars, callVars
<1>19. QED
  BY <1>3, <1>4, <1>5, <1>6, <1>7, <1>8, <1>9, <1>11, <1>12, <1>13, <1>14, <1>15, <1>16, <1>17,
     <1>18 DEF Next

(* request_count is never ahead of what was published, and is right where  *)
(* no update met another (IncrementAnonTopicCount).                        *)
THEOREM CountIsBounded == Spec => []RequestCount
<1>1. Init => CountInv
  <2> SUFFICES ASSUME Init, NEW c \in Channels PROVE CountOf(c) /\ AloneOf(c)
    BY DEF CountInv
  <2>1. Uncounted(c) = {}
    BY DEF Init, Uncounted
  <2>2. Cardinality(Uncounted(c)) = 0
    BY <2>1, FS_EmptySet
  <2>3. count[c] = 0 /\ published[c] = 0 /\ row[c] = "none"
    BY DEF Init
  <2>4. QED
    BY <2>1, <2>2, <2>3 DEF CountOf, AloneOf
<1>2. ChannelTypes /\ CountInv => RequestCount
  <2> SUFFICES ASSUME ChannelTypes, CountInv, NEW c \in Channels
               PROVE  /\ count[c] <= published[c]
                      /\ alone[c] => count[c] + Cardinality(Uncounted(c)) = published[c]
    BY DEF RequestCount, Uncounted
  <2>1. CountOf(c) /\ AloneOf(c) /\ Cardinality(Uncounted(c)) \in Nat
    BY UncountedIsFinite DEF CountInv
  <2>2. count[c] \in Nat /\ published[c] \in Nat
    BY DEF ChannelTypes, TypeOK
  <2>3. QED
    BY <2>1, <2>2 DEF CountOf, AloneOf
<1>3. QED
  BY <1>1, <1>2, CountStep, ChannelsTyped, PTL DEF Spec, ChannelTypes
================================================================================
