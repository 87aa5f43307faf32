------------------------- MODULE MachineRegistry_proofs -------------------------
(***************************************************************************)
(* Proofs about MachineRegistry, for any number of machines, contexts,     *)
(* streams and failures: what the maps and the table say of the streams.   *)
(***************************************************************************)
EXTENDS MachineRegistry, FiniteSetTheorems, TLAPS

StreamsOf(c) == {s \in Subs : ContextOf[s] = c}

(* An entry is one of its context, and holds the streams that have joined  *)
(* it and have not left.                                                   *)
Held == \A c \in Contexts : machines[c] # None => ContextOf[machines[c]] = c

Entries ==
  \A s \in Subs :
    /\ at[s] \notin {"new", "done"} => entry[s] # None
    /\ entry[s] # None => ContextOf[entry[s]] = ContextOf[s]

Lists ==
  \A s, e \in Subs : s \in list[e] <=> at[s] \in {"count", "running"} /\ entry[s] = e

(* What a stream reports is at most the number of those of its context.    *)
Numbers == \A s \in Subs : num[s] \in 0 .. Cardinality(StreamsOf(ContextOf[s]))

(* A machine is only ever mapped to contexts of its own.                   *)
Mapped ==
  /\ \A m \in Machines : \A c \in contexts[m] : MachineOf[c] = m
  /\ \A s \in Subs : \A c \in seen[s] : MachineOf[c] = Machine(s)
  /\ \A l \in Listeners :
       /\ \A c \in todo[l] : MachineOf[c] = killer[l]
       /\ deleting[l] # None => MachineOf[deleting[l]] = killer[l]

RegistryInv == TypeOK /\ Held /\ Entries /\ Lists /\ Numbers /\ Mapped

LEMMA Constants ==
  /\ \A s \in Subs : ContextOf[s] \in Contexts /\ Machine(s) \in Machines /\ s # None
  /\ \A c \in Contexts : MachineOf[c] \in Machines /\ c # None
  /\ None \notin Machines /\ None \notin Contexts /\ None \notin Subs
BY RegistryAssumption DEF Machine

LEMMA StreamsAreFinite ==
  ASSUME NEW c
  PROVE  /\ IsFiniteSet(StreamsOf(c)) /\ Cardinality(StreamsOf(c)) \in Nat
         /\ Cardinality(Subs) \in Nat /\ Cardinality(StreamsOf(c)) <= Cardinality(Subs)
<1>1. StreamsOf(c) \subseteq Subs
  BY DEF StreamsOf
<1>2. QED
  BY <1>1, RegistryAssumption, FS_Subset, FS_CardinalityType

(* The lists of an entry, before and after a stream joins or leaves.       *)
LEMMA ListSizes ==
  ASSUME RegistryInv, NEW s \in Subs, entry[s] # None
  PROVE  /\ IsFiniteSet(list[entry[s]])
         /\ Cardinality(list[entry[s]] \ {s}) \in 0 .. Cardinality(StreamsOf(ContextOf[s]))
         /\ Cardinality(list[entry[s]] \ {s}) = 0 <=> list[entry[s]] \ {s} = {}
         /\ at[s] = "join" => Cardinality(list[entry[s]]) + 1
                                \in 0 .. Cardinality(StreamsOf(ContextOf[s]))
<1> DEFINE L == list[entry[s]]
           C == StreamsOf(ContextOf[s])
<1>1. entry[s] \in Subs /\ L \in SUBSET Subs
  BY DEF RegistryInv, TypeOK
<1>2. L \subseteq C
  BY <1>1 DEF RegistryInv, Lists, Entries, StreamsOf
<1>3. IsFiniteSet(C) /\ Cardinality(C) \in Nat
  BY StreamsAreFinite
<1>4. s \in C
  BY DEF StreamsOf
<1>5. at[s] = "join" => s \notin L
  BY <1>1 DEF RegistryInv, Lists
<1> HIDE DEF L, C
<1>6. IsFiniteSet(L) /\ IsFiniteSet(L \ {s}) /\ IsFiniteSet(L \cup {s})
  BY <1>2, <1>3, <1>4, FS_Subset
<1>7. Cardinality(L \ {s}) \in Nat /\ Cardinality(L \ {s}) <= Cardinality(C)
  BY <1>2, <1>3, <1>6, FS_Subset, FS_CardinalityType
<1>8. Cardinality(L \ {s}) = 0 <=> L \ {s} = {}
  BY <1>6, FS_EmptySet
<1>9. ASSUME at[s] = "join"
      PROVE  Cardinality(L) + 1 \in 0 .. Cardinality(C)
  <2>1. Cardinality(L \cup {s}) = Cardinality(L) + 1 /\ Cardinality(L) \in Nat
    BY <1>5, <1>6, <1>9, FS_AddElement, FS_CardinalityType
  <2>2. Cardinality(L \cup {s}) <= Cardinality(C)
    BY <1>2, <1>3, <1>4, FS_Subset
  <2>3. QED
    BY <1>3, <2>1, <2>2
<1>10. QED
  BY <1>3, <1>6, <1>7, <1>8, <1>9 DEF L, C

--------------------------------------------------------------------------------
(* Types.                                                                  *)
LEMMA RowTypes ==
  ASSUME RegistryInv, NEW c \in Contexts, NEW n \in 0 .. Cardinality(StreamsOf(c)),
         DisconnectClient(c) \/ UpdateConnectionCount(c, n) \/ UNCHANGED rowVars
  PROVE  /\ row' \in [Contexts -> {"absent", "connected", "disconnected"}]
         /\ DOMAIN count' = Contexts
         /\ \A d \in Contexts : count'[d] \in 0 .. Cardinality({s \in Subs : ContextOf[s] = d})
         /\ feed' \in [Listeners -> [Machines -> Nat]]
<1> USE DEF RegistryInv
<1>1. row' \in [Contexts -> {"absent", "connected", "disconnected"}]
  BY DEF DisconnectClient, UpdateConnectionCount, rowVars, TypeOK
<1>2. DOMAIN count = Contexts /\ \A d \in Contexts : count[d] \in 0 .. Cardinality(StreamsOf(d))
  BY DEF TypeOK, StreamsOf
<1>3. 0 \in 0 .. Cardinality(StreamsOf(c))
  BY StreamsAreFinite
<1>4. \/ UNCHANGED count
      \/ \E k \in {0, n} : count' = [count EXCEPT ![c] = k]
  BY DEF DisconnectClient, UpdateConnectionCount, rowVars
<1>5. DOMAIN count' = Contexts /\ \A d \in Contexts : count'[d] \in 0 .. Cardinality(StreamsOf(d))
  BY <1>2, <1>3, <1>4
<1>6. feed' \in [Listeners -> [Machines -> Nat]]
  <2>1. MachineOf[c] \in Machines /\ "changes" \in Listeners
    BY Constants DEF Listeners
  <2>2. feed' = feed \/ \E k \in {0, 1} : feed' = [feed EXCEPT !["changes"][MachineOf[c]] = @ + k]
    BY DEF DisconnectClient, UpdateConnectionCount, Changed, rowVars
  <2>3. feed \in [Listeners -> [Machines -> Nat]]
    BY DEF TypeOK
  <2>4. QED
    BY <2>1, <2>2, <2>3
<1>7. QED
  BY <1>1, <1>5, <1>6 DEF StreamsOf

RowTyped ==
  /\ row \in [Contexts -> {"absent", "connected", "disconnected"}]
  /\ DOMAIN count = Contexts
  /\ \A c \in Contexts : count[c] \in 0 .. Cardinality({s \in Subs : ContextOf[s] = c})
  /\ feed \in [Listeners -> [Machines -> Nat]]

LEMMA CallTypes ==
  ASSUME TypeOK, NEW ok \in BOOLEAN, Call(ok)
  PROVE  faults' \in 0 .. MaxFaults /\ failed' \in BOOLEAN
<1>1. failed' \in {failed, TRUE} /\ failed \in BOOLEAN
  BY DEF Call, TypeOK
<1>2. faults' = faults \/ (faults < MaxFaults /\ faults' = faults + 1)
  BY DEF Call, Fault
<1>3. faults \in 0 .. MaxFaults /\ MaxFaults \in Nat
  BY RegistryAssumption DEF TypeOK
<1>4. faults' \in 0 .. MaxFaults
  BY <1>2, <1>3
<1>5. failed' \in BOOLEAN
  BY <1>1
<1>6. QED
  BY <1>4, <1>5

LEMMA EndsTypes ==
  ASSUME TypeOK, NEW s \in Subs, NEW to \in Places, Ends(s, to)
  PROVE  /\ at' \in [Subs -> Places] /\ entry' \in [Subs -> Subs \cup {None}]
         /\ db' \in [Subs -> BOOLEAN] /\ cancelled' \in [Subs -> BOOLEAN]
BY DEF Ends, Goes, TypeOK

(* What the end of a step does to the local variables of its stream.       *)
LEMMA EndsEffect ==
  ASSUME TypeOK, NEW s \in Subs, NEW p \in Places, Ends(s, p)
  PROVE  /\ \A t \in Subs : t # s => at'[t] = at[t] /\ entry'[t] = entry[t]
                                       /\ db'[t] = db[t] /\ cancelled'[t] = cancelled[t]
         /\ at'[s] = p
         /\ p # "done" => entry'[s] = entry[s] /\ db'[s] = db[s] /\ cancelled'[s] = cancelled[s]
         /\ p = "done" => entry'[s] = None /\ ~db'[s] /\ ~cancelled'[s]
<1>1. CASE p = "done"
  BY <1>1 DEF Ends, Goes, TypeOK
<1>2. CASE p # "done"
  BY <1>2 DEF Ends, Goes, TypeOK
<1>3. QED
  BY <1>1, <1>2

LEMMA TypesStep == RegistryInv /\ [Next]_vars => TypeOK'
<1> SUFFICES ASSUME RegistryInv, [Next]_vars PROVE TypeOK'
  OBVIOUS
<1> USE DEF RegistryInv
<1>n. \A s \in Subs : num[s] \in 0 .. Cardinality(Subs) /\ Cardinality(Subs) \in Nat
  BY StreamsAreFinite DEF TypeOK
<1>1. ASSUME NEW s \in Subs, GetEntry(s) PROVE TypeOK'
  <2>1. machines' \in [Contexts -> Subs \cup {None}] /\ entry' \in [Subs -> Subs \cup {None}]
    BY <1>1, Constants DEF GetEntry, TypeOK
  <2>2. at' \in [Subs -> Places]
    BY <1>1 DEF GetEntry, Goes, TypeOK, Places
  <2>3. raced' \in SUBSET Machines
    BY <1>1, Constants DEF GetEntry, TypeOK
  <2>4. QED
    BY <1>1, <2>1, <2>2, <2>3 DEF GetEntry, TypeOK, rowVars, killVars, stopVars
<1>2. ASSUME NEW s \in Subs, NEW ok \in BOOLEAN, Upsert(s, ok) PROVE TypeOK'
  <2>1. faults' \in 0 .. MaxFaults /\ failed' \in BOOLEAN
    BY <1>2, CallTypes DEF Upsert
  <2>2. row' \in [Contexts -> {"absent", "connected", "disconnected"}]
    <3>1. row' = row \/ row' = [row EXCEPT ![ContextOf[s]] = "connected"]
      BY <1>2 DEF Upsert
    <3>2. QED
      BY <3>1 DEF TypeOK
  <2>3. at' \in [Subs -> Places]
    BY <1>2 DEF Upsert, Goes, TypeOK, Places
  <2>a. known' \in [Subs -> BOOLEAN]
    <3>1. known \in [Subs -> BOOLEAN]
      BY DEF TypeOK
    <3>2. known' = known \/ known' = [known EXCEPT ![entry[s]] = TRUE]
      BY <1>2 DEF Upsert
    <3>3. QED
      BY <3>1, <3>2, Zenon
  <2>b. db' \in [Subs -> BOOLEAN]
    <3>1. db \in [Subs -> BOOLEAN]
      BY DEF TypeOK
    <3>2. db' = [db EXCEPT ![s] = TRUE]
      BY <1>2 DEF Upsert
    <3>3. QED
      BY <3>1, <3>2, Zenon
  <2>4. QED
    BY <1>2, <2>1, <2>2, <2>3, <2>a, <2>b DEF Upsert, TypeOK, killVars, stopVars
<1>3. ASSUME NEW s \in Subs, ReadMachineID(s) PROVE TypeOK'
  <2>1. entry[s] \in Subs
    BY <1>3 DEF ReadMachineID, Entries, TypeOK
  <2>2. at' \in [Subs -> Places]
    BY <1>3 DEF ReadMachineID, Goes, TypeOK, Places
  <2>3. db' \in [Subs -> BOOLEAN]
    <3>1. db \in [Subs -> BOOLEAN] /\ known \in [Subs -> BOOLEAN]
      BY DEF TypeOK
    <3>2. known[entry[s]] \in BOOLEAN
      BY <2>1, <3>1, Zenon
    <3>3. db' = [db EXCEPT ![s] = known[entry[s]]]
      BY <1>3 DEF ReadMachineID
    <3>4. QED
      BY <3>1, <3>2, <3>3, Zenon
  <2>4. QED
    BY <1>3, <2>2, <2>3 DEF ReadMachineID, TypeOK, mapVars, rowVars, killVars, stopVars
<1>4. ASSUME NEW s \in Subs, LoadContexts(s) \/ UnmapLoad(s) PROVE TypeOK'
  <2>1. at' \in [Subs -> Places]
    BY <1>4 DEF LoadContexts, UnmapLoad, Goes, TypeOK, Places
  <2>2. seen' \in [Subs -> SUBSET Contexts]
    <3>1. \E X \in {{}, contexts[Machine(s)]} : seen' = [seen EXCEPT ![s] = X]
      BY <1>4 DEF LoadContexts, UnmapLoad
    <3>2. contexts[Machine(s)] \in SUBSET Contexts
      BY Constants DEF TypeOK
    <3>3. QED
      BY <3>1, <3>2 DEF TypeOK
  <2>3. UNCHANGED <<mapVars, rowVars, entry, db, num, cancelled, killVars, stopVars, faults, failed, asked,
                    raced>>
    BY <1>4 DEF LoadContexts, UnmapLoad
  <2>4. QED
    BY <2>1, <2>2, <2>3 DEF TypeOK, mapVars, rowVars, killVars, stopVars
<1>5. ASSUME NEW s \in Subs, StoreContexts(s) \/ UnmapStore(s) PROVE TypeOK'
  <2>1. at' \in [Subs -> Places]
    <3>1. \E p \in Places : at' = [at EXCEPT ![s] = p]
      BY <1>5 DEF StoreContexts, UnmapStore, Goes, Places
    <3>2. QED
      BY <3>1 DEF TypeOK
  <2>2. contexts' \in [Machines -> SUBSET Contexts]
    <3>1. seen[s] \in SUBSET Contexts /\ ContextOf[s] \in Contexts /\ Machine(s) \in Machines
      BY Constants DEF TypeOK
    <3>2. seen[s] \cup {ContextOf[s]} \in SUBSET Contexts /\ seen[s] \ {ContextOf[s]} \in SUBSET Contexts
      BY <3>1
    <3>3. \E X \in SUBSET Contexts : contexts' = [contexts EXCEPT ![Machine(s)] = X]
      BY <1>5, <3>2 DEF StoreContexts, UnmapStore
    <3>4. QED
      BY <3>1, <3>3 DEF TypeOK
  <2>3. seen' \in [Subs -> SUBSET Contexts]
    <3>1. seen' = [seen EXCEPT ![s] = {}]
      BY <1>5 DEF StoreContexts, UnmapStore
    <3>2. QED
      BY <3>1 DEF TypeOK
  <2>4. QED
    BY <1>5, <2>1, <2>2, <2>3 DEF StoreContexts, UnmapStore, TypeOK, rowVars, killVars, stopVars
<1>6. ASSUME NEW s \in Subs, Join(s) PROVE TypeOK'
  <2>1. entry[s] \in Subs
    BY <1>6 DEF Join, Entries, TypeOK
  <2>2. at' \in [Subs -> Places] /\ list' \in [Subs -> SUBSET Subs]
    BY <1>6, <2>1 DEF Join, Goes, TypeOK, Places
  <2>3. num' \in [Subs -> 0 .. Cardinality(Subs)]
    <3>1. Cardinality(list[entry[s]]) + 1 \in 0 .. Cardinality(Subs) /\ 0 \in 0 .. Cardinality(Subs)
      <4>1. Cardinality(list[entry[s]]) + 1 \in 0 .. Cardinality(StreamsOf(ContextOf[s]))
        BY <1>6, <2>1, ListSizes, Constants DEF Join
      <4>2. /\ Cardinality(StreamsOf(ContextOf[s])) \in Nat /\ Cardinality(Subs) \in Nat
            /\ Cardinality(StreamsOf(ContextOf[s])) <= Cardinality(Subs)
        BY StreamsAreFinite
      <4>3. QED
        BY <4>1, <4>2
    <3>2. QED
      BY <1>6, <3>1, SMTT(20) DEF Join, TypeOK
  <2>4. QED
    BY <1>6, <2>2, <2>3 DEF Join, TypeOK, rowVars, killVars, stopVars
<1>7. ASSUME NEW s \in Subs, NEW ok \in BOOLEAN, ReportCount(s, ok) PROVE TypeOK'
  <2>1. faults' \in 0 .. MaxFaults /\ failed' \in BOOLEAN
    BY <1>7, CallTypes DEF ReportCount
  <2>2. RowTyped'
    <3>1. num[s] \in 0 .. Cardinality(StreamsOf(ContextOf[s])) /\ ContextOf[s] \in Contexts
      BY Constants DEF Numbers
    <3>2. QED
      BY <1>7, <3>1, RowTypes DEF ReportCount, RowTyped
  <2>3. /\ at' \in [Subs -> Places] /\ entry' \in [Subs -> Subs \cup {None}]
        /\ db' \in [Subs -> BOOLEAN] /\ cancelled' \in [Subs -> BOOLEAN]
    <3>1. PICK to \in Places : Ends(s, to)
      BY <1>7 DEF ReportCount, Places
    <3>2. QED
      BY <3>1, EndsTypes
  <2>4. num' \in [Subs -> 0 .. Cardinality(Subs)]
    BY <1>7, <1>n DEF ReportCount, TypeOK
  <2>5. QED
    BY <1>7, <2>1, <2>2, <2>3, <2>4 DEF ReportCount, RowTyped, TypeOK, mapVars, killVars, stopVars
<1>8. ASSUME NEW s \in Subs, Leave(s) PROVE TypeOK'
  <2>1. entry[s] \in Subs
    BY <1>8 DEF Leave, Entries, TypeOK
  <2>2. list' \in [Subs -> SUBSET Subs]
    BY <1>8, <2>1 DEF Leave, TypeOK
  <2>3. num' \in [Subs -> 0 .. Cardinality(Subs)]
    <3>1. Cardinality(list[entry[s]] \ {s}) \in 0 .. Cardinality(Subs) /\ 0 \in 0 .. Cardinality(Subs)
      BY <2>1, ListSizes, StreamsAreFinite, Constants
    <3>2. QED
      BY <1>8, <3>1 DEF Leave, TypeOK
  <2>4. /\ at' \in [Subs -> Places] /\ entry' \in [Subs -> Subs \cup {None}]
        /\ db' \in [Subs -> BOOLEAN] /\ cancelled' \in [Subs -> BOOLEAN]
    <3>1. PICK to \in Places : Ends(s, to)
      BY <1>8 DEF Leave, Places
    <3>2. QED
      BY <3>1, EndsTypes
  <2>5. raced' \in SUBSET Machines
    BY <1>8, Constants DEF Leave, Ending, TypeOK
  <2>6. QED
    BY <1>8, <2>2, <2>3, <2>4, <2>5 DEF Leave, TypeOK, rowVars, killVars, stopVars
<1>9. ASSUME NEW s \in Subs, DeleteEntry(s) PROVE TypeOK'
  <2>1. /\ at' \in [Subs -> Places] /\ entry' \in [Subs -> Subs \cup {None}]
        /\ db' \in [Subs -> BOOLEAN] /\ cancelled' \in [Subs -> BOOLEAN]
    <3>1. PICK to \in Places : Ends(s, to)
      BY <1>9 DEF DeleteEntry, Places
    <3>2. QED
      BY <3>1, EndsTypes
  <2>2. machines' \in [Contexts -> Subs \cup {None}]
    BY <1>9 DEF DeleteEntry, TypeOK
  <2>3. QED
    BY <1>9, <2>1, <2>2 DEF DeleteEntry, TypeOK, rowVars, killVars, stopVars
<1>10. ASSUME NEW s \in Subs, NEW ok \in BOOLEAN, MarkDisconnected(s, ok) PROVE TypeOK'
  <2>1. faults' \in 0 .. MaxFaults /\ failed' \in BOOLEAN
    BY <1>10, CallTypes DEF MarkDisconnected
  <2>2. RowTyped'
    <3>1. 0 \in 0 .. Cardinality(StreamsOf(ContextOf[s])) /\ ContextOf[s] \in Contexts
      BY Constants, StreamsAreFinite
    <3>2. QED
      BY <1>10, <3>1, RowTypes DEF MarkDisconnected, RowTyped
  <2>3. /\ at' \in [Subs -> Places] /\ entry' \in [Subs -> Subs \cup {None}]
        /\ db' \in [Subs -> BOOLEAN] /\ cancelled' \in [Subs -> BOOLEAN]
    BY <1>10, EndsTypes DEF MarkDisconnected, Places
  <2>4. QED
    BY <1>10, <2>1, <2>2, <2>3 DEF MarkDisconnected, RowTyped, TypeOK, mapVars, killVars, stopVars
<1>11. ASSUME NEW l \in Listeners, NEW m \in Machines, KillBegins(l, m) PROVE TypeOK'
  <2>1. feed' \in [Listeners -> [Machines -> Nat]]
    <3>1. feed[l][m] - 1 \in Nat /\ feed \in [Listeners -> [Machines -> Nat]]
      BY <1>11 DEF KillBegins, TypeOK
    <3>2. QED
      BY <1>11, <3>1 DEF KillBegins
  <2>2. killer' \in [Listeners -> Machines \cup {None}]
    <3>1. killer' = killer \/ killer' = [killer EXCEPT ![l] = m]
      BY <1>11 DEF KillBegins
    <3>2. QED
      BY <3>1 DEF TypeOK
  <2>a. todo' \in [Listeners -> SUBSET Contexts]
    <3>1. contexts[m] \in SUBSET Contexts /\ todo \in [Listeners -> SUBSET Contexts]
      BY DEF TypeOK
    <3>2. todo' = todo \/ todo' = [todo EXCEPT ![l] = contexts[m]]
      BY <1>11 DEF KillBegins
    <3>3. QED
      BY <3>1, <3>2
  <2>3. raced' \in SUBSET Machines
    BY <1>11 DEF KillBegins, Ending, TypeOK
  <2>4. QED
    BY <1>11, <2>1, <2>2, <2>a, <2>3 DEF KillBegins, TypeOK, mapVars, subVars, stopVars
<1>12. ASSUME NEW l \in Listeners, NEW c \in Contexts, KillEntry(l, c) PROVE TypeOK'
  <2>1. cancelled' \in [Subs -> BOOLEAN]
    <3>1. CASE UNCHANGED cancelled
      BY <3>1 DEF TypeOK
    <3>2. CASE cancelled' = [s \in Subs |-> cancelled[s] \/ s \in list[machines[c]]]
      BY <3>2, Zenon
    <3>3. QED
      BY <1>12, <3>1, <3>2 DEF KillEntry
  <2>2. todo' \in [Listeners -> SUBSET Contexts] /\ deleting' \in [Listeners -> Contexts \cup {None}]
    BY <1>12 DEF KillEntry, TypeOK
  <2>3. QED
    BY <1>12, <2>1, <2>2 DEF KillEntry, TypeOK, mapVars, rowVars, stopVars
<1>13. ASSUME NEW l \in Listeners, KillDeletes(l) PROVE TypeOK'
  BY <1>13 DEF KillDeletes, TypeOK, rowVars, subVars, stopVars
<1>14. ASSUME NEW l \in Listeners, KillEnds(l) PROVE TypeOK'
  BY <1>14 DEF KillEnds, TypeOK, rowVars, subVars, stopVars
<1>15. ASSUME NEW m \in Machines, NEW sent \in BOOLEAN, WebDisconnect(m, sent) PROVE TypeOK'
  <2> DEFINE hit == {c \in Contexts : MachineOf[c] = m /\ row[c] = "connected"}
  <2>1. Cardinality(hit) \in Nat
    BY RegistryAssumption, FS_Subset, FS_CardinalityType
  <2>2. /\ row' = [c \in Contexts |-> IF c \in hit THEN "disconnected" ELSE row[c]]
        /\ count' = [c \in Contexts |-> IF c \in hit THEN 0 ELSE count[c]]
        /\ feed' = [feed EXCEPT !["changes"][m] = @ + Cardinality(hit),
                                !["broadcast"][m] = @ + IF sent THEN 1 ELSE 0]
    BY <1>15 DEF WebDisconnect
  <2> HIDE DEF hit
  <2>3. row' \in [Contexts -> {"absent", "connected", "disconnected"}]
    BY <2>2 DEF TypeOK
  <2>4. DOMAIN count' = Contexts
        /\ \A c \in Contexts : count'[c] \in 0 .. Cardinality({s \in Subs : ContextOf[s] = c})
    <3>1. \A c \in Contexts : 0 \in 0 .. Cardinality(StreamsOf(c))
      BY StreamsAreFinite
    <3>2. DOMAIN count = Contexts /\ \A c \in Contexts : count[c] \in 0 .. Cardinality(StreamsOf(c))
      BY DEF TypeOK, StreamsOf
    <3>3. DOMAIN count' = Contexts
          /\ \A c \in Contexts : count'[c] \in 0 .. Cardinality(StreamsOf(c))
      BY <2>2, <3>1, <3>2
    <3>4. QED
      BY <3>3 DEF StreamsOf
  <2>5. feed' \in [Listeners -> [Machines -> Nat]]
    <3>1. /\ feed \in [Listeners -> [Machines -> Nat]] /\ "changes" \in Listeners
          /\ "broadcast" \in Listeners
      BY DEF TypeOK, Listeners
    <3>2. PICK b \in {0, 1} :
            feed' = [feed EXCEPT !["changes"][m] = @ + Cardinality(hit), !["broadcast"][m] = @ + b]
      BY <2>2
    <3> DEFINE g == [feed EXCEPT !["changes"][m] = @ + Cardinality(hit)]
    <3>3. g \in [Listeners -> [Machines -> Nat]]
      BY <2>1, <3>1
    <3>4. feed' = [g EXCEPT !["broadcast"][m] = @ + b]
      BY <3>2
    <3> HIDE DEF g
    <3>5. QED
      BY <3>1, <3>3, <3>4
  <2>6. faults' \in 0 .. MaxFaults /\ asked' \in SUBSET Machines
    BY <1>15, RegistryAssumption DEF WebDisconnect, Fault, TypeOK
  <2>7. QED
    BY <1>15, <2>3, <2>4, <2>5, <2>6 DEF WebDisconnect, TypeOK, mapVars, subVars, killVars, stopVars
<1>16. CASE ShutDown
  <2>1. faults' \in 0 .. MaxFaults
    BY <1>16, RegistryAssumption DEF ShutDown, Fault, TypeOK
  <2>2. unmarked' \in SUBSET Contexts
    BY <1>16 DEF ShutDown, TypeOK
  <2>3. QED
    BY <1>16, <2>1, <2>2 DEF ShutDown, TypeOK, mapVars, rowVars, subVars, killVars
<1>17. ASSUME NEW c \in Contexts, ShutDownLooks(c) PROVE TypeOK'
  BY <1>17 DEF ShutDownLooks, TypeOK, mapVars, rowVars, subVars, killVars
<1>18. ASSUME NEW c \in Contexts, NEW ok \in BOOLEAN, ShutDownMarks(c, ok) PROVE TypeOK'
  <2>1. faults' \in 0 .. MaxFaults /\ failed' \in BOOLEAN
    BY <1>18, CallTypes DEF ShutDownMarks
  <2>2. RowTyped'
    <3>1. 0 \in 0 .. Cardinality(StreamsOf(c))
      BY StreamsAreFinite
    <3>2. QED
      BY <1>18, <3>1, RowTypes DEF ShutDownMarks, RowTyped
  <2>3. QED
    BY <1>18, <2>1, <2>2 DEF ShutDownMarks, RowTyped, TypeOK, mapVars, subVars, killVars
<1>19. CASE UNCHANGED vars
  BY <1>19 DEF vars, TypeOK, mapVars, rowVars, subVars, killVars, stopVars
<1>20. QED
  BY <1>1, <1>2, <1>3, <1>4, <1>5, <1>6, <1>7, <1>8, <1>9, <1>10, <1>11, <1>12, <1>13, <1>14, <1>15,
     <1>16, <1>17, <1>18, <1>19 DEF Next

--------------------------------------------------------------------------------
(* Entries, lists and numbers.  A step of a stream s that leaves the lists *)
(* alone, and the streams besides s where they are.                        *)
LEMMA ListsUnchanged ==
  ASSUME RegistryInv, NEW s \in Subs, list' = list,
         \A t \in Subs : t # s => at'[t] = at[t] /\ entry'[t] = entry[t] /\ num'[t] = num[t],
         \/ at[s] \notin {"count", "running"} /\ at'[s] \notin {"count", "running"}
         \/ at[s] = "count" /\ at'[s] = "running" /\ entry'[s] = entry[s],
         at'[s] \notin {"new", "done"} => entry'[s] # None,
         entry'[s] # None => ContextOf[entry'[s]] = ContextOf[s],
         num'[s] \in {0, num[s]}
  PROVE  Entries' /\ Lists' /\ Numbers'
<1> USE DEF RegistryInv
<1>1. Entries'
  BY DEF Entries
<1>2. Lists'
  BY DEF Lists
<1>3. Numbers'
  <2>1. 0 \in 0 .. Cardinality(StreamsOf(ContextOf[s]))
    BY StreamsAreFinite
  <2>2. QED
    BY <2>1 DEF Numbers, StreamsOf
<1>4. QED
  BY <1>1, <1>2, <1>3

LEMMA StructureStep == RegistryInv /\ [Next]_vars => Held' /\ Entries' /\ Lists' /\ Numbers'
<1> SUFFICES ASSUME RegistryInv, [Next]_vars PROVE Held' /\ Entries' /\ Lists' /\ Numbers'
  OBVIOUS
<1> USE DEF RegistryInv
<1>1. ASSUME NEW s \in Subs, GetEntry(s) PROVE Held' /\ Entries' /\ Lists' /\ Numbers'
  <2> DEFINE c == ContextOf[s]
             e == IF machines[c] = None THEN s ELSE machines[c]
  <2>1. /\ at[s] = "new" /\ machines' = [machines EXCEPT ![c] = e]
        /\ entry' = [entry EXCEPT ![s] = e] /\ UNCHANGED <<list, num>>
        /\ at' = [at EXCEPT ![s] = IF list[e] = {} THEN "first" ELSE "next"]
    BY <1>1 DEF GetEntry, Goes
  <2>2. c \in Contexts /\ e # None /\ ContextOf[e] = c
    BY Constants DEF Held
  <2> HIDE DEF c, e
  <2>3. Held'
    BY <2>1, <2>2 DEF Held, TypeOK
  <2>4. /\ \A t \in Subs : t # s => at'[t] = at[t] /\ entry'[t] = entry[t] /\ num'[t] = num[t]
        /\ at'[s] \notin {"count", "running"} /\ entry'[s] = e /\ num'[s] = num[s]
    BY <2>1 DEF TypeOK
  <2>5. Entries' /\ Lists' /\ Numbers'
    <3>1. /\ \A t \in Subs : t # s => at'[t] = at[t] /\ entry'[t] = entry[t] /\ num'[t] = num[t]
          /\ at[s] \notin {"count", "running"} /\ at'[s] \notin {"count", "running"}
          /\ entry'[s] # None /\ ContextOf[entry'[s]] = ContextOf[s] /\ num'[s] = num[s]
      BY <2>1, <2>2, <2>4 DEF c
    <3>2. QED
      BY <2>1, <3>1, ListsUnchanged
  <2>6. QED
    BY <2>3, <2>5
<1>2. ASSUME NEW s \in Subs, UNCHANGED <<machines, list, entry, num>>,
             \E p, q \in Places \ {"new", "done", "count", "running"} : at[s] = p /\ Goes(s, q)
      PROVE  Held' /\ Entries' /\ Lists' /\ Numbers'
  <2>1. Held'
    BY <1>2 DEF Held
  <2>2. /\ \A t \in Subs : t # s => at'[t] = at[t]
        /\ at[s] \notin {"new", "done", "count", "running"}
        /\ at'[s] \notin {"new", "done", "count", "running"}
    BY <1>2 DEF Goes, TypeOK
  <2>3. entry[s] # None /\ ContextOf[entry[s]] = ContextOf[s]
    BY <2>2 DEF Entries
  <2>4. Entries' /\ Lists' /\ Numbers'
    <3>1. /\ list' = list /\ entry'[s] = entry[s] /\ num'[s] = num[s]
          /\ \A t \in Subs : t # s => at'[t] = at[t] /\ entry'[t] = entry[t] /\ num'[t] = num[t]
          /\ at[s] \notin {"count", "running"} /\ at'[s] \notin {"count", "running"}
      BY <1>2, <2>2
    <3>2. QED
      BY <2>3, <3>1, ListsUnchanged
  <2>5. QED
    BY <2>1, <2>4
<1>3. ASSUME NEW s \in Subs, NEW ok \in BOOLEAN,
             \/ Upsert(s, ok) \/ ReadMachineID(s) \/ LoadContexts(s) \/ StoreContexts(s)
             \/ UnmapLoad(s) \/ UnmapStore(s)
      PROVE  Held' /\ Entries' /\ Lists' /\ Numbers'
  <2>1. /\ UNCHANGED <<machines, list, entry, num>>
        /\ \E p, q \in Places \ {"new", "done", "count", "running"} : at[s] = p /\ Goes(s, q)
    BY <1>3 DEF Upsert, ReadMachineID, LoadContexts, StoreContexts, UnmapLoad, UnmapStore, mapVars,
                Places
  <2>2. QED
    BY <1>2, <2>1
<1>4. ASSUME NEW s \in Subs, Join(s) PROVE Held' /\ Entries' /\ Lists' /\ Numbers'
  <2>1. /\ at[s] = "join" /\ UNCHANGED <<machines, entry>> /\ entry[s] \in Subs
        /\ list' = [list EXCEPT ![entry[s]] = @ \cup {s}]
        /\ at'[s] \in {"count", "running"}
        /\ \A t \in Subs : t # s => at'[t] = at[t] /\ num'[t] = num[t]
    BY <1>4 DEF Join, Goes, Entries, TypeOK
  <2>2. Held'
    BY <2>1 DEF Held
  <2>3. Entries'
    BY <2>1 DEF Entries
  <2>4. Lists'
    <3> SUFFICES ASSUME NEW t \in Subs, NEW e \in Subs
                 PROVE  t \in list'[e] <=> at'[t] \in {"count", "running"} /\ entry[t] = e
      BY <2>1 DEF Lists
    <3>1. t \in list[e] <=> at[t] \in {"count", "running"} /\ entry[t] = e
      BY DEF Lists
    <3>2. t \in list'[e] <=> t \in list[e] \/ (e = entry[s] /\ t = s)
      BY <2>1 DEF TypeOK
    <3>3. QED
      BY <2>1, <3>1, <3>2
  <2>5. Numbers'
    <3>1. num'[s] \in 0 .. Cardinality(StreamsOf(ContextOf[s]))
      <4>1. num'[s] \in {0, Cardinality(list[entry[s]]) + 1}
        BY <1>4 DEF Join, TypeOK
      <4>2. Cardinality(list[entry[s]]) + 1 \in 0 .. Cardinality(StreamsOf(ContextOf[s]))
        BY <2>1, ListSizes, Constants
      <4>3. 0 \in 0 .. Cardinality(StreamsOf(ContextOf[s]))
        BY StreamsAreFinite
      <4>4. QED
        BY <4>1, <4>2, <4>3
    <3>2. QED
      BY <2>1, <3>1 DEF Numbers, StreamsOf
  <2>6. QED
    BY <2>2, <2>3, <2>4, <2>5
<1>5. ASSUME NEW s \in Subs, NEW p \in Places, Ends(s, p)
      PROVE  /\ \A t \in Subs : t # s => at'[t] = at[t] /\ entry'[t] = entry[t]
             /\ at'[s] = p /\ (p # "done" => entry'[s] = entry[s])
             /\ p = "done" => entry'[s] = None
  BY <1>5, EndsEffect
<1>6. ASSUME NEW s \in Subs, NEW ok \in BOOLEAN, ReportCount(s, ok)
      PROVE  Held' /\ Entries' /\ Lists' /\ Numbers'
  <2>1. PICK p \in {"running", "last", "done"} :
          /\ Ends(s, p) /\ p \in Places
          /\ \/ at[s] = "count" /\ p = "running"
             \/ at[s] = "uncount" /\ p # "running"
    BY <1>6 DEF ReportCount, Places
  <2>2. /\ UNCHANGED <<machines, list>> /\ num'[s] = 0 /\ \A t \in Subs : t # s => num'[t] = num[t]
    BY <1>6 DEF ReportCount, mapVars, TypeOK
  <2>3. entry[s] # None /\ ContextOf[entry[s]] = ContextOf[s]
    BY <2>1 DEF Entries
  <2>4. Held'
    BY <2>2 DEF Held
  <2>5. Entries' /\ Lists' /\ Numbers'
    <3>1. /\ \A t \in Subs : t # s => at'[t] = at[t] /\ entry'[t] = entry[t] /\ num'[t] = num[t]
          /\ at'[s] = p /\ (p # "done" => entry'[s] = entry[s]) /\ (p = "done" => entry'[s] = None)
      BY <1>5, <2>1, <2>2
    <3>2. QED
      BY <2>1, <2>2, <2>3, <3>1, ListsUnchanged
  <2>6. QED
    BY <2>4, <2>5
<1>7. ASSUME NEW s \in Subs, Leave(s) PROVE Held' /\ Entries' /\ Lists' /\ Numbers'
  <2>1. PICK p \in {"uncount", "last", "done"} : Ends(s, p) /\ p \in Places
    BY <1>7 DEF Leave, Places
  <2>2. /\ at[s] = "running" /\ UNCHANGED machines /\ entry[s] \in Subs
        /\ ContextOf[entry[s]] = ContextOf[s]
        /\ list' = [list EXCEPT ![entry[s]] = @ \ {s}]
        /\ num'[s] \in {0, Cardinality(list[entry[s]] \ {s})}
        /\ \A t \in Subs : t # s => num'[t] = num[t]
    BY <1>7 DEF Leave, Entries, TypeOK
  <2>3. /\ \A t \in Subs : t # s => at'[t] = at[t] /\ entry'[t] = entry[t]
        /\ at'[s] = p /\ (p # "done" => entry'[s] = entry[s]) /\ (p = "done" => entry'[s] = None)
    BY <1>5, <2>1
  <2>4. Held'
    BY <2>2 DEF Held
  <2>5. Entries'
    BY <2>2, <2>3 DEF Entries
  <2>6. Lists'
    <3> SUFFICES ASSUME NEW t \in Subs, NEW e \in Subs
                 PROVE  t \in list'[e] <=> at'[t] \in {"count", "running"} /\ entry'[t] = e
      BY DEF Lists
    <3>1. t \in list[e] <=> at[t] \in {"count", "running"} /\ entry[t] = e
      BY DEF Lists
    <3>2. t \in list'[e] <=> t \in list[e] /\ ~ (e = entry[s] /\ t = s)
      BY <2>2 DEF TypeOK
    <3>3. QED
      BY <2>1, <2>2, <2>3, <3>1, <3>2
  <2>7. Numbers'
    <3>1. 0 \in 0 .. Cardinality(StreamsOf(ContextOf[s]))
      BY StreamsAreFinite
    <3>2. Cardinality(list[entry[s]] \ {s}) \in 0 .. Cardinality(StreamsOf(ContextOf[s]))
      BY <2>2, ListSizes, Constants
    <3>3. QED
      BY <2>2, <3>1, <3>2 DEF Numbers, StreamsOf
  <2>8. QED
    BY <2>4, <2>5, <2>6, <2>7
<1>8. ASSUME NEW s \in Subs, NEW ok \in BOOLEAN, DeleteEntry(s) \/ MarkDisconnected(s, ok)
      PROVE  Held' /\ Entries' /\ Lists' /\ Numbers'
  <2>1. PICK p \in {"unmap", "done"} : Ends(s, p) /\ p \in Places
    BY <1>8 DEF DeleteEntry, MarkDisconnected, Places
  <2>2. at[s] \in {"last", "rowoff"} /\ UNCHANGED <<list, num>>
    BY <1>8 DEF DeleteEntry, MarkDisconnected, mapVars
  <2>3. machines' = machines \/ machines' = [machines EXCEPT ![ContextOf[s]] = None]
    BY <1>8 DEF DeleteEntry, MarkDisconnected, mapVars
  <2>4. Held'
    BY <2>3 DEF Held, TypeOK
  <2>5. entry[s] # None /\ ContextOf[entry[s]] = ContextOf[s]
    BY <2>2 DEF Entries
  <2>6. Entries' /\ Lists' /\ Numbers'
    <3>1. /\ \A t \in Subs : t # s => at'[t] = at[t] /\ entry'[t] = entry[t] /\ num'[t] = num[t]
          /\ at'[s] = p /\ (p # "done" => entry'[s] = entry[s]) /\ (p = "done" => entry'[s] = None)
      BY <1>5, <2>1, <2>2
    <3>2. QED
      BY <2>1, <2>2, <2>5, <3>1, ListsUnchanged
  <2>7. QED
    BY <2>4, <2>6
<1>9. ASSUME UNCHANGED <<list, at, entry, num>>,
             machines' = machines \/ \E c \in Contexts : machines' = [machines EXCEPT ![c] = None]
      PROVE  Held' /\ Entries' /\ Lists' /\ Numbers'
  <2>1. Held'
    BY <1>9 DEF Held, TypeOK
  <2>2. Entries' /\ Lists'
    BY <1>9 DEF Entries, Lists
  <2>3. Numbers'
    BY <1>9 DEF Numbers, StreamsOf
  <2>4. QED
    BY <2>1, <2>2, <2>3
<1>10. ASSUME NEW l \in Listeners, NEW c \in Contexts, KillEntry(l, c)
       PROVE  Held' /\ Entries' /\ Lists' /\ Numbers'
  BY <1>9, <1>10 DEF KillEntry, mapVars
<1>11. ASSUME NEW c \in Contexts, NEW ok \in BOOLEAN, ShutDownLooks(c) \/ ShutDownMarks(c, ok)
       PROVE  Held' /\ Entries' /\ Lists' /\ Numbers'
  BY <1>9, <1>11 DEF ShutDownLooks, ShutDownMarks, mapVars, subVars
<1>12. CASE UNCHANGED vars
  BY <1>9, <1>12 DEF vars, mapVars, subVars
<1>13. ASSUME NEW l \in Listeners, KillDeletes(l) \/ KillEnds(l)
       PROVE  Held' /\ Entries' /\ Lists' /\ Numbers'
  <2>1. UNCHANGED <<list, at, entry, num>>
    BY <1>13 DEF KillDeletes, KillEnds, mapVars, subVars
  <2>2. machines' = machines \/ \E d \in Contexts : machines' = [machines EXCEPT ![d] = None]
    BY <1>13 DEF KillDeletes, KillEnds, TypeOK
  <2>3. QED
    BY <1>9, <2>1, <2>2
<1>14. ASSUME NEW l \in Listeners, NEW m \in Machines, KillBegins(l, m)
       PROVE  Held' /\ Entries' /\ Lists' /\ Numbers'
  BY <1>9, <1>14 DEF KillBegins, mapVars, subVars
<1>15. CASE ShutDown
  BY <1>9, <1>15 DEF ShutDown, mapVars, subVars
<1>16. ASSUME NEW m \in Machines, NEW sent \in BOOLEAN, WebDisconnect(m, sent)
       PROVE  Held' /\ Entries' /\ Lists' /\ Numbers'
  BY <1>9, <1>16 DEF WebDisconnect, mapVars, subVars
<1>17. QED
  BY <1>1, <1>3, <1>4, <1>6, <1>7, <1>8, <1>10, <1>11, <1>12, <1>13, <1>14, <1>15, <1>16 DEF Next

LEMMA MappedStep == RegistryInv /\ [Next]_vars => Mapped'
<1> SUFFICES ASSUME RegistryInv, [Next]_vars PROVE Mapped'
  OBVIOUS
<1> USE DEF RegistryInv
<1>k. \A s \in Subs : ContextOf[s] \in Contexts /\ Machine(s) \in Machines
                     /\ MachineOf[ContextOf[s]] = Machine(s)
  BY Constants DEF Machine
<1>1. ASSUME UNCHANGED <<contexts, seen, killVars>> PROVE Mapped'
  BY <1>1 DEF Mapped, killVars, Machine
<1>2. ASSUME NEW s \in Subs, LoadContexts(s) \/ UnmapLoad(s) PROVE Mapped'
  <2>1. /\ UNCHANGED <<contexts, killVars>>
        /\ seen'[s] \subseteq contexts[Machine(s)] /\ \A t \in Subs : t # s => seen'[t] = seen[t]
    BY <1>2 DEF LoadContexts, UnmapLoad, mapVars, TypeOK
  <2>2. \A t \in Subs : \A c \in seen'[t] : MachineOf[c] = Machine(t)
    BY <1>k, <2>1 DEF Mapped
  <2>3. QED
    BY <2>1, <2>2 DEF Mapped, killVars, Machine
<1>3. ASSUME NEW s \in Subs, StoreContexts(s) \/ UnmapStore(s) PROVE Mapped'
  <2>1. /\ UNCHANGED killVars
        /\ seen'[s] = {} /\ \A t \in Subs : t # s => seen'[t] = seen[t]
        /\ contexts'[Machine(s)] \subseteq seen[s] \cup {ContextOf[s]}
        /\ \A m \in Machines : m # Machine(s) => contexts'[m] = contexts[m]
    BY <1>3, <1>k DEF StoreContexts, UnmapStore, TypeOK
  <2>2. \A t \in Subs : \A c \in seen'[t] : MachineOf[c] = Machine(t)
    BY <2>1 DEF Mapped
  <2>3. \A m \in Machines : \A c \in contexts'[m] : MachineOf[c] = m
    BY <1>k, <2>1 DEF Mapped
  <2>4. QED
    BY <2>1, <2>2, <2>3 DEF Mapped, killVars, Machine
<1>4. ASSUME NEW l \in Listeners, NEW m \in Machines, KillBegins(l, m) PROVE Mapped'
  <2>1. /\ UNCHANGED <<contexts, seen, deleting>> /\ killer[l] = None
        /\ \A j \in Listeners : j # l => killer'[j] = killer[j] /\ todo'[j] = todo[j]
        /\ \/ killer'[l] = m /\ todo'[l] = contexts[m]
           \/ killer'[l] = killer[l] /\ todo'[l] = todo[l]
    BY <1>4 DEF KillBegins, mapVars, subVars, TypeOK
  <2>2. deleting[l] = None
    BY <2>1, Constants DEF Mapped, TypeOK
  <2>3. \A c \in contexts[m] : MachineOf[c] = m
    BY DEF Mapped
  <2>4. \A j \in Listeners : /\ \A c \in todo'[j] : MachineOf[c] = killer'[j]
                            /\ deleting'[j] # None => MachineOf[deleting'[j]] = killer'[j]
    BY <2>1, <2>2, <2>3 DEF Mapped
  <2>5. QED
    BY <2>1, <2>4 DEF Mapped, Machine
<1>5. ASSUME NEW l \in Listeners, NEW c \in Contexts, KillEntry(l, c) PROVE Mapped'
  <2>1. /\ UNCHANGED <<contexts, seen, killer>> /\ c \in todo[l]
        /\ \A j \in Listeners : todo'[j] \subseteq todo[j] /\ deleting'[j] \in {deleting[j], c}
        /\ \A j \in Listeners : j # l => deleting'[j] = deleting[j]
    BY <1>5 DEF KillEntry, mapVars, TypeOK
  <2>2. MachineOf[c] = killer[l]
    BY <2>1 DEF Mapped
  <2>3. \A j \in Listeners : /\ \A d \in todo'[j] : MachineOf[d] = killer'[j]
                            /\ deleting'[j] # None => MachineOf[deleting'[j]] = killer'[j]
    BY <2>1, <2>2 DEF Mapped
  <2>4. QED
    BY <2>1, <2>3 DEF Mapped, Machine
<1>6. ASSUME NEW l \in Listeners, KillDeletes(l) PROVE Mapped'
  <2>1. /\ UNCHANGED <<contexts, seen, killer, todo>>
        /\ \A j \in Listeners : deleting'[j] \in {deleting[j], None}
    BY <1>6 DEF KillDeletes, subVars, TypeOK
  <2>2. QED
    BY <2>1 DEF Mapped, Machine
<1>7. ASSUME NEW l \in Listeners, KillEnds(l) PROVE Mapped'
  <2>1. /\ UNCHANGED <<seen, todo, deleting>> /\ todo[l] = {} /\ deleting[l] = None
        /\ \A m \in Machines : contexts'[m] \subseteq contexts[m]
        /\ \A j \in Listeners : j # l => killer'[j] = killer[j]
    BY <1>7 DEF KillEnds, subVars, TypeOK
  <2>2. QED
    BY <2>1 DEF Mapped, Machine
<1>8. ASSUME NEW s \in Subs, NEW ok \in BOOLEAN,
             \/ GetEntry(s) \/ Upsert(s, ok) \/ ReadMachineID(s) \/ Join(s) \/ ReportCount(s, ok)
             \/ Leave(s) \/ DeleteEntry(s) \/ MarkDisconnected(s, ok)
      PROVE  Mapped'
  BY <1>1, <1>8 DEF GetEntry, Upsert, ReadMachineID, Join, ReportCount, Leave, DeleteEntry,
                    MarkDisconnected, mapVars
<1>9. ASSUME NEW m \in Machines, NEW sent \in BOOLEAN, WebDisconnect(m, sent) PROVE Mapped'
  BY <1>1, <1>9 DEF WebDisconnect, mapVars, subVars
<1>10. CASE ShutDown
  BY <1>1, <1>10 DEF ShutDown, mapVars, subVars
<1>11. ASSUME NEW c \in Contexts, NEW ok \in BOOLEAN, ShutDownLooks(c) \/ ShutDownMarks(c, ok)
       PROVE  Mapped'
  BY <1>1, <1>11 DEF ShutDownLooks, ShutDownMarks, mapVars, subVars
<1>12. CASE UNCHANGED vars
  BY <1>1, <1>12 DEF vars, mapVars, subVars
<1>13. QED
  BY <1>2, <1>3, <1>4, <1>5, <1>6, <1>7, <1>8, <1>9, <1>10, <1>11, <1>12 DEF Next

LEMMA RegistryAlways == Spec => []RegistryInv
<1>1. Init => RegistryInv
  <2> SUFFICES ASSUME Init PROVE RegistryInv
    OBVIOUS
  <2>1. \A c : 0 \in 0 .. Cardinality(StreamsOf(c)) /\ 0 \in 0 .. Cardinality(Subs)
    BY StreamsAreFinite
  <2>2. /\ known \in [Subs -> BOOLEAN] /\ db \in [Subs -> BOOLEAN] /\ cancelled \in [Subs -> BOOLEAN]
        /\ stopping \in BOOLEAN /\ failed \in BOOLEAN
    BY Zenon DEF Init
  <2>3. /\ num \in [Subs -> 0 .. Cardinality(Subs)] /\ DOMAIN count = Contexts
        /\ \A c \in Contexts : count[c] \in 0 .. Cardinality({s \in Subs : ContextOf[s] = c})
    BY <2>1 DEF Init, StreamsOf
  <2>4. feed \in [Listeners -> [Machines -> Nat]]
    BY DEF Init
  <2>5. faults \in 0 .. MaxFaults
    BY RegistryAssumption DEF Init
  <2>6. TypeOK
    BY <2>2, <2>3, <2>4, <2>5, RegistryAssumption DEF Init, TypeOK, Places
  <2>7. Held /\ Entries /\ Lists
    BY DEF Init, Held, Entries, Lists
  <2>8. Numbers
    BY <2>1 DEF Init, Numbers
  <2>9. Mapped
    BY DEF Init, Mapped
  <2>10. QED
    BY <2>6, <2>7, <2>8, <2>9 DEF RegistryInv
<1>2. RegistryInv /\ [Next]_vars => RegistryInv'
  BY TypesStep, StructureStep, MappedStep DEF RegistryInv
<1>3. QED
  BY <1>1, <1>2, PTL DEF Spec

(* The types of MachineRegistry; in particular, a count never exceeds the  *)
(* streams of its context.                                                 *)
THEOREM RegistryTypes == Spec => []TypeOK
  BY RegistryAlways, PTL DEF RegistryInv

--------------------------------------------------------------------------------
(* As long as no call fails, whoever has been in an entry has the id of    *)
(* the machine, and so had the entry before anyone joined it.              *)
Ids ==
  /\ \A e \in Subs : list[e] # {} => known[e]
  /\ \A s \in Subs :
       /\ at[s] = "next" => known[entry[s]]
       /\ at[s] \notin {"new", "first", "next", "done"} => db[s] /\ known[entry[s]]

(* A stream that is on its way to marking the row, or will find out that   *)
(* another is.                                                             *)
Carries(s) ==
  \/ at[s] \notin {"new", "first", "next", "uncount", "done"}
  \/ at[s] = "uncount" /\ num[s] = 0

Carried ==
  \A c \in Contexts : row[c] = "connected" => \E s \in Subs : ContextOf[s] = c /\ Carries(s)

Shown == ~failed => Ids /\ Carried

LEMMA FailedStays ==
  ASSUME [Next]_vars PROVE failed => failed'
<1>1. CASE UNCHANGED vars
  BY <1>1 DEF vars
<1>2. ASSUME NEW ok \in BOOLEAN, Call(ok) PROVE failed => failed'
  BY <1>2 DEF Call
<1>3. ASSUME NEW s \in Subs, NEW ok \in BOOLEAN,
             Upsert(s, ok) \/ ReportCount(s, ok) \/ MarkDisconnected(s, ok)
      PROVE  failed => failed'
  BY <1>2, <1>3 DEF Upsert, ReportCount, MarkDisconnected
<1>4. ASSUME NEW c \in Contexts, NEW ok \in BOOLEAN, ShutDownLooks(c) \/ ShutDownMarks(c, ok)
      PROVE  failed => failed'
  BY <1>2, <1>4 DEF ShutDownLooks, ShutDownMarks
<1>5. ASSUME NEW s \in Subs,
             \/ GetEntry(s) \/ ReadMachineID(s) \/ LoadContexts(s) \/ StoreContexts(s) \/ Join(s)
             \/ Leave(s) \/ DeleteEntry(s) \/ UnmapLoad(s) \/ UnmapStore(s)
      PROVE  UNCHANGED failed
  BY <1>5 DEF GetEntry, ReadMachineID, LoadContexts, StoreContexts, Join, Leave, DeleteEntry, UnmapLoad,
              UnmapStore
<1>6. ASSUME NEW l \in Listeners, NEW m \in Machines, KillBegins(l, m) PROVE UNCHANGED failed
  BY <1>6 DEF KillBegins
<1>7. ASSUME NEW l \in Listeners, NEW c \in Contexts, KillEntry(l, c) PROVE UNCHANGED failed
  BY <1>7 DEF KillEntry
<1>8. ASSUME NEW l \in Listeners, KillDeletes(l) \/ KillEnds(l) PROVE UNCHANGED failed
  BY <1>8 DEF KillDeletes, KillEnds
<1>9. ASSUME NEW m \in Machines, NEW sent \in BOOLEAN, WebDisconnect(m, sent) PROVE UNCHANGED failed
  BY <1>9 DEF WebDisconnect
<1>10. CASE ShutDown
  BY <1>10 DEF ShutDown
<1>11. QED
  BY <1>1, <1>3, <1>4, <1>5, <1>6, <1>7, <1>8, <1>9, <1>10 DEF Next

LEMMA IdsStep == RegistryInv /\ Ids /\ [Next]_vars /\ ~failed' => Ids'
<1> SUFFICES ASSUME RegistryInv, Ids, [Next]_vars, ~failed' PROVE Ids'
  OBVIOUS
<1> USE DEF RegistryInv
<1>f. ASSUME NEW ok \in BOOLEAN, Call(ok) PROVE ok
  BY <1>f DEF Call
<1>1. ASSUME NEW s \in Subs, GetEntry(s) PROVE Ids'
  <2>1. /\ UNCHANGED <<list, known, db>>
        /\ entry'[s] \in Subs /\ at'[s] = IF list[entry'[s]] = {} THEN "first" ELSE "next"
        /\ \A t \in Subs : t # s => at'[t] = at[t] /\ entry'[t] = entry[t]
    BY <1>1, Constants DEF GetEntry, Goes, TypeOK
  <2>2. QED
    BY <2>1 DEF Ids
<1>2. ASSUME NEW s \in Subs, NEW ok \in BOOLEAN, Upsert(s, ok) PROVE Ids'
  <2>1. /\ ok /\ UNCHANGED <<list, entry>> /\ at[s] = "first"
        /\ known' = [known EXCEPT ![entry[s]] = TRUE]
        /\ db' = [db EXCEPT ![s] = TRUE] /\ at' = [at EXCEPT ![s] = "map"]
    BY <1>f, <1>2 DEF Upsert, Goes
  <2>2. entry[s] \in Subs
    BY <2>1 DEF Entries, TypeOK
  <2>3. known'[entry[s]] /\ \A e \in Subs : known[e] => known'[e]
    BY <2>1, <2>2 DEF TypeOK
  <2>4. db'[s] /\ \A t \in Subs : t # s => db'[t] = db[t] /\ at'[t] = at[t]
    BY <2>1 DEF TypeOK
  <2>5. at'[s] = "map"
    BY <2>1 DEF TypeOK
  <2>6. \A t \in Subs : at[t] \notin {"new", "done"} => entry[t] \in Subs
    BY DEF Entries, TypeOK
  <2>7. QED
    BY <2>1, <2>3, <2>4, <2>5, <2>6 DEF Ids
<1>3. ASSUME NEW s \in Subs, ReadMachineID(s) PROVE Ids'
  <2>1. /\ UNCHANGED <<list, known, entry>> /\ at[s] = "next"
        /\ db' = [db EXCEPT ![s] = known[entry[s]]]
        /\ at'[s] = IF known[entry[s]] THEN "map" ELSE "join"
        /\ \A t \in Subs : t # s => at'[t] = at[t]
    BY <1>3 DEF ReadMachineID, Goes, TypeOK, mapVars
  <2>2. known[entry[s]]
    BY <2>1 DEF Ids
  <2>3. db'[s] = known[entry[s]] /\ \A t \in Subs : t # s => db'[t] = db[t]
    BY <2>1 DEF TypeOK
  <2>4. QED
    BY <2>1, <2>2, <2>3 DEF Ids
<1>4. ASSUME NEW s \in Subs, LoadContexts(s) \/ StoreContexts(s) \/ UnmapLoad(s) \/ UnmapStore(s)
      PROVE  Ids'
  <2>1. /\ UNCHANGED <<list, known, entry, db>>
        /\ at[s] \notin {"new", "first", "next", "done"} /\ at'[s] # "next"
        /\ \A t \in Subs : t # s => at'[t] = at[t]
    BY <1>4 DEF LoadContexts, StoreContexts, UnmapLoad, UnmapStore, Goes, TypeOK, mapVars
  <2>2. QED
    BY <2>1 DEF Ids
<1>5. ASSUME NEW s \in Subs, Join(s) PROVE Ids'
  <2>1. /\ UNCHANGED <<known, entry, db>> /\ at[s] = "join" /\ at'[s] \in {"count", "running"}
        /\ list' = [list EXCEPT ![entry[s]] = @ \cup {s}]
        /\ \A t \in Subs : t # s => at'[t] = at[t]
    BY <1>5 DEF Join, Goes, TypeOK
  <2>2. db[s] /\ known[entry[s]]
    BY <2>1 DEF Ids
  <2>3. \A e \in Subs : list'[e] # {} => list[e] # {} \/ e = entry[s]
    BY <2>1 DEF TypeOK
  <2>4. QED
    BY <2>1, <2>2, <2>3 DEF Ids
<1>6. ASSUME NEW s \in Subs, NEW ok \in BOOLEAN,
             ReportCount(s, ok) \/ Leave(s) \/ DeleteEntry(s) \/ MarkDisconnected(s, ok)
      PROVE  Ids'
  <2>1. PICK p \in Places \ {"new", "first", "next"} : Ends(s, p)
    BY <1>6 DEF ReportCount, Leave, DeleteEntry, MarkDisconnected, Places
  <2>2. UNCHANGED known /\ at[s] \notin {"new", "first", "next", "done"}
    BY <1>6 DEF ReportCount, Leave, DeleteEntry, MarkDisconnected, mapVars
  <2>3. \A e \in Subs : list'[e] \subseteq list[e]
    BY <1>6 DEF ReportCount, Leave, DeleteEntry, MarkDisconnected, mapVars, TypeOK
  <2>4. db[s] /\ known[entry[s]]
    BY <2>2 DEF Ids
  <2>5. \A t \in Subs : \/ t # s /\ at'[t] = at[t] /\ entry'[t] = entry[t] /\ db'[t] = db[t]
                        \/ t = s /\ at'[s] = "done"
                        \/ t = s /\ at'[s] = p /\ entry'[s] = entry[s] /\ db'[s] = db[s]
    BY <2>1, EndsEffect
  <2>6. QED
    BY <2>1, <2>2, <2>3, <2>4, <2>5 DEF Ids
<1>7. ASSUME UNCHANGED <<list, known, at, entry, db>> PROVE Ids'
  BY <1>7 DEF Ids
<1>8. ASSUME NEW l \in Listeners, NEW m \in Machines, KillBegins(l, m) PROVE Ids'
  BY <1>7, <1>8 DEF KillBegins, mapVars, subVars
<1>9. ASSUME NEW l \in Listeners, NEW c \in Contexts, KillEntry(l, c) PROVE Ids'
  BY <1>7, <1>9 DEF KillEntry, mapVars
<1>10. ASSUME NEW l \in Listeners, KillDeletes(l) \/ KillEnds(l) PROVE Ids'
  BY <1>7, <1>10 DEF KillDeletes, KillEnds, subVars
<1>11. ASSUME NEW m \in Machines, NEW sent \in BOOLEAN, WebDisconnect(m, sent) PROVE Ids'
  BY <1>7, <1>11 DEF WebDisconnect, mapVars, subVars
<1>12. CASE ShutDown
  BY <1>7, <1>12 DEF ShutDown, mapVars, subVars
<1>13. ASSUME NEW c \in Contexts, NEW ok \in BOOLEAN, ShutDownLooks(c) \/ ShutDownMarks(c, ok)
       PROVE  Ids'
  BY <1>7, <1>13 DEF ShutDownLooks, ShutDownMarks, mapVars, subVars
<1>14. CASE UNCHANGED vars
  BY <1>7, <1>14 DEF vars, mapVars, subVars
<1>15. QED
  BY <1>1, <1>2, <1>3, <1>4, <1>5, <1>6, <1>8, <1>9, <1>10, <1>11, <1>12, <1>13, <1>14 DEF Next

(* A row stays connected while a stream that carries it is left.           *)
LEMMA CarriedStep == RegistryInv /\ Ids /\ Carried /\ [Next]_vars /\ ~failed' => Carried'
<1> SUFFICES ASSUME RegistryInv, Ids, Carried, [Next]_vars, ~failed' PROVE Carried'
  OBVIOUS
<1> USE DEF RegistryInv
<1>f. ASSUME NEW ok \in BOOLEAN, Call(ok) PROVE ok
  BY <1>f DEF Call
<1>k. \A s \in Subs : ContextOf[s] \in Contexts
  BY Constants
<1>a. ASSUME \A c \in Contexts : row'[c] = "connected" => row[c] = "connected",
             \A s \in Subs : Carries(s) => Carries(s)'
      PROVE  Carried'
  BY <1>a DEF Carried
<1>b. ASSUME \A c \in Contexts : row'[c] = "connected" => row[c] = "connected",
             UNCHANGED <<at, num>>
      PROVE  Carried'
  BY <1>a, <1>b DEF Carries
<1>1. ASSUME NEW s \in Subs, NEW ok \in BOOLEAN, Upsert(s, ok) PROVE Carried'
  <2>1. /\ ok /\ UNCHANGED num /\ row' = [row EXCEPT ![ContextOf[s]] = "connected"]
        /\ at'[s] = "map" /\ \A t \in Subs : t # s => at'[t] = at[t]
    BY <1>f, <1>1 DEF Upsert, Goes, TypeOK
  <2>2. \A t \in Subs : Carries(t) => Carries(t)'
    BY <2>1 DEF Carries
  <2>3. Carries(s)'
    BY <2>1 DEF Carries
  <2>4. \A c \in Contexts : row'[c] = "connected" => row[c] = "connected" \/ c = ContextOf[s]
    BY <2>1, <1>k DEF TypeOK
  <2>5. QED
    BY <2>2, <2>3, <2>4 DEF Carried
<1>2. ASSUME NEW s \in Subs,
             \/ GetEntry(s) \/ ReadMachineID(s) \/ LoadContexts(s) \/ StoreContexts(s) \/ Join(s)
             \/ UnmapLoad(s) \/ UnmapStore(s)
      PROVE  Carried'
  <2>1. /\ UNCHANGED row /\ \A t \in Subs : t # s => at'[t] = at[t] /\ num'[t] = num[t]
        /\ at[s] \notin {"uncount", "done"}
        /\ \/ at[s] = "new"
           \/ at'[s] \notin {"new", "first", "next", "uncount", "done"}
    BY <1>2 DEF GetEntry, ReadMachineID, LoadContexts, StoreContexts, Join, UnmapLoad, UnmapStore, Goes,
                rowVars, mapVars, TypeOK
  <2>2. \A t \in Subs : Carries(t) => Carries(t)'
    BY <2>1 DEF Carries
  <2>3. QED
    BY <1>a, <2>1, <2>2
<1>3. ASSUME NEW s \in Subs, NEW ok \in BOOLEAN, ReportCount(s, ok) PROVE Carried'
  <2>1. PICK p \in {"running", "last", "done"} :
          /\ Ends(s, p) /\ p \in Places
          /\ \/ at[s] = "count" /\ p = "running"
             \/ at[s] = "uncount" /\ (p = "done" <=> num[s] # 0) /\ p # "running"
    BY <1>3 DEF ReportCount, Places
  <2>2. UNCHANGED row /\ \A t \in Subs : t # s => num'[t] = num[t]
    BY <1>3 DEF ReportCount, UpdateConnectionCount, rowVars, TypeOK
  <2>3. at'[s] = p /\ \A t \in Subs : t # s => at'[t] = at[t]
    BY <2>1, EndsEffect
  <2>4. \A t \in Subs : Carries(t) => Carries(t)'
    BY <2>1, <2>2, <2>3 DEF Carries
  <2>5. QED
    BY <1>a, <2>2, <2>4
<1>4. ASSUME NEW s \in Subs, Leave(s) PROVE Carried'
  <2>1. at[s] = "running" /\ entry[s] \in Subs /\ ContextOf[entry[s]] = ContextOf[s] /\ UNCHANGED row
    BY <1>4 DEF Leave, Entries, TypeOK, rowVars
  <2>2. db[s]
    BY <2>1 DEF Ids
  <2>3. num'[s] = Cardinality(list[entry[s]] \ {s}) /\ \A t \in Subs : t # s => num'[t] = num[t]
    BY <1>4, <2>2 DEF Leave, TypeOK
  <2>4. Ends(s, "uncount")
    BY <1>4, <2>2 DEF Leave
  <2>5. at'[s] = "uncount" /\ \A t \in Subs : t # s => at'[t] = at[t]
    BY <2>4, EndsEffect DEF Places
  <2>6. \A t \in Subs : t # s /\ Carries(t) => Carries(t)'
    BY <2>3, <2>5 DEF Carries
  <2>7. CASE list[entry[s]] \ {s} = {}
    <3>1. num'[s] = 0
      BY <2>1, <2>3, <2>7, ListSizes, Constants
    <3>2. Carries(s)'
      BY <2>5, <3>1 DEF Carries
    <3>3. QED
      BY <1>a, <2>1, <2>6, <3>2
  <2>8. CASE list[entry[s]] \ {s} # {}
    <3>1. PICK t \in Subs : t # s /\ t \in list[entry[s]]
      BY <2>1, <2>8 DEF TypeOK
    <3>2. at[t] \in {"count", "running"} /\ entry[t] = entry[s]
      BY <2>1, <3>1 DEF Lists
    <3>3. Carries(t)' /\ ContextOf[t] = ContextOf[s]
      BY <2>1, <2>5, <3>1, <3>2 DEF Carries, Entries, TypeOK
    <3>4. ASSUME NEW c \in Contexts, row'[c] = "connected"
          PROVE  \E r \in Subs : ContextOf[r] = c /\ Carries(r)'
      <4>1. PICK r \in Subs : ContextOf[r] = c /\ Carries(r)
        BY <2>1, <3>4 DEF Carried
      <4>2. QED
        BY <2>6, <3>3, <4>1
    <3>5. QED
      BY <3>4 DEF Carried
  <2>9. QED
    BY <2>7, <2>8
<1>5. ASSUME NEW s \in Subs, DeleteEntry(s) PROVE Carried'
  <2>1. at[s] = "last" /\ UNCHANGED <<row, num>>
    BY <1>5 DEF DeleteEntry, rowVars
  <2>2. Ends(s, "unmap")
    BY <1>5, <2>1 DEF DeleteEntry, Ids
  <2>3. at'[s] = "unmap" /\ \A t \in Subs : t # s => at'[t] = at[t]
    BY <2>2, EndsEffect DEF Places
  <2>4. \A t \in Subs : Carries(t) => Carries(t)'
    BY <2>1, <2>3 DEF Carries
  <2>5. QED
    BY <1>a, <2>1, <2>4
<1>6. ASSUME NEW c \in Contexts, DisconnectClient(c)
      PROVE  \A d \in Contexts : row'[d] = "connected" => row[d] = "connected" /\ d # c
  BY <1>6 DEF DisconnectClient, rowVars, TypeOK
<1>7. ASSUME NEW s \in Subs, NEW ok \in BOOLEAN, MarkDisconnected(s, ok) PROVE Carried'
  <2>1. DisconnectClient(ContextOf[s]) /\ UNCHANGED num
    BY <1>f, <1>7 DEF MarkDisconnected
  <2>2. \A d \in Contexts : row'[d] = "connected" => row[d] = "connected" /\ d # ContextOf[s]
    BY <1>6, <1>k, <2>1
  <2>3. \A t \in Subs : t # s => at'[t] = at[t]
    BY <1>7, EndsEffect DEF MarkDisconnected, Places
  <2>4. \A t \in Subs : t # s /\ Carries(t) => Carries(t)'
    BY <2>1, <2>3 DEF Carries
  <2>5. QED
    BY <2>2, <2>4 DEF Carried
<1>8. ASSUME NEW l \in Listeners, NEW m \in Machines, KillBegins(l, m) PROVE Carried'
  BY <1>b, <1>8 DEF KillBegins, subVars
<1>9. ASSUME NEW l \in Listeners, NEW c \in Contexts, KillEntry(l, c) PROVE Carried'
  BY <1>b, <1>9 DEF KillEntry, rowVars
<1>10. ASSUME NEW l \in Listeners, KillDeletes(l) \/ KillEnds(l) PROVE Carried'
  BY <1>b, <1>10 DEF KillDeletes, KillEnds, subVars, rowVars
<1>11. ASSUME NEW m \in Machines, NEW sent \in BOOLEAN, WebDisconnect(m, sent) PROVE Carried'
  <2>1. \A c \in Contexts : row'[c] = "connected" => row[c] = "connected"
    BY <1>11 DEF WebDisconnect
  <2>2. QED
    BY <1>b, <1>11, <2>1 DEF WebDisconnect, subVars
<1>12. CASE ShutDown
  BY <1>b, <1>12 DEF ShutDown, subVars, rowVars
<1>13. ASSUME NEW c \in Contexts, NEW ok \in BOOLEAN, ShutDownLooks(c) \/ ShutDownMarks(c, ok)
       PROVE  Carried'
  <2>1. (DisconnectClient(c) \/ UNCHANGED row) /\ UNCHANGED <<at, num>>
    BY <1>13 DEF ShutDownLooks, ShutDownMarks, subVars, rowVars
  <2>2. QED
    BY <1>6, <1>b, <2>1
<1>14. CASE UNCHANGED vars
  BY <1>b, <1>14 DEF vars, subVars, rowVars
<1>15. QED
  BY <1>1, <1>2, <1>3, <1>4, <1>5, <1>7, <1>8, <1>9, <1>10, <1>11, <1>12, <1>13, <1>14 DEF Next

LEMMA ShownAlways == Spec => []Shown
<1>1. Init => Shown
  BY Constants DEF Init, Shown, Ids, Carried
<1>2. RegistryInv /\ Shown /\ [Next]_vars => Shown'
  <2>1. CASE failed'
    BY <2>1 DEF Shown
  <2>2. CASE ~failed'
    BY <2>2, FailedStays, IdsStep, CarriedStep DEF Shown
  <2>3. QED
    BY <2>1, <2>2
<1>3. QED
  BY <1>1, <1>2, RegistryAlways, PTL DEF Spec

(* However the streams of a context are opened and closed together: as     *)
(* long as no call fails, the last to go has had its row disconnected.     *)
THEOREM LastOneMarksTheRow == Spec => []GoneIsDisconnected
<1>1. Shown => GoneIsDisconnected
  <2> SUFFICES ASSUME Shown, NEW c \in Contexts, ~failed, row[c] = "connected",
                      \A s \in Subs : ContextOf[s] = c => at[s] \in {"new", "done"}
               PROVE  FALSE
    BY DEF GoneIsDisconnected
  <2>1. PICK s \in Subs : ContextOf[s] = c /\ Carries(s)
    BY DEF Shown, Carried
  <2>2. QED
    BY <2>1 DEF Carries
<1>2. QED
  BY <1>1, ShownAlways, PTL

--------------------------------------------------------------------------------
(* The streams of a machine that have been opened one at a time, and never *)
(* while another was closed or the machine disconnected.                   *)
Orderly(s) == Machine(s) \notin raced

Fresh == \A s \in Subs : at[s] \in {"new", "done"} => ~cancelled[s]

OpenedAlone(s) ==
  Opening(s) =>
    /\ ~cancelled[s]
    /\ \A l \in Listeners : killer[l] # Machine(s)
    /\ \A t \in Subs : Machine(t) = Machine(s) /\ t # s => Idle(t)

Registered(s) == Opening(s) \/ Running(s) => machines[ContextOf[s]] = entry[s]

InContexts(s) ==
  Running(s) \/ at[s] \in {"next", "join", "count"} => ContextOf[s] \in contexts[Machine(s)]

SeenIsFresh(s) == at[s] = "store" => seen[s] = contexts[Machine(s)]

(* A stream on its way to removing the entry of its context.               *)
Closing(t) ==
  \/ at[t] = "running" /\ cancelled[t]
  \/ at[t] \in {"last", "unmap", "unstore"}
  \/ at[t] = "uncount" /\ num[t] = 0

NoneCloses(s) == Running(s) => \A t \in Subs : ContextOf[t] = ContextOf[s] => ~Closing(t)

UnmapKeeps(s) ==
  Running(s) => \A t \in Subs : Machine(t) = Machine(s) /\ at[t] = "unstore" => ContextOf[s] \in seen[t]

StillToCancel(s) ==
  Running(s) => \A l \in Listeners : /\ killer[l] = Machine(s) => ContextOf[s] \in todo[l]
                                     /\ deleting[l] # ContextOf[s]

Kept(s) ==
  /\ OpenedAlone(s) /\ Registered(s) /\ InContexts(s) /\ SeenIsFresh(s)
  /\ NoneCloses(s) /\ UnmapKeeps(s) /\ StillToCancel(s)

OrderInv == Fresh /\ \A s \in Subs : Orderly(s) => Kept(s)

LEMMA RacedStays ==
  ASSUME RegistryInv, [Next]_vars PROVE raced \subseteq raced'
<1>1. CASE UNCHANGED vars
  BY <1>1 DEF vars
<1>2. ASSUME NEW s \in Subs, GetEntry(s) \/ Leave(s) PROVE raced \subseteq raced'
  BY <1>2 DEF GetEntry, Leave, Ending
<1>3. ASSUME NEW s \in Subs, NEW ok \in BOOLEAN,
             Upsert(s, ok) \/ ReportCount(s, ok) \/ MarkDisconnected(s, ok)
      PROVE  UNCHANGED raced
  BY <1>3 DEF Upsert, ReportCount, MarkDisconnected
<1>4. ASSUME NEW s \in Subs,
             \/ ReadMachineID(s) \/ LoadContexts(s) \/ StoreContexts(s) \/ Join(s)
             \/ DeleteEntry(s) \/ UnmapLoad(s) \/ UnmapStore(s)
      PROVE  UNCHANGED raced
  BY <1>4 DEF ReadMachineID, LoadContexts, StoreContexts, Join, DeleteEntry, UnmapLoad, UnmapStore
<1>5. ASSUME NEW l \in Listeners, NEW m \in Machines, KillBegins(l, m) PROVE raced \subseteq raced'
  BY <1>5 DEF KillBegins, Ending
<1>6. ASSUME NEW l \in Listeners, NEW c \in Contexts, KillEntry(l, c) PROVE UNCHANGED raced
  BY <1>6 DEF KillEntry
<1>7. ASSUME NEW l \in Listeners, KillDeletes(l) \/ KillEnds(l) PROVE UNCHANGED raced
  BY <1>7 DEF KillDeletes, KillEnds
<1>8. ASSUME NEW m \in Machines, NEW sent \in BOOLEAN, WebDisconnect(m, sent) PROVE UNCHANGED raced
  BY <1>8 DEF WebDisconnect
<1>9. ASSUME NEW c \in Contexts, NEW ok \in BOOLEAN, ShutDownLooks(c) \/ ShutDownMarks(c, ok)
      PROVE  UNCHANGED raced
  BY <1>9 DEF ShutDownLooks, ShutDownMarks
<1>10. CASE ShutDown
  BY <1>10 DEF ShutDown
<1>11. QED
  BY <1>1, <1>2, <1>3, <1>4, <1>5, <1>6, <1>7, <1>8, <1>9, <1>10 DEF Next

(* A stream is opened: it finds or makes the entry of its context.         *)
LEMMA OpensOrderly ==
  ASSUME RegistryInv, OrderInv, NEW r \in Subs, GetEntry(r), NEW s \in Subs, Orderly(s), Orderly(s)'
  PROVE  Kept(s)'
<1> USE DEF RegistryInv
<1>1. /\ UNCHANGED <<list, contexts, seen, num, cancelled, killer, todo, deleting>>
      /\ at[r] = "new" /\ at'[r] \in {"first", "next"}
      /\ \A t \in Subs : t # r => at'[t] = at[t] /\ entry'[t] = entry[t]
      /\ \A c \in Contexts : c # ContextOf[r] => machines'[c] = machines[c]
  BY DEF GetEntry, Goes, TypeOK, killVars
<1>2. /\ entry'[r] = IF machines[ContextOf[r]] = None THEN r ELSE machines[ContextOf[r]]
      /\ machines'[ContextOf[r]] = entry'[r]
      /\ at'[r] = "next" => list[entry'[r]] # {}
  BY Constants DEF GetEntry, Goes, TypeOK
<1>3. Machine(r) = Machine(s) => Quiet(Machine(s))
  BY DEF GetEntry, Orderly
<1>4. Kept(s) /\ ContextOf[s] \in Contexts /\ \A t \in Subs : Machine(t) = Machine(s) => Kept(t)
  BY Constants DEF OrderInv, Orderly
<1>5. CASE Machine(r) # Machine(s)
  <2>1. ContextOf[r] # ContextOf[s] /\ r # s
    BY <1>5 DEF Machine
  <2>2. \A t \in Subs : Machine(t) = Machine(s) => t # r
    BY <1>5
  <2>3. OpenedAlone(s)'
    BY <1>1, <1>4, <2>1, <2>2 DEF Kept, OpenedAlone, Opening, Idle, Running, Machine
  <2>4. Registered(s)' /\ InContexts(s)' /\ SeenIsFresh(s)' /\ StillToCancel(s)'
    BY <1>1, <1>4, <2>1 DEF Kept, Registered, InContexts, SeenIsFresh, StillToCancel, Opening, Running, Machine
  <2>5. NoneCloses(s)' /\ UnmapKeeps(s)'
    BY <1>1, <1>4, <2>1, <2>2 DEF Kept, NoneCloses, UnmapKeeps, Closing, Running, Machine
  <2>6. QED
    BY <2>3, <2>4, <2>5 DEF Kept
<1>6. CASE Machine(r) = Machine(s) /\ r # s
  <2>1. Idle(s) /\ ~Opening(s)' /\ (Running(s)' => Running(s))
    BY <1>1, <1>3, <1>6 DEF Quiet, Streams, Idle, Opening, Running
  <2>2. OpenedAlone(s)' /\ InContexts(s)' /\ SeenIsFresh(s)' /\ StillToCancel(s)'
    BY <1>1, <1>4, <1>6, <2>1 DEF Kept, OpenedAlone, InContexts, SeenIsFresh, StillToCancel, Opening, Idle,
                                  Running, Machine
  <2>3. Registered(s)'
    <3>1. Running(s) => machines[ContextOf[s]] = entry[s] /\ entry[s] # None
      BY <1>4 DEF Kept, Registered, Running, Entries
    <3>2. QED
      BY <1>1, <1>2, <1>4, <1>6, <2>1, <3>1 DEF Registered
  <2>4. NoneCloses(s)' /\ UnmapKeeps(s)'
    BY <1>1, <1>4, <2>1 DEF Kept, NoneCloses, UnmapKeeps, Closing, Running, Machine
  <2>5. QED
    BY <2>2, <2>3, <2>4 DEF Kept
<1>7. CASE r = s
  <2>1. ~Running(s)' /\ at'[s] \in {"first", "next"}
    BY <1>1, <1>7 DEF Running
  <2>2. OpenedAlone(s)'
    <3>1. ~cancelled[s]
      BY <1>1, <1>7 DEF OrderInv, Fresh
    <3>2. QED
      BY <1>1, <1>3, <1>7, <3>1 DEF OpenedAlone, Quiet, Streams, Idle, Running, Machine
  <2>3. Registered(s)'
    BY <1>2, <1>7 DEF Registered
  <2>4. InContexts(s)'
    <3> SUFFICES ASSUME at'[s] = "next" PROVE ContextOf[s] \in contexts[Machine(s)]
      BY <1>1, <2>1 DEF InContexts, Machine
    <3>1. machines[ContextOf[s]] # None /\ entry'[s] = machines[ContextOf[s]] /\ entry'[s] \in Subs
      <4>1. list[s] = {}  \/ machines[ContextOf[s]] # None
        <5> SUFFICES ASSUME NEW t \in list[s], machines[ContextOf[s]] = None PROVE FALSE
          OBVIOUS
        <5>1. t \in Subs /\ at[t] \in {"count", "running"} /\ entry[t] = s
          BY DEF Lists, TypeOK
        <5>2. ContextOf[t] = ContextOf[s]
          BY <5>1, Constants DEF Entries
        <5>3. Kept(t) /\ Idle(t)
          BY <1>3, <1>4, <1>7, <5>1, <5>2 DEF Machine, Quiet, Streams
        <5>4. QED
          BY <5>1, <5>2, <5>3, Constants DEF Kept, Registered, Idle
      <4>2. QED
        BY <1>2, <1>4, <1>7, <4>1 DEF TypeOK
    <3>2. PICK t \in Subs : t \in list[entry'[s]]
      BY <1>2, <1>7, <3>1 DEF TypeOK
    <3>3. at[t] \in {"count", "running"} /\ entry[t] = entry'[s]
      BY <3>1, <3>2 DEF Lists
    <3>4. ContextOf[t] = ContextOf[s]
      BY <1>4, <3>1, <3>3 DEF Entries, Held
    <3>5. Kept(t) /\ Idle(t) /\ Machine(t) = Machine(s)
      BY <1>3, <1>4, <1>7, <3>4 DEF Machine, Quiet, Streams
    <3>6. QED
      BY <3>3, <3>4, <3>5 DEF Kept, InContexts, Idle
  <2>5. SeenIsFresh(s)' /\ NoneCloses(s)' /\ UnmapKeeps(s)' /\ StillToCancel(s)'
    BY <2>1 DEF SeenIsFresh, NoneCloses, UnmapKeeps, StillToCancel
  <2>6. QED
    BY <2>2, <2>3, <2>4, <2>5 DEF Kept
<1>8. QED
  BY <1>5, <1>6, <1>7

(* What a stream that is being opened does without touching the maps.      *)
LEMMA MovesOrderly ==
  ASSUME RegistryInv, OrderInv, NEW r \in Subs,
         UNCHANGED <<machines, contexts, killVars, cancelled, raced>>,
         Opening(r),
         at'[r] \in {"map", "store", "join", "count", "running"},
         entry'[r] = entry[r],
         \A t \in Subs : t # r => /\ at'[t] = at[t] /\ entry'[t] = entry[t]
                                  /\ num'[t] = num[t] /\ seen'[t] = seen[t],
         at'[r] \in {"join", "count", "running"}
           => at[r] \in {"next", "join", "count"} \/ ContextOf[r] \in contexts[Machine(r)],
         at'[r] = "store" => seen'[r] = contexts[Machine(r)],
         NEW s \in Subs, Orderly(s)
  PROVE  Kept(s)'
<1> USE DEF RegistryInv
<1>1. Kept(s) /\ ContextOf[s] \in Contexts /\ \A t \in Subs : Machine(t) = Machine(s) => Kept(t)
  BY Constants DEF OrderInv, Orderly
<1>2. CASE r # s
  <2>1. at'[s] = at[s] /\ entry'[s] = entry[s] /\ seen'[s] = seen[s]
    BY <1>2
  <2>2. OpenedAlone(s)'
    <3>1. Opening(s) => Machine(r) # Machine(s)
      BY <1>1, <1>2 DEF Kept, OpenedAlone, Opening, Idle, Running
    <3>2. QED
      BY <1>1, <2>1, <3>1 DEF Kept, OpenedAlone, Opening, Idle, Running, Machine, killVars
  <2>3. Registered(s)' /\ InContexts(s)' /\ SeenIsFresh(s)' /\ StillToCancel(s)'
    BY <1>1, <2>1 DEF Kept, Registered, InContexts, SeenIsFresh, StillToCancel, Opening, Running, Machine,
                      killVars
  <2>4. NoneCloses(s)'
    <3>1. ContextOf[r] = ContextOf[s] => ~cancelled[r]
      BY <1>1 DEF Kept, OpenedAlone, Machine
    <3>2. QED
      BY <1>1, <2>1, <3>1 DEF Kept, NoneCloses, Closing, Running
  <2>5. UnmapKeeps(s)'
    BY <1>1, <2>1 DEF Kept, UnmapKeeps, Running, Machine
  <2>6. QED
    BY <2>2, <2>3, <2>4, <2>5 DEF Kept
<1>3. CASE r = s
  <2>1. /\ ~cancelled[s] /\ \A l \in Listeners : killer[l] # Machine(s)
        /\ \A t \in Subs : Machine(t) = Machine(s) /\ t # s => Idle(t)
    BY <1>1, <1>3 DEF Kept, OpenedAlone
  <2>2. OpenedAlone(s)'
    BY <1>3, <2>1 DEF OpenedAlone, Idle, Running, Machine, killVars
  <2>3. Registered(s)' /\ InContexts(s)' /\ SeenIsFresh(s)'
    BY <1>1, <1>3 DEF Kept, Registered, InContexts, SeenIsFresh, Opening, Running, Machine
  <2>4. NoneCloses(s)'
    BY <1>3, <2>1 DEF NoneCloses, Closing, Idle, Running, Machine
  <2>5. UnmapKeeps(s)'
    BY <1>3, <2>1 DEF UnmapKeeps, Idle, Running, Machine
  <2>6. StillToCancel(s)'
    <3>1. \A l \in Listeners : deleting[l] # ContextOf[s]
      BY <2>1, Constants DEF Mapped, Machine
    <3>2. QED
      BY <2>1, <3>1 DEF StillToCancel, Machine, killVars
  <2>7. QED
    BY <2>2, <2>3, <2>4, <2>5, <2>6 DEF Kept
<1>4. QED
  BY <1>2, <1>3

(* The contexts of a machine gain the one of the stream that is opened.    *)
LEMMA StoresOrderly ==
  ASSUME RegistryInv, OrderInv, NEW r \in Subs, StoreContexts(r), NEW s \in Subs, Orderly(s)
  PROVE  Kept(s)'
<1> USE DEF RegistryInv
<1>1. Kept(s) /\ ContextOf[s] \in Contexts /\ \A t \in Subs : Machine(t) = Machine(s) => Kept(t)
  BY Constants DEF OrderInv, Orderly
<1>2. /\ UNCHANGED <<machines, entry, cancelled, killer, todo, deleting, num>>
      /\ at[r] = "store" /\ at'[r] = "join" /\ \A t \in Subs : t # r => at'[t] = at[t] /\ seen'[t] = seen[t]
      /\ contexts'[Machine(r)] = seen[r] \cup {ContextOf[r]}
      /\ \A m \in Machines : m # Machine(r) => contexts'[m] = contexts[m]
  BY Constants DEF StoreContexts, Goes, TypeOK, killVars
<1>3. Machine(r) = Machine(s) => contexts'[Machine(s)] = contexts[Machine(s)] \cup {ContextOf[r]}
  BY <1>1, <1>2 DEF Kept, SeenIsFresh
<1>4. Machine(s) \in Machines
  BY Constants
<1>5. OpenedAlone(s)'
  <2>1. CASE r = s
    BY <1>1, <1>2, <2>1 DEF Kept, OpenedAlone, Opening, Idle, Running, Machine
  <2>2. CASE r # s
    <3>1. Opening(s) => Machine(r) # Machine(s)
      BY <1>1, <1>2, <2>2 DEF Kept, OpenedAlone, Opening, Idle, Running
    <3>2. QED
      BY <1>1, <1>2, <2>2, <3>1 DEF Kept, OpenedAlone, Opening, Idle, Running, Machine
  <2>3. QED
    BY <2>1, <2>2
<1>6. Registered(s)' /\ StillToCancel(s)'
  BY <1>1, <1>2 DEF Kept, Registered, StillToCancel, Opening, Running, Machine
<1>7. InContexts(s)'
  <2>1. CASE Machine(r) # Machine(s)
    BY <1>1, <1>2, <1>4, <2>1 DEF Kept, InContexts, Running, Machine
  <2>2. CASE Machine(r) = Machine(s) /\ r # s
    BY <1>1, <1>2, <1>3, <2>2 DEF Kept, InContexts, Running, Machine
  <2>3. CASE r = s
    BY <1>3, <2>3 DEF InContexts, Machine
  <2>4. QED
    BY <2>1, <2>2, <2>3
<1>8. SeenIsFresh(s)'
  <2>1. at[s] = "store" /\ Machine(r) = Machine(s) => r = s
    BY <1>1, <1>2 DEF Kept, OpenedAlone, Opening, Idle, Running
  <2>2. QED
    BY <1>1, <1>2, <1>4, <2>1 DEF Kept, SeenIsFresh, Machine
<1>9. NoneCloses(s)' /\ UnmapKeeps(s)'
  BY <1>1, <1>2 DEF Kept, NoneCloses, UnmapKeeps, Closing, Running, Machine
<1>10. QED
  BY <1>5, <1>6, <1>7, <1>8, <1>9 DEF Kept

(* A stream goes on with its end.                                          *)
LEMMA GoesOrderly ==
  ASSUME RegistryInv, OrderInv, NEW r \in Subs, UNCHANGED killVars,
         at[r] \in {"running", "uncount", "last", "unmap", "unstore", "rowoff"},
         at'[r] \in {"uncount", "last", "unmap", "unstore", "rowoff", "done"},
         \A t \in Subs : t # r => /\ at'[t] = at[t] /\ entry'[t] = entry[t] /\ num'[t] = num[t]
                                  /\ seen'[t] = seen[t] /\ cancelled'[t] = cancelled[t],
         \/ UNCHANGED machines
         \/ at[r] = "last" /\ \A c \in Contexts : c # ContextOf[r] => machines'[c] = machines[c],
         \/ UNCHANGED contexts
         \/ /\ at[r] = "unstore" /\ \A m \in Machines : m # Machine(r) => contexts'[m] = contexts[m]
            /\ contexts'[Machine(r)] = seen[r] \ {ContextOf[r]},
         at'[r] = "unstore" => seen'[r] = contexts[Machine(r)],
         NEW s \in Subs, Orderly(s),
         at[r] = "running" /\ Machine(r) = Machine(s) => ~Opening(s),
         r # s /\ ContextOf[r] = ContextOf[s] /\ Running(s) /\ Closing(r)' => Closing(r)
  PROVE  Kept(s)'
<1> USE DEF RegistryInv
<1>1. Kept(s) /\ ContextOf[s] \in Contexts /\ Machine(s) \in Machines
      /\ \A t \in Subs : Machine(t) = Machine(s) => Kept(t)
  BY Constants DEF OrderInv, Orderly
<1>2. CASE r = s
  <2>1. ~Running(s)' /\ ~Opening(s)' /\ at'[s] \notin {"next", "join", "count", "store"}
    BY <1>2 DEF Running, Opening
  <2>2. QED
    BY <2>1 DEF Kept, OpenedAlone, Registered, InContexts, SeenIsFresh, NoneCloses, UnmapKeeps, StillToCancel
<1>3. CASE r # s
  <2>1. /\ at'[s] = at[s] /\ entry'[s] = entry[s] /\ seen'[s] = seen[s] /\ cancelled'[s] = cancelled[s]
        /\ (Running(s)' <=> Running(s)) /\ (Opening(s)' <=> Opening(s))
    BY <1>3 DEF Running, Opening
  <2>2. Machine(r) = Machine(s) => ~Opening(s)
    BY <1>1, <1>3 DEF Kept, OpenedAlone, Idle, Running
  <2>3. OpenedAlone(s)'
    BY <1>1, <2>1, <2>2 DEF Kept, OpenedAlone, Idle, Running, Machine, killVars
  <2>4. Registered(s)'
    <3>1. at[r] = "last" /\ ContextOf[r] = ContextOf[s] => ~Opening(s) /\ ~Running(s)
      BY <1>1, <2>2 DEF Kept, NoneCloses, Closing, Machine
    <3>2. Opening(s) \/ Running(s) => machines'[ContextOf[s]] = machines[ContextOf[s]]
      BY <1>1, <3>1
    <3>3. QED
      BY <1>1, <2>1, <3>2 DEF Kept, Registered
  <2>5. InContexts(s)'
    <3>1. CASE contexts'[Machine(s)] = contexts[Machine(s)]
      BY <1>1, <2>1, <3>1 DEF Kept, InContexts, Machine
    <3>2. CASE contexts'[Machine(s)] # contexts[Machine(s)]
      <4>1. /\ Machine(r) = Machine(s) /\ at[r] = "unstore"
            /\ contexts'[Machine(s)] = seen[r] \ {ContextOf[r]}
        BY <1>1, <3>2
      <4>2. ~Opening(s)
        BY <2>2, <4>1
      <4>3. Running(s) => ContextOf[s] \in seen[r] /\ ContextOf[s] # ContextOf[r]
        BY <1>1, <4>1 DEF Kept, UnmapKeeps, NoneCloses, Closing
      <4>4. QED
        BY <2>1, <4>1, <4>2, <4>3 DEF InContexts, Opening, Machine
    <3>3. QED
      BY <3>1, <3>2
  <2>6. SeenIsFresh(s)'
    BY <1>1, <2>1, <2>2 DEF Kept, SeenIsFresh, Opening, Machine
  <2>7. NoneCloses(s)'
    <3>1. \A t \in Subs : t # r /\ Closing(t)' => Closing(t)
      BY DEF Closing
    <3>2. Running(s) /\ ContextOf[r] = ContextOf[s] => ~Closing(r)'
      BY <1>1, <1>3 DEF Kept, NoneCloses
    <3>3. QED
      BY <1>1, <2>1, <3>1, <3>2 DEF Kept, NoneCloses
  <2>8. UnmapKeeps(s)'
    <3>1. Running(s) => ContextOf[s] \in contexts[Machine(s)]
      BY <1>1 DEF Kept, InContexts
    <3>2. QED
      BY <1>1, <2>1, <3>1 DEF Kept, UnmapKeeps, Machine
  <2>9. StillToCancel(s)'
    BY <1>1, <2>1 DEF Kept, StillToCancel, Machine, killVars
  <2>10. QED
    BY <2>3, <2>4, <2>5, <2>6, <2>7, <2>8, <2>9 DEF Kept
<1>4. QED
  BY <1>2, <1>3

(* Who leaves an entry in which another stream runs is not the last.       *)
LEMMA LeavesOrderly ==
  ASSUME RegistryInv, OrderInv, NEW r \in Subs, Leave(r), NEW s \in Subs, Orderly(s), Orderly(s)'
  PROVE  Kept(s)'
<1> USE DEF RegistryInv
<1>1. PICK p \in {"uncount", "last", "done"} : Ends(r, p) /\ p \in Places
  BY DEF Leave, Places
<1>2. /\ at'[r] = p /\ \A t \in Subs : t # r => at'[t] = at[t] /\ entry'[t] = entry[t]
                                              /\ cancelled'[t] = cancelled[t]
  BY <1>1, EndsEffect
<1>3. /\ UNCHANGED <<machines, contexts, seen, killVars>> /\ at[r] = "running"
      /\ \A t \in Subs : t # r => num'[t] = num[t]
  BY DEF Leave, TypeOK
<1>4. Machine(r) = Machine(s) => ~Opening(s)
  BY DEF Leave, Ending, Streams, Orderly, Machine
<1>5. ASSUME r # s, ContextOf[r] = ContextOf[s], Running(s), Closing(r)' PROVE Closing(r)
  <2> SUFFICES ASSUME ~cancelled[r] PROVE FALSE
    BY <1>3 DEF Closing
  <2>1. Kept(s) /\ Kept(r) /\ Running(r)
    BY <1>3, <1>5 DEF OrderInv, Orderly, Machine, Running
  <2>2. entry[s] = entry[r] /\ entry[r] \in Subs
    BY <1>3, <1>5, <2>1 DEF Kept, Registered, Entries, TypeOK
  <2>3. s \in list[entry[r]]
    BY <1>5, <2>2 DEF Lists, Running
  <2>4. Cardinality(list[entry[r]] \ {r}) # 0
    BY <1>5, <2>2, <2>3, ListSizes, Constants
  <2>5. db[r] => Ends(r, "uncount") /\ num'[r] = Cardinality(list[entry[r]] \ {r})
    BY DEF Leave, TypeOK
  <2>6. ~db[r] => Ends(r, "done")
    BY <2>4 DEF Leave
  <2>7. at'[r] \in {"uncount", "done"} /\ (at'[r] = "uncount" => num'[r] # 0)
    <3>1. CASE db[r]
      BY <2>4, <2>5, <3>1, EndsEffect DEF Places
    <3>2. CASE ~db[r]
      BY <2>6, <3>2, EndsEffect DEF Places
    <3>3. QED
      BY <3>1, <3>2
  <2>8. QED
    BY <1>5, <2>7 DEF Closing
<1>6. at[r] \in {"running", "uncount", "last", "unmap", "unstore", "rowoff"}
      /\ at'[r] \in {"uncount", "last", "unmap", "unstore", "rowoff", "done"}
  BY <1>2, <1>3
<1>7. QED
  BY <1>2, <1>3, <1>4, <1>5, <1>6, GoesOrderly

(* The steps of a stream that is opened, and those of one that ends.       *)
LEMMA StreamsOrderly ==
  ASSUME RegistryInv, OrderInv, NEW r \in Subs, NEW ok \in BOOLEAN,
         \/ Upsert(r, ok) \/ ReadMachineID(r) \/ LoadContexts(r) \/ Join(r) \/ ReportCount(r, ok)
         \/ DeleteEntry(r) \/ UnmapLoad(r) \/ UnmapStore(r) \/ MarkDisconnected(r, ok),
         NEW s \in Subs, Orderly(s)
  PROVE  Kept(s)'
<1> USE DEF RegistryInv
<1>1. CASE Upsert(r, ok) \/ ReadMachineID(r) \/ LoadContexts(r) \/ Join(r)
  <2>1. /\ UNCHANGED <<machines, contexts, entry, cancelled, raced>> /\ UNCHANGED killVars
        /\ at[r] \in {"first", "next", "map", "join"}
        /\ at'[r] \in {"map", "store", "join", "count", "running"}
        /\ \A t \in Subs : t # r => at'[t] = at[t] /\ num'[t] = num[t] /\ seen'[t] = seen[t]
    BY <1>1 DEF Upsert, ReadMachineID, LoadContexts, Join, Goes, TypeOK, mapVars
  <2>2. at'[r] \in {"join", "count", "running"}
          => at[r] \in {"next", "join", "count"} \/ ContextOf[r] \in contexts[Machine(r)]
    BY <1>1 DEF Upsert, ReadMachineID, LoadContexts, Join, Goes, TypeOK
  <2>3. at'[r] = "store" => seen'[r] = contexts[Machine(r)]
    BY <1>1 DEF Upsert, ReadMachineID, LoadContexts, Join, Goes, TypeOK
  <2>4. Opening(r)
    BY <2>1 DEF Opening
  <2>5. QED
    BY <2>1, <2>2, <2>3, <2>4, MovesOrderly
<1>2. CASE ReportCount(r, ok) /\ at[r] = "count"
  <2>1. Ends(r, "running") /\ UNCHANGED <<machines, contexts, seen, raced>> /\ UNCHANGED killVars
        /\ \A t \in Subs : t # r => num'[t] = num[t]
    BY <1>2 DEF ReportCount, mapVars, TypeOK
  <2>2. /\ at'[r] = "running" /\ entry'[r] = entry[r] /\ UNCHANGED cancelled
        /\ \A t \in Subs : t # r => at'[t] = at[t] /\ entry'[t] = entry[t]
    <3>1. UNCHANGED cancelled
      BY <2>1 DEF Ends
    <3>2. QED
      BY <2>1, <3>1, EndsEffect DEF Places
  <2>3. Opening(r)
    BY <1>2 DEF Opening
  <2>4. QED
    BY <1>2, <2>1, <2>2, <2>3, MovesOrderly
<1>3. CASE (ReportCount(r, ok) /\ at[r] # "count") \/ DeleteEntry(r) \/ MarkDisconnected(r, ok)
  <2>1. PICK p \in {"last", "unmap", "done"} : Ends(r, p) /\ p \in Places
    BY <1>3 DEF ReportCount, DeleteEntry, MarkDisconnected, Places
  <2>2. /\ at'[r] = p /\ \A t \in Subs : t # r => at'[t] = at[t] /\ entry'[t] = entry[t]
                                                /\ cancelled'[t] = cancelled[t]
    BY <2>1, EndsEffect
  <2>3. /\ UNCHANGED <<contexts, seen>> /\ UNCHANGED killVars /\ at[r] \in {"uncount", "last", "rowoff"}
        /\ \A t \in Subs : t # r => num'[t] = num[t]
    BY <1>3 DEF ReportCount, DeleteEntry, MarkDisconnected, mapVars, TypeOK
  <2>4. \/ UNCHANGED machines
        \/ at[r] = "last" /\ \A c \in Contexts : c # ContextOf[r] => machines'[c] = machines[c]
    BY <1>3 DEF ReportCount, DeleteEntry, MarkDisconnected, mapVars, TypeOK
  <2>5. Closing(r)' => Closing(r)
    <3>1. CASE ReportCount(r, ok) /\ at[r] = "uncount"
      <4>1. num[r] # 0 => Ends(r, "done")
        BY <3>1 DEF ReportCount
      <4>2. num[r] # 0 => at'[r] = "done"
        BY <4>1, EndsEffect DEF Places
      <4>3. QED
        BY <3>1, <4>2 DEF Closing
    <3>2. CASE DeleteEntry(r)
      BY <3>2 DEF DeleteEntry, Closing
    <3>3. CASE MarkDisconnected(r, ok)
      <4>1. at'[r] = "done"
        BY <3>3, EndsEffect DEF MarkDisconnected, Places
      <4>2. QED
        BY <4>1 DEF Closing
    <3>4. QED
      BY <1>3, <2>3, <3>1, <3>2, <3>3 DEF ReportCount
  <2>6. QED
    BY <2>2, <2>3, <2>4, <2>5, GoesOrderly
<1>4. CASE UnmapLoad(r) \/ UnmapStore(r)
  <2>1. /\ UNCHANGED <<machines, entry, num, cancelled>> /\ UNCHANGED killVars
        /\ at[r] \in {"unmap", "unstore"} /\ at'[r] \in {"unstore", "rowoff"}
        /\ \A t \in Subs : t # r => at'[t] = at[t] /\ seen'[t] = seen[t]
        /\ at'[r] = "unstore" => seen'[r] = contexts[Machine(r)]
    BY <1>4 DEF UnmapLoad, UnmapStore, Goes, TypeOK, mapVars
  <2>2. \/ UNCHANGED contexts
        \/ /\ at[r] = "unstore" /\ \A m \in Machines : m # Machine(r) => contexts'[m] = contexts[m]
           /\ contexts'[Machine(r)] = seen[r] \ {ContextOf[r]}
    BY <1>4, Constants DEF UnmapLoad, UnmapStore, TypeOK, mapVars
  <2>3. Closing(r)
    BY <2>1 DEF Closing
  <2>4. QED
    BY <2>1, <2>2, <2>3, GoesOrderly
<1>5. QED
  BY <1>1, <1>2, <1>3, <1>4

(* A machine is disconnected while no stream of it is opened: whoever runs *)
(* in a context is cancelled before the entry of the context is deleted.   *)
LEMMA KillsOrderly ==
  ASSUME RegistryInv, OrderInv, NEW l \in Listeners, NEW m \in Machines, NEW c \in Contexts,
         KillBegins(l, m) \/ KillEntry(l, c) \/ KillDeletes(l) \/ KillEnds(l),
         NEW s \in Subs, Orderly(s), Orderly(s)'
  PROVE  Kept(s)'
<1> USE DEF RegistryInv
<1>1. Kept(s) /\ ContextOf[s] \in Contexts /\ Machine(s) \in Machines
      /\ \A t \in Subs : Machine(t) = Machine(s) => Kept(t)
  BY Constants DEF OrderInv, Orderly
<1>2. CASE KillBegins(l, m)
  <2>1. /\ UNCHANGED <<machines, contexts, at, entry, num, seen, cancelled, deleting>>
        /\ \A j \in Listeners : \/ killer'[j] = killer[j] /\ todo'[j] = todo[j]
                                \/ killer'[j] = m /\ todo'[j] = contexts[m]
    BY <1>2 DEF KillBegins, mapVars, subVars, TypeOK
  <2>2. Machine(s) = m => ~Opening(s)
    BY <1>2 DEF KillBegins, Ending, Streams, Orderly
  <2>3. OpenedAlone(s)'
    BY <1>1, <2>1, <2>2 DEF Kept, OpenedAlone, Opening, Idle, Running, Machine
  <2>4. StillToCancel(s)'
    BY <1>1, <2>1 DEF Kept, StillToCancel, InContexts, Running, Machine
  <2>5. QED
    BY <1>1, <2>1, <2>3, <2>4 DEF Kept, Registered, InContexts, SeenIsFresh, NoneCloses, UnmapKeeps, Opening,
                                  Running, Closing, Machine
<1>3. CASE KillEntry(l, c)
  <2>1. /\ UNCHANGED <<machines, contexts, at, entry, num, seen, killer>>
        /\ c \in todo[l] /\ \A j \in Listeners : /\ todo[j] \ {c} \subseteq todo'[j]
                                                 /\ deleting'[j] = deleting[j] \/ deleting'[j] = c
        /\ machines[c] = None => UNCHANGED <<cancelled, deleting>>
        /\ machines[c] # None => cancelled' = [t \in Subs |-> cancelled[t] \/ t \in list[machines[c]]]
    BY <1>3 DEF KillEntry, mapVars, TypeOK
  <2>2. MachineOf[c] = killer[l]
    BY <2>1 DEF Mapped
  <2>3. \A t \in Subs : cancelled[t] => cancelled'[t]
    <3>1. CASE machines[c] = None
      BY <2>1, <3>1
    <3>2. CASE machines[c] # None
      BY <2>1, <3>2, Zenon
    <3>3. QED
      BY <3>1, <3>2
  <2>4. \A t \in Subs : cancelled'[t] => cancelled[t] \/ ContextOf[t] = c
    <3>1. CASE machines[c] = None
      BY <2>1, <3>1
    <3>2. CASE machines[c] # None
      <4>1. \A t \in list[machines[c]] : ContextOf[t] = c
        BY <3>2 DEF Held, Entries, Lists, TypeOK
      <4>2. \A t \in Subs : cancelled'[t] => cancelled[t] \/ t \in list[machines[c]]
        BY <2>1, <3>2, Zenon
      <4>3. QED
        BY <4>1, <4>2
    <3>3. QED
      BY <3>1, <3>2
  <2>5. ContextOf[s] = c => ~Running(s)'
    <3> SUFFICES ASSUME ContextOf[s] = c, at[s] = "running", ~cancelled[s]
                 PROVE  cancelled'[s]
      BY <2>1, <2>3 DEF Running
    <3>1. machines[c] = entry[s] /\ machines[c] \in Subs
      BY <1>1 DEF Kept, Registered, Running, Entries, TypeOK
    <3>2. s \in list[machines[c]]
      BY <3>1 DEF Lists
    <3>3. machines[c] # None
      BY <3>1, Constants
    <3>4. QED
      BY <2>1, <3>2, <3>3, Zenon
  <2>6. Running(s)' => Running(s) /\ ContextOf[s] # c
    BY <2>1, <2>3, <2>5 DEF Running
  <2>7. OpenedAlone(s)'
    <3> SUFFICES ASSUME Opening(s) PROVE OpenedAlone(s)'
      BY <2>1 DEF OpenedAlone, Opening
    <3>1. Machine(s) # killer[l] /\ OpenedAlone(s)
      BY <1>1 DEF Kept, OpenedAlone
    <3>2. \A t \in Subs : Machine(t) = Machine(s) => (cancelled'[t] => cancelled[t])
      BY <2>2, <2>4, <3>1 DEF Machine
    <3>3. QED
      BY <2>1, <3>1, <3>2 DEF OpenedAlone, Opening, Idle, Running, Machine
  <2>8. Registered(s)' /\ InContexts(s)' /\ SeenIsFresh(s)' /\ UnmapKeeps(s)'
    BY <1>1, <2>1, <2>6 DEF Kept, Registered, InContexts, SeenIsFresh, UnmapKeeps, Opening, Machine
  <2>9. NoneCloses(s)'
    <3> SUFFICES ASSUME Running(s), ContextOf[s] # c, NEW t \in Subs, ContextOf[t] = ContextOf[s], Closing(t)'
                 PROVE  FALSE
      BY <2>6 DEF NoneCloses
    <3>1. cancelled'[t] => cancelled[t]
      BY <2>4
    <3>2. Closing(t)
      BY <2>1, <3>1 DEF Closing
    <3>3. QED
      BY <1>1, <3>2 DEF Kept, NoneCloses
  <2>10. StillToCancel(s)'
    BY <1>1, <2>1, <2>6 DEF Kept, StillToCancel, Machine
  <2>11. QED
    BY <2>7, <2>8, <2>9, <2>10 DEF Kept
<1>4. CASE KillDeletes(l)
  <2>1. /\ UNCHANGED <<contexts, at, entry, num, seen, cancelled, killer, todo>> /\ deleting[l] # None
        /\ \A d \in Contexts : d # deleting[l] => machines'[d] = machines[d]
        /\ \A j \in Listeners : deleting'[j] \in {deleting[j], None}
    BY <1>4 DEF KillDeletes, subVars, TypeOK
  <2>2. ContextOf[s] = deleting[l] => ~Opening(s) /\ ~Running(s)
    BY <1>1, <2>1 DEF Kept, OpenedAlone, StillToCancel, Mapped, Machine
  <2>3. Registered(s)'
    BY <1>1, <2>1, <2>2 DEF Kept, Registered, Opening, Running
  <2>4. ContextOf[s] # None
    BY <1>1, Constants
  <2>5. StillToCancel(s)'
    BY <1>1, <2>1, <2>4 DEF Kept, StillToCancel, Running, Machine
  <2>6. QED
    BY <1>1, <2>1, <2>3, <2>5 DEF Kept, OpenedAlone, InContexts, SeenIsFresh, NoneCloses, UnmapKeeps, Opening,
                                  Idle, Running, Closing, Machine
<1>5. CASE KillEnds(l)
  <2>1. /\ UNCHANGED <<machines, at, entry, num, seen, cancelled, todo, deleting>> /\ todo[l] = {}
        /\ \A d \in Machines : d # killer[l] => contexts'[d] = contexts[d]
        /\ \A j \in Listeners : killer'[j] \in {killer[j], None}
    BY <1>5 DEF KillEnds, subVars, TypeOK
  <2>2. Machine(s) = killer[l] => ~Opening(s) /\ ~Running(s)
    BY <1>1, <2>1 DEF Kept, OpenedAlone, StillToCancel
  <2>3. OpenedAlone(s)'
    BY <1>1, <2>1, Constants DEF Kept, OpenedAlone, Opening, Idle, Running, Machine
  <2>4. InContexts(s)' /\ SeenIsFresh(s)'
    BY <1>1, <2>1, <2>2 DEF Kept, InContexts, SeenIsFresh, Opening, Running, Machine
  <2>5. StillToCancel(s)'
    BY <1>1, <2>1, Constants DEF Kept, StillToCancel, Running, Machine
  <2>6. QED
    BY <1>1, <2>1, <2>3, <2>4, <2>5 DEF Kept, Registered, NoneCloses, UnmapKeeps, Opening, Running, Closing,
                                        Machine
<1>6. QED
  BY <1>2, <1>3, <1>4, <1>5

LEMMA FreshStep == RegistryInv /\ Fresh /\ [Next]_vars => Fresh'
<1> SUFFICES ASSUME RegistryInv, Fresh, [Next]_vars PROVE Fresh'
  OBVIOUS
<1> USE DEF RegistryInv
<1>1. ASSUME NEW s \in Subs, UNCHANGED cancelled, at'[s] \notin {"new", "done"},
             \A t \in Subs : t # s => at'[t] = at[t]
      PROVE  Fresh'
  BY <1>1 DEF Fresh
<1>2. ASSUME NEW s \in Subs, NEW ok \in BOOLEAN,
             \/ GetEntry(s) \/ Upsert(s, ok) \/ ReadMachineID(s) \/ LoadContexts(s) \/ StoreContexts(s)
             \/ Join(s) \/ UnmapLoad(s) \/ UnmapStore(s)
      PROVE  Fresh'
  <2>1. UNCHANGED cancelled /\ at'[s] \notin {"new", "done"} /\ \A t \in Subs : t # s => at'[t] = at[t]
    BY <1>2 DEF GetEntry, Upsert, ReadMachineID, LoadContexts, StoreContexts, Join, UnmapLoad, UnmapStore,
                Goes, TypeOK
  <2>2. QED
    BY <1>1, <2>1
<1>3. ASSUME NEW s \in Subs, NEW ok \in BOOLEAN,
             ReportCount(s, ok) \/ Leave(s) \/ DeleteEntry(s) \/ MarkDisconnected(s, ok)
      PROVE  Fresh'
  <2>1. PICK p \in Places \ {"new"} : Ends(s, p)
    BY <1>3 DEF ReportCount, Leave, DeleteEntry, MarkDisconnected, Places
  <2>2. /\ at'[s] = p /\ (p = "done" => ~cancelled'[s])
        /\ \A t \in Subs : t # s => at'[t] = at[t] /\ cancelled'[t] = cancelled[t]
    BY <2>1, EndsEffect
  <2>3. QED
    BY <2>1, <2>2 DEF Fresh
<1>4. ASSUME NEW l \in Listeners, NEW c \in Contexts, KillEntry(l, c) PROVE Fresh'
  <2>1. CASE UNCHANGED cancelled
    BY <1>4, <2>1 DEF KillEntry, Fresh
  <2>2. CASE machines[c] # None /\ cancelled' = [t \in Subs |-> cancelled[t] \/ t \in list[machines[c]]]
    <3>1. \A t \in Subs : cancelled'[t] => cancelled[t] \/ t \in list[machines[c]]
      BY <2>2, Zenon
    <3>2. \A t \in list[machines[c]] : at[t] \in {"count", "running"}
      BY <2>2 DEF Lists, TypeOK
    <3>3. QED
      BY <1>4, <3>1, <3>2 DEF KillEntry, Fresh
  <2>3. QED
    BY <1>4, <2>1, <2>2 DEF KillEntry
<1>5. ASSUME UNCHANGED <<at, cancelled>> PROVE Fresh'
  BY <1>5 DEF Fresh
<1>6. ASSUME NEW l \in Listeners, NEW m \in Machines, KillBegins(l, m) PROVE Fresh'
  BY <1>5, <1>6 DEF KillBegins, subVars
<1>7. ASSUME NEW m \in Machines, NEW sent \in BOOLEAN, WebDisconnect(m, sent) PROVE Fresh'
  BY <1>5, <1>7 DEF WebDisconnect, subVars
<1>8. ASSUME NEW c \in Contexts, NEW ok \in BOOLEAN, ShutDownLooks(c) \/ ShutDownMarks(c, ok)
      PROVE  Fresh'
  BY <1>5, <1>8 DEF ShutDownLooks, ShutDownMarks, subVars
<1>9. CASE ShutDown
  BY <1>5, <1>9 DEF ShutDown, subVars
<1>10. CASE UNCHANGED vars
  BY <1>5, <1>10 DEF vars, subVars
<1>11. ASSUME NEW l \in Listeners, KillDeletes(l) \/ KillEnds(l) PROVE Fresh'
  BY <1>5, <1>11 DEF KillDeletes, KillEnds, subVars
<1>12. QED
  BY <1>2, <1>3, <1>4, <1>6, <1>7, <1>8, <1>9, <1>10, <1>11 DEF Next

LEMMA OrderStep == RegistryInv /\ OrderInv /\ [Next]_vars => OrderInv'
<1> SUFFICES ASSUME RegistryInv, OrderInv, [Next]_vars PROVE OrderInv'
  OBVIOUS
<1>1. Fresh'
  BY FreshStep DEF OrderInv
<1>2. ASSUME NEW s \in Subs, Orderly(s)' PROVE Kept(s)'
  <2>1. Orderly(s) /\ Kept(s)
    BY <1>2, RacedStays DEF OrderInv, Orderly, Machine
  <2>2. ASSUME UNCHANGED <<machines, contexts, at, entry, num, seen, cancelled, killer, todo, deleting>>
        PROVE  Kept(s)'
    BY <2>1, <2>2 DEF Kept, OpenedAlone, Registered, InContexts, SeenIsFresh, NoneCloses, UnmapKeeps,
                      StillToCancel, Opening, Idle, Running, Closing, Machine
  <2>3. ASSUME NEW r \in Subs, GetEntry(r) \/ StoreContexts(r) \/ Leave(r) PROVE Kept(s)'
    BY <1>2, <2>1, <2>3, OpensOrderly, StoresOrderly, LeavesOrderly
  <2>4. ASSUME NEW r \in Subs, NEW ok \in BOOLEAN,
               \/ Upsert(r, ok) \/ ReadMachineID(r) \/ LoadContexts(r) \/ Join(r) \/ ReportCount(r, ok)
               \/ DeleteEntry(r) \/ UnmapLoad(r) \/ UnmapStore(r) \/ MarkDisconnected(r, ok)
        PROVE  Kept(s)'
    BY <2>1, <2>4, StreamsOrderly
  <2>5. ASSUME NEW l \in Listeners, NEW m \in Machines, NEW c \in Contexts,
               KillBegins(l, m) \/ KillEntry(l, c) \/ KillDeletes(l) \/ KillEnds(l)
        PROVE  Kept(s)'
    BY <1>2, <2>1, <2>5, KillsOrderly
  <2>6. ASSUME NEW m \in Machines, NEW sent \in BOOLEAN, WebDisconnect(m, sent) PROVE Kept(s)'
    BY <2>2, <2>6 DEF WebDisconnect, mapVars, subVars, killVars
  <2>7. CASE ShutDown
    BY <2>2, <2>7 DEF ShutDown, mapVars, subVars, killVars
  <2>8. ASSUME NEW c \in Contexts, NEW ok \in BOOLEAN, ShutDownLooks(c) \/ ShutDownMarks(c, ok)
        PROVE  Kept(s)'
    BY <2>2, <2>8 DEF ShutDownLooks, ShutDownMarks, mapVars, subVars, killVars
  <2>9. CASE UNCHANGED vars
    BY <2>2, <2>9 DEF vars, mapVars, subVars, killVars
  <2>10. ContextOf[s] \in Contexts /\ Machine(s) \in Machines
    BY Constants
  <2>11. CASE Next
    BY <2>3, <2>4, <2>5, <2>6, <2>7, <2>8, <2>10, <2>11 DEF Next
  <2>12. QED
    BY <2>9, <2>11
<1>3. QED
  BY <1>1, <1>2 DEF OrderInv

LEMMA OrderAlways == Spec => []OrderInv
<1>1. Init => OrderInv
  <2> SUFFICES ASSUME Init PROVE OrderInv
    OBVIOUS
  <2>1. \A s \in Subs : at[s] = "new" /\ ~cancelled[s]
    BY DEF Init
  <2>2. QED
    BY <2>1 DEF OrderInv, Fresh, Kept, OpenedAlone, Registered, InContexts, SeenIsFresh, NoneCloses,
                UnmapKeeps, StillToCancel, Opening, Running
<1>2. QED
  BY <1>1, OrderStep, RegistryAlways, PTL DEF Spec

(* A stream that was opened with nothing else under way on its machine can *)
(* be found, and so cancelled, as long as it runs: whatever the other      *)
(* streams of the machine do, whichever calls to the database fail.        *)
THEOREM StreamsCanBeFound == Spec => []Findable
<1>1. RegistryInv /\ OrderInv => Findable
  <2> SUFFICES ASSUME RegistryInv, OrderInv, NEW s \in Subs, Running(s), Machine(s) \notin raced
               PROVE  /\ ContextOf[s] \in contexts[Machine(s)]
                      /\ machines[ContextOf[s]] = entry[s]
                      /\ s \in list[entry[s]]
    BY DEF Findable
  <2>1. ContextOf[s] \in contexts[Machine(s)] /\ machines[ContextOf[s]] = entry[s]
    BY DEF OrderInv, Orderly, Kept, InContexts, Registered
  <2>2. entry[s] \in Subs
    BY DEF RegistryInv, TypeOK, Entries, Running
  <2>3. s \in list[entry[s]]
    BY <2>2 DEF RegistryInv, Lists, Running
  <2>4. QED
    BY <2>1, <2>3
<1>2. QED
  BY <1>1, RegistryAlways, OrderAlways, PTL

--------------------------------------------------------------------------------
(* As long as no call fails, the row of a stream that has been opened says *)
(* connected, or the change that took that away is still to reach it.      *)
Noticed(s) ==
  \/ row[ContextOf[s]] = "connected"
  \/ feed["changes"][Machine(s)] > 0
  \/ killer["changes"] = Machine(s)

Marks(s) == Running(s) \/ at[s] \in {"next", "map", "store", "join", "count"}

Marked == ~failed => \A s \in Subs : Orderly(s) /\ Marks(s) => Noticed(s)

LEMMA MarkedStep == RegistryInv /\ OrderInv /\ Marked /\ [Next]_vars => Marked'
<1> SUFFICES ASSUME RegistryInv, OrderInv, Marked, [Next]_vars, ~failed',
                    NEW s \in Subs, Orderly(s)', Marks(s)'
             PROVE  Noticed(s)'
  BY DEF Marked
<1> USE DEF RegistryInv
<1>f. ASSUME NEW ok \in BOOLEAN, Call(ok) PROVE ok
  BY <1>f DEF Call
<1>1. ~failed /\ Orderly(s) /\ Kept(s) /\ ContextOf[s] \in Contexts /\ Machine(s) \in Machines
      /\ "changes" \in Listeners
  BY FailedStays, RacedStays, Constants DEF OrderInv, Orderly, Machine, Listeners
<1>2. Marks(s) => Noticed(s)
  BY <1>1 DEF Marked
<1>3. ASSUME Noticed(s), UNCHANGED killer,
             \/ row'[ContextOf[s]] = row[ContextOf[s]]
             \/ row'[ContextOf[s]] = "connected"
             \/ feed'["changes"][Machine(s)] > 0,
             feed["changes"][Machine(s)] > 0 => feed'["changes"][Machine(s)] > 0
      PROVE  Noticed(s)'
  BY <1>3 DEF Noticed, Machine
<1>4. ASSUME UNCHANGED <<rowVars, killVars>>, Marks(s)' => Marks(s) PROVE Noticed(s)'
  BY <1>2, <1>3, <1>4 DEF rowVars, killVars
<1>5. ASSUME NEW r \in Subs, GetEntry(r) PROVE Noticed(s)'
  <2>1. UNCHANGED <<rowVars, killVars>>
    BY <1>5 DEF GetEntry
  <2>2. CASE r # s
    <3>1. at'[s] = at[s] /\ UNCHANGED cancelled
      BY <1>5, <2>2 DEF GetEntry, Goes, TypeOK
    <3>2. QED
      BY <1>4, <2>1, <3>1 DEF Marks, Running
  <2>3. CASE r = s
    <3>1. /\ Quiet(Machine(s)) /\ at'[s] \in {"first", "next"} /\ UNCHANGED list
          /\ entry'[s] = IF machines[ContextOf[s]] = None THEN s ELSE machines[ContextOf[s]]
          /\ at'[s] = "next" => list[entry'[s]] # {}
      BY <1>5, <2>3 DEF GetEntry, Goes, TypeOK, Orderly
    <3>2. at'[s] = "next" /\ entry'[s] \in Subs /\ ContextOf[entry'[s]] = ContextOf[s]
      BY <1>1, <3>1 DEF Marks, Running, Held, TypeOK
    <3>3. PICK t \in Subs : t \in list[entry'[s]]
      BY <3>1, <3>2 DEF TypeOK
    <3>4. at[t] \in {"count", "running"} /\ ContextOf[t] = ContextOf[s]
      BY <3>2, <3>3 DEF Lists, Entries
    <3>5. Idle(t) /\ Machine(t) = Machine(s)
      BY <3>1, <3>4 DEF Quiet, Streams, Machine
    <3>6. Noticed(t)
      BY <1>1, <3>4, <3>5 DEF Marked, Marks, Idle, Orderly
    <3>7. Noticed(s)
      BY <3>4, <3>5, <3>6 DEF Noticed
    <3>8. QED
      BY <1>3, <2>1, <3>7 DEF rowVars, killVars
  <2>4. QED
    BY <2>2, <2>3
<1>6. ASSUME NEW r \in Subs, NEW ok \in BOOLEAN, Upsert(r, ok) PROVE Noticed(s)'
  <2>1. /\ row' = [row EXCEPT ![ContextOf[r]] = "connected"] /\ at[r] = "first"
        /\ UNCHANGED <<feed, killer, cancelled>> /\ \A t \in Subs : t # r => at'[t] = at[t]
    BY <1>f, <1>6 DEF Upsert, Goes, TypeOK, killVars
  <2>2. CASE ContextOf[r] = ContextOf[s]
    <3>1. row'[ContextOf[s]] = "connected"
      BY <1>1, <2>1, <2>2 DEF TypeOK
    <3>2. QED
      BY <3>1 DEF Noticed
  <2>3. CASE ContextOf[r] # ContextOf[s]
    <3>1. row'[ContextOf[s]] = row[ContextOf[s]] /\ Marks(s)
      BY <1>1, <2>1, <2>3 DEF TypeOK, Marks, Running
    <3>2. QED
      BY <1>2, <1>3, <2>1, <3>1
  <2>4. QED
    BY <2>2, <2>3
<1>7. ASSUME NEW r \in Subs,
             \/ ReadMachineID(r) \/ LoadContexts(r) \/ StoreContexts(r) \/ Join(r)
             \/ UnmapLoad(r) \/ UnmapStore(r)
      PROVE  Noticed(s)'
  <2>1. /\ UNCHANGED <<rowVars, killVars, cancelled>> /\ \A t \in Subs : t # r => at'[t] = at[t]
        /\ \/ at[r] \in {"next", "map", "store", "join"}
           \/ at'[r] \in {"unstore", "rowoff"}
    BY <1>7 DEF ReadMachineID, LoadContexts, StoreContexts, Join, UnmapLoad, UnmapStore, Goes, TypeOK, mapVars
  <2>2. Marks(s)
    BY <2>1 DEF Marks, Running
  <2>3. QED
    BY <1>4, <2>1, <2>2
<1>8. ASSUME NEW r \in Subs, NEW p \in Places, Ends(r, p), at[r] = "count" \/ p # "running",
             p \notin {"next", "map", "store", "join", "count"}
      PROVE  Marks(s)
  <2>1. /\ at'[r] = p
        /\ \A t \in Subs : t # r => at'[t] = at[t] /\ cancelled'[t] = cancelled[t]
    BY <1>8, EndsEffect
  <2>2. QED
    BY <1>8, <2>1 DEF Marks, Running
<1>9. ASSUME NEW r \in Subs, Leave(r) \/ DeleteEntry(r) PROVE Noticed(s)'
  <2>1. UNCHANGED <<rowVars, killVars>>
    BY <1>9 DEF Leave, DeleteEntry
  <2>2. \E p \in {"uncount", "last", "unmap", "done"} : Ends(r, p) /\ p \in Places
    BY <1>9 DEF Leave, DeleteEntry, Places
  <2>3. QED
    BY <1>4, <1>8, <2>1, <2>2
<1>10. ASSUME NEW r \in Subs, NEW ok \in BOOLEAN, ReportCount(r, ok) PROVE Noticed(s)'
  <2>1. UpdateConnectionCount(ContextOf[r], num[r]) /\ UNCHANGED killVars
    BY <1>f, <1>10 DEF ReportCount
  <2>2. UNCHANGED row /\ \E k \in {0, 1} : feed' = [feed EXCEPT !["changes"][Machine(r)] = @ + k]
    BY <2>1 DEF UpdateConnectionCount, Changed, Machine
  <2>3. feed["changes"][Machine(s)] > 0 => feed'["changes"][Machine(s)] > 0
    <3>1. feed'["changes"][Machine(s)] >= feed["changes"][Machine(s)] /\ feed["changes"][Machine(s)] \in Nat
          /\ feed'["changes"][Machine(s)] \in Nat
      BY <1>1, <2>2, Constants DEF TypeOK
    <3>2. QED
      BY <3>1
  <2>4. \E p \in {"running", "last", "done"} : Ends(r, p) /\ p \in Places /\ (at[r] = "count" \/ p # "running")
    BY <1>10 DEF ReportCount, Places
  <2>5. Marks(s)
    BY <1>8, <2>4
  <2>6. QED
    BY <1>2, <1>3, <2>1, <2>2, <2>3, <2>5 DEF killVars
<1>11. ASSUME NEW c \in Contexts, DisconnectClient(c)
       PROVE  /\ feed["changes"][Machine(s)] > 0 => feed'["changes"][Machine(s)] > 0
              /\ \/ row'[ContextOf[s]] = row[ContextOf[s]]
                 \/ feed'["changes"][Machine(s)] > 0
  <2>1. CASE row[c] = "connected"
    <3>1. /\ row' = [row EXCEPT ![c] = "disconnected"]
          /\ feed' = [feed EXCEPT !["changes"][MachineOf[c]] = @ + 1] /\ MachineOf[c] \in Machines
      BY <1>11, <2>1, Constants DEF DisconnectClient, Changed
    <3>2. feed["changes"][MachineOf[c]] \in Nat /\ feed["changes"][Machine(s)] \in Nat
      BY <1>1, <3>1 DEF TypeOK
    <3>3. /\ feed'["changes"][MachineOf[c]] = feed["changes"][MachineOf[c]] + 1
          /\ MachineOf[c] # Machine(s) => feed'["changes"][Machine(s)] = feed["changes"][Machine(s)]
      BY <1>1, <3>1 DEF TypeOK
    <3>4. c # ContextOf[s] => row'[ContextOf[s]] = row[ContextOf[s]]
      BY <1>1, <3>1 DEF TypeOK
    <3>5. c = ContextOf[s] => MachineOf[c] = Machine(s)
      BY DEF Machine
    <3>6. QED
      BY <3>2, <3>3, <3>4, <3>5
  <2>2. CASE row[c] # "connected"
    BY <1>11, <2>2 DEF DisconnectClient, rowVars
  <2>3. QED
    BY <2>1, <2>2
<1>12. ASSUME NEW r \in Subs, NEW ok \in BOOLEAN, MarkDisconnected(r, ok) PROVE Noticed(s)'
  <2>1. DisconnectClient(ContextOf[r]) /\ UNCHANGED killVars /\ Ends(r, "done") /\ ContextOf[r] \in Contexts
    BY <1>f, <1>12, Constants DEF MarkDisconnected
  <2>2. Marks(s)
    BY <1>8, <2>1 DEF Places
  <2>3. QED
    BY <1>2, <1>3, <1>11, <2>1, <2>2 DEF killVars
<1>13. ASSUME NEW l \in Listeners, NEW m \in Machines, KillBegins(l, m) PROVE Noticed(s)'
  <2>1. /\ UNCHANGED <<row, at, cancelled>> /\ feed[l][m] > 0 /\ feed[l][m] \in Nat /\ killer[l] = None
        /\ feed' = [feed EXCEPT ![l][m] = @ - 1]
        /\ \/ killer' = killer /\ contexts[m] = {}
           \/ killer' = [killer EXCEPT ![l] = m]
    BY <1>13 DEF KillBegins, mapVars, subVars, TypeOK
  <2>2. Marks(s) /\ Noticed(s)
    BY <1>2, <2>1 DEF Marks, Running
  <2>3. CASE l # "changes" \/ m # Machine(s)
    <3>1. feed'["changes"][Machine(s)] = feed["changes"][Machine(s)]
      BY <1>1, <2>1, <2>3 DEF TypeOK
    <3>2. killer["changes"] = Machine(s) => killer'["changes"] = Machine(s)
      BY <1>1, <2>1, Constants DEF TypeOK
    <3>3. QED
      BY <2>1, <2>2, <3>1, <3>2 DEF Noticed, Machine
  <2>4. CASE l = "changes" /\ m = Machine(s)
    <3>1. ~Opening(s)
      BY <1>13, <2>4 DEF KillBegins, Ending, Streams, Orderly, Machine
    <3>2. ContextOf[s] \in contexts[m]
      BY <1>1, <2>2, <2>4, <3>1 DEF Marks, Opening, Kept, InContexts
    <3>3. killer'["changes"] = m
      BY <1>1, <2>1, <2>4, <3>2 DEF TypeOK
    <3>4. QED
      BY <2>4, <3>3 DEF Noticed, Machine
  <2>5. QED
    BY <2>3, <2>4
<1>14. ASSUME NEW l \in Listeners, NEW c \in Contexts, KillEntry(l, c) PROVE Noticed(s)'
  <2>1. UNCHANGED <<row, feed, killer, at>> /\ (cancelled[s] => cancelled'[s])
    <3>1. CASE UNCHANGED cancelled
      BY <1>14, <3>1 DEF KillEntry, rowVars
    <3>2. CASE cancelled' = [t \in Subs |-> cancelled[t] \/ t \in list[machines[c]]]
      <4>1. cancelled[s] => cancelled'[s]
        BY <3>2, Zenon
      <4>2. QED
        BY <1>14, <4>1 DEF KillEntry, rowVars
    <3>3. QED
      BY <1>14, <3>1, <3>2 DEF KillEntry
  <2>2. Marks(s)
    BY <2>1 DEF Marks, Running
  <2>3. QED
    BY <1>2, <1>3, <2>1, <2>2
<1>15. ASSUME NEW l \in Listeners, KillDeletes(l) PROVE Noticed(s)'
  <2>1. UNCHANGED <<row, feed, killer, at, cancelled>>
    BY <1>15 DEF KillDeletes, rowVars, subVars
  <2>2. QED
    BY <1>2, <1>3, <2>1 DEF Marks, Running
<1>16. ASSUME NEW l \in Listeners, KillEnds(l) PROVE Noticed(s)'
  <2>1. UNCHANGED <<row, feed, at, cancelled>> /\ todo[l] = {} /\ killer' = [killer EXCEPT ![l] = None]
    BY <1>16 DEF KillEnds, rowVars, subVars
  <2>2. Marks(s) /\ Noticed(s)
    BY <1>2, <2>1 DEF Marks, Running
  <2>3. killer[l] # Machine(s)
    BY <1>1, <2>1, <2>2 DEF Kept, OpenedAlone, StillToCancel, Marks, Opening
  <2>4. killer["changes"] = Machine(s) => killer'["changes"] = Machine(s)
    BY <1>1, <2>1, <2>3 DEF TypeOK
  <2>5. QED
    BY <2>1, <2>2, <2>4 DEF Noticed, Machine
<1>17. ASSUME NEW m \in Machines, NEW sent \in BOOLEAN, WebDisconnect(m, sent) PROVE Noticed(s)'
  <2> DEFINE hit == {c \in Contexts : MachineOf[c] = m /\ row[c] = "connected"}
  <2>1. UNCHANGED <<killer, at, cancelled>>
    BY <1>17 DEF WebDisconnect, subVars, killVars
  <2>2. Noticed(s)
    BY <1>2, <2>1 DEF Marks, Running
  <2>3. Cardinality(hit) \in Nat /\ (hit # {} => Cardinality(hit) > 0)
    <3>1. IsFiniteSet(hit)
      BY RegistryAssumption, FS_Subset
    <3>2. QED
      BY <3>1, FS_CardinalityType, FS_EmptySet
  <2>4. feed' = [feed EXCEPT !["changes"][m] = @ + Cardinality(hit),
                             !["broadcast"][m] = @ + IF sent THEN 1 ELSE 0]
    BY <1>17 DEF WebDisconnect
  <2>5. row'[ContextOf[s]] = IF ContextOf[s] \in hit THEN "disconnected" ELSE row[ContextOf[s]]
    BY <1>1, <1>17 DEF WebDisconnect
  <2>6. ContextOf[s] \in hit => hit # {} /\ m = Machine(s)
    BY DEF Machine
  <2> HIDE DEF hit
  <2>7. /\ feed["changes"][m] \in Nat /\ feed["changes"][Machine(s)] \in Nat
        /\ feed'["changes"][m] = feed["changes"][m] + Cardinality(hit)
        /\ m # Machine(s) => feed'["changes"][Machine(s)] = feed["changes"][Machine(s)]
    BY <1>1, <2>4 DEF TypeOK, Listeners
  <2>8. feed["changes"][Machine(s)] > 0 => feed'["changes"][Machine(s)] > 0
    BY <2>3, <2>7
  <2>9. row'[ContextOf[s]] = row[ContextOf[s]] \/ feed'["changes"][Machine(s)] > 0
    BY <2>3, <2>5, <2>6, <2>7
  <2>10. QED
    BY <1>3, <2>1, <2>2, <2>8, <2>9
<1>18. CASE ShutDown
  BY <1>4, <1>18 DEF ShutDown, subVars, Marks, Running
<1>19. ASSUME NEW c \in Contexts, NEW ok \in BOOLEAN, ShutDownLooks(c) \/ ShutDownMarks(c, ok)
       PROVE  Noticed(s)'
  <2>1. UNCHANGED <<killer, at, cancelled>> /\ (DisconnectClient(c) \/ UNCHANGED rowVars)
    BY <1>19 DEF ShutDownLooks, ShutDownMarks, subVars, killVars
  <2>2. Noticed(s)
    BY <1>2, <2>1 DEF Marks, Running
  <2>3. QED
    BY <1>3, <1>11, <2>1, <2>2 DEF rowVars
<1>20. CASE UNCHANGED vars
  BY <1>4, <1>20 DEF vars, subVars, Marks, Running
<1>21. QED
  BY <1>5, <1>6, <1>7, <1>9, <1>10, <1>12, <1>13, <1>14, <1>15, <1>16, <1>17, <1>18, <1>19, <1>20 DEF Next

(* While streams are opened one at a time and no call fails, the table     *)
(* says of a context whether it has a running stream, whenever nothing is  *)
(* under way.                                                              *)
THEOREM TableIsRight == Spec => []TableTells
<1>1. Init => Marked
  BY DEF Init, Marked, Marks, Running
<1>2. Spec => []Marked
  BY <1>1, MarkedStep, RegistryAlways, OrderAlways, PTL DEF Spec
<1>3. RegistryInv /\ Shown /\ OrderInv /\ Marked => TableTells
  <2> SUFFICES ASSUME RegistryInv, Shown, Marked, NEW c \in Contexts,
                      ~failed, MachineOf[c] \notin raced, Quiet(MachineOf[c])
               PROVE  row[c] = "connected" <=> \E s \in Subs : ContextOf[s] = c /\ Running(s)
    BY DEF TableTells
  <2>1. \A s \in Subs : ContextOf[s] = c => Idle(s) /\ Machine(s) = MachineOf[c]
    BY DEF Quiet, Streams, Machine
  <2>2. ASSUME row[c] = "connected" PROVE \E s \in Subs : ContextOf[s] = c /\ Running(s)
    <3>1. PICK s \in Subs : ContextOf[s] = c /\ Carries(s)
      BY <2>2 DEF Shown, Carried
    <3>2. Running(s)
      BY <2>1, <3>1 DEF Carries, Idle
    <3>3. QED
      BY <3>1, <3>2
  <2>3. ASSUME NEW s \in Subs, ContextOf[s] = c, Running(s) PROVE row[c] = "connected"
    <3>1. Noticed(s)
      BY <2>1, <2>3 DEF Marked, Marks, Orderly
    <3>2. feed["changes"][MachineOf[c]] = 0 /\ killer["changes"] # MachineOf[c]
      BY DEF Quiet, Listeners
    <3>3. QED
      BY <2>1, <2>3, <3>1, <3>2 DEF Noticed
  <2>4. QED
    BY <2>2, <2>3
<1>4. QED
  BY <1>2, <1>3, RegistryAlways, ShownAlways, OrderAlways, PTL

================================================================================
