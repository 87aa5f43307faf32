---------------------------- MODULE CliListen_proofs ----------------------------
(***************************************************************************)
(* Proofs about CliListen: the order of what is printed, and the pages of  *)
(* the GUI, for any number of events, requests and pages and any           *)
(* capacities.                                                             *)
(***************************************************************************)
EXTENDS CliListen, FiniteSetTheorems, SequenceTheorems, WellFoundedInduction, TLAPS

--------------------------------------------------------------------------------
(* The logger.  What is waiting to be printed of an event was put there    *)
(* after the event was printed.                                            *)
Shown(i) == \E k \in 1..Len(output) : output[k] = Event(i)

EventFirst ==
  /\ \A i \in Ids : forward[i] # "none" => Shown(i)
  /\ \A i \in pendingResults : Shown(i)
  /\ \A k \in 1..Len(results) : Shown(results[k])
  /\ result # 0 => Shown(result)
  /\ pc \in {"flushAgain", "after", "flushingAgain", "spawn"} => Shown(eventID)

Busy ==
  /\ pc \notin {"recv", "end"} => eventID # 0
  /\ result = 0 <=> logger # "store"

LoggerInv == LoggerTypeOK /\ Busy /\ ResultsInOrder /\ EventFirst

(* The storage.  An event has been posted once, after its turn in the      *)
(* loop; what has been stored and is not gone is in the list, and only     *)
(* what has been stored is; an answer read with the stream open, like the  *)
(* page that has got one, misses nothing but what the stream will bring.   *)
Added(e) == post[e] \in {"stored", "done"}

PostedOnce ==
  \A e \in Posts :
    post[e] # "unsent" => e \in Ids /\ (e < eventID \/ (e = eventID /\ pc \in {"recv", "end"}))

StorageFunctions ==
  /\ queue \in [Pages -> Seq(Posts)] /\ wire \in [Pages -> Seq(Posts)]
  /\ shown \in [Pages -> SUBSET Posts] /\ missed \in [Pages -> SUBSET Posts]
  /\ answer \in [Fetches -> SUBSET Posts]

Listed ==
  /\ \A i \in 1..Len(events) : Added(events[i])
  /\ \A e \in Posts : Added(e) /\ e \notin gone => e \in ToSet(events)

StreamsOpen ==
  /\ \A p \in whole : stream[p] = "open"
  /\ \A f \in joined : fetch[f] = "answered" /\ stream[f[1]] = "open"

AnswerMissesNothing(f) ==
  \A e \in Posts :
    post[e] = "done" /\ e \notin gone \cup missed[f[1]] => e \in answer[f] \/ Comes(e, f[1])

StorageInv ==
  /\ StorageTypeOK /\ StorageFunctions /\ PostedOnce /\ Listed /\ StreamsOpen
  /\ PagesMissNothing /\ \A f \in joined : AnswerMissesNothing(f)

ListenInv == LoggerInv /\ StorageInv
--------------------------------------------------------------------------------
Item == [what : {"event", "result", "direct"}, id : Ids]

(* What a print leaves as it was, and what it adds.                        *)
LEMMA Extends ==
  ASSUME NEW o \in Seq(Item), NEW s \in Seq(Item)
  PROVE  /\ o \o s \in Seq(Item) /\ Len(o \o s) = Len(o) + Len(s)
         /\ \A k \in 1..Len(o) : (o \o s)[k] = o[k]
         /\ \A k \in 1..Len(s) : Len(o) + k \in 1..Len(o \o s) /\ (o \o s)[Len(o) + k] = s[k]
         /\ \A k \in 1..Len(o \o s) : k \in 1..Len(o) \/ \E j \in 1..Len(s) : k = Len(o) + j
<1>1. o \o s \in Seq(Item) /\ Len(o \o s) = Len(o) + Len(s)
  OBVIOUS
<1>2. \A k \in 1..Len(o) : (o \o s)[k] = o[k]
  OBVIOUS
<1>3. \A k \in 1..Len(s) : Len(o) + k \in 1..Len(o \o s) /\ (o \o s)[Len(o) + k] = s[k]
  OBVIOUS
<1>4. ASSUME NEW k \in 1..Len(o \o s), k \notin 1..Len(o)
      PROVE  \E j \in 1..Len(s) : k = Len(o) + j
  <2>1. k - Len(o) \in 1..Len(s) /\ k = Len(o) + (k - Len(o))
    BY <1>1, <1>4
  <2>2. QED
    BY <2>1
<1>5. QED
  BY <1>1, <1>2, <1>3, <1>4

(* What is printed stays.                                                  *)
LEMMA StaysShown ==
  ASSUME output \in Seq(Item), NEW s \in Seq(Item), output' = output \o s
  PROVE  /\ output' \in Seq(Item)
         /\ \A i : Shown(i) => Shown(i)'
         /\ \A i : (\E k \in 1..Len(s) : s[k] = Event(i)) => Shown(i)'
<1>1. output' \in Seq(Item) /\ Len(output') = Len(output) + Len(s)
  BY Extends
<1>2. ASSUME NEW i, Shown(i) PROVE Shown(i)'
  <2>1. PICK k \in 1..Len(output) : output[k] = Event(i)
    BY <1>2 DEF Shown
  <2>2. output'[k] = Event(i) /\ k \in 1..Len(output')
    BY <1>1, <2>1, Extends
  <2>3. QED
    BY <2>2 DEF Shown, Event
<1>3. ASSUME NEW i, NEW k \in 1..Len(s), s[k] = Event(i) PROVE Shown(i)'
  <2>1. Len(output) + k \in 1..Len(output') /\ output'[Len(output) + k] = Event(i)
    BY <1>3, Extends
  <2>2. QED
    BY <2>1 DEF Shown, Event
<1>4. QED
  BY <1>1, <1>2, <1>3

(* A print of the next n results, and then of what is no result, keeps     *)
(* them in order.                                                          *)
LEMMA PrintsInOrder ==
  ASSUME LoggerTypeOK, ResultsInOrder, NEW s \in Seq(Item), NEW n \in 0..Len(s),
         output' = output \o s, nextExpectedID' = nextExpectedID + n,
         \A k \in 1..n : s[k] = Result(nextExpectedID + (k - 1)) /\ Shown(nextExpectedID + (k - 1)),
         \A k \in n + 1..Len(s) :
           s[k].what = "event" \/ (s[k].what = "direct" /\ Shown(s[k].id))
  PROVE  ResultsInOrder'
<1>0. output \in Seq(Item) /\ nextExpectedID \in Nat \ {0} /\ n \in Nat
  BY DEF LoggerTypeOK, Item, Ids
<1> DEFINE old == Len(output)
<1>1. /\ output' \in Seq(Item) /\ Len(output') = old + Len(s)
      /\ \A k \in 1..old : output'[k] = output[k]
      /\ \A k \in 1..Len(s) : old + k \in 1..Len(output') /\ output'[old + k] = s[k]
      /\ \A k \in 1..Len(output') : k \in 1..old \/ \E j \in 1..Len(s) : k = old + j
  BY <1>0, Extends
<1>2. \A k \in ResultsAt' : k \in ResultsAt \/ \E j \in 1..n : k = old + j
  <2> SUFFICES ASSUME NEW k \in ResultsAt', k \notin ResultsAt
               PROVE  \E j \in 1..n : k = old + j
    OBVIOUS
  <2>1. k \in 1..Len(output') /\ output'[k].what = "result"
    BY DEF ResultsAt
  <2>2. k \notin 1..old
    BY <1>1, <2>1 DEF ResultsAt
  <2>3. PICK j \in 1..Len(s) : k = old + j
    BY <1>1, <2>1, <2>2
  <2>4. s[j].what = "result"
    BY <1>1, <2>1, <2>3
  <2>5. ~ (j \in n + 1..Len(s))
    BY <2>4
  <2>6. j \in 1..n
    BY <1>0, <2>5
  <2>7. QED
    BY <2>3, <2>6
<1>3. \A k \in ResultsAt : k \in ResultsAt' /\ k \in 1..old /\ output'[k] = output[k]
  BY <1>0, <1>1 DEF ResultsAt
<1>4. ASSUME NEW j \in 1..n
      PROVE  old + j \in ResultsAt' /\ output'[old + j].id = nextExpectedID + (j - 1)
  <2>1. j \in 1..Len(s)
    BY <1>0
  <2>2. output'[old + j] = Result(nextExpectedID + (j - 1)) /\ old + j \in 1..Len(output')
    BY <1>1, <2>1
  <2>3. QED
    BY <2>2 DEF Result, ResultsAt
<1>5. /\ {output[k].id : k \in ResultsAt} = 1..nextExpectedID - 1
      /\ \A i \in 1..nextExpectedID - 1 :
           i \in 1..nextExpectedID' - 1 /\ \A j \in 1..n : i < nextExpectedID + (j - 1)
  BY <1>0 DEF ResultsInOrder
<1>6. {output'[k].id : k \in ResultsAt'} = 1..nextExpectedID' - 1
  <2>1. ASSUME NEW k \in ResultsAt' PROVE output'[k].id \in 1..nextExpectedID' - 1
    <3>1. CASE k \in ResultsAt
      <4>1. output'[k].id \in 1..nextExpectedID - 1
        BY <1>3, <1>5, <3>1
      <4>2. QED
        BY <1>5, <4>1
    <3>2. CASE \E j \in 1..n : k = old + j
      BY <1>0, <1>4, <3>2
    <3>3. QED
      BY <1>2, <3>1, <3>2
  <2>2. ASSUME NEW i \in 1..nextExpectedID' - 1
        PROVE  \E k \in ResultsAt' : output'[k].id = i
    <3>1. CASE i < nextExpectedID
      <4>1. i \in 1..nextExpectedID - 1
        BY <1>0, <3>1
      <4>2. PICK k \in ResultsAt : output[k].id = i
        BY <1>5, <4>1
      <4>3. QED
        BY <1>3, <4>2
    <3>2. CASE ~ (i < nextExpectedID)
      <4>1. i - nextExpectedID + 1 \in 1..n /\ nextExpectedID + ((i - nextExpectedID + 1) - 1) = i
        BY <1>0, <3>2
      <4>2. QED
        BY <1>4, <4>1
    <3>3. QED
      BY <3>1, <3>2
  <2>3. QED
    BY <2>1, <2>2
<1>7. ASSUME NEW h \in ResultsAt', NEW k \in ResultsAt', h < k PROVE output'[h].id < output'[k].id
  <2>0. h \in Nat /\ k \in Nat /\ old \in Nat
    BY <1>0 DEF ResultsAt
  <2>1. CASE k \in ResultsAt
    <3>1. h \in ResultsAt
      <4>1. ASSUME NEW j \in 1..n, h = old + j PROVE FALSE
        BY <1>3, <1>7, <2>0, <2>1, <4>1
      <4>2. QED
        BY <1>2, <4>1
    <3>2. QED
      BY <1>3, <1>7, <2>1, <3>1 DEF ResultsInOrder
  <2>2. ASSUME NEW j \in 1..n, k = old + j PROVE output'[h].id < output'[k].id
    <3>1. CASE h \in ResultsAt
      <4>1. output'[h].id \in 1..nextExpectedID - 1
        BY <1>3, <1>5, <3>1
      <4>2. QED
        BY <1>4, <1>5, <2>2, <4>1
    <3>2. ASSUME NEW i \in 1..n, h = old + i PROVE output'[h].id < output'[k].id
      <4>1. i < j
        BY <1>7, <2>0, <2>2, <3>2
      <4>2. QED
        BY <1>0, <1>4, <2>2, <3>2, <4>1
    <3>3. QED
      BY <1>2, <3>1, <3>2
  <2>3. QED
    BY <1>2, <2>1, <2>2
<1>8. ASSUME NEW k \in 1..Len(output'), output'[k].what # "event"
      PROVE  \E h \in 1..k - 1 : output'[h] = Event(output'[k].id)
  <2>1. CASE k \in 1..old
    <3>1. PICK h \in 1..k - 1 : output[h] = Event(output[k].id)
      BY <1>1, <1>8, <2>1 DEF ResultsInOrder
    <3>2. h \in 1..old
      BY <1>0, <2>1
    <3>3. QED
      BY <1>1, <2>1, <3>1, <3>2
  <2>2. ASSUME NEW j \in 1..Len(s), k = old + j
        PROVE  \E h \in 1..k - 1 : output'[h] = Event(output'[k].id)
    <3>1. output'[k] = s[j]
      BY <1>1, <2>2
    <3>2. Shown(s[j].id)
      <4>1. ASSUME j \in 1..n PROVE Shown(s[j].id)
        <5>1. s[j].id = nextExpectedID + (j - 1)
          BY <1>4, <2>2, <3>1, <4>1
        <5>2. Shown(nextExpectedID + (j - 1))
          BY <4>1
        <5>3. QED
          BY <5>1, <5>2, Zenon
      <4>2. CASE j \in n + 1..Len(s)
        BY <1>8, <3>1, <4>2
      <4>3. QED
        BY <1>0, <4>1, <4>2
    <3>3. PICK h \in 1..old : output[h] = Event(s[j].id)
      BY <3>2 DEF Shown
    <3>4. h \in 1..k - 1
      BY <1>0, <2>2, <3>3
    <3>5. QED
      BY <1>1, <3>1, <3>3, <3>4
  <2>3. QED
    BY <1>1, <2>1, <2>2
<1>9. (\A k \in 1..Len(output) : output[k].what # "event" => \E h \in 1..k - 1 : output[h] = Event(output[k].id))'
  BY <1>8 DEF Event
<1>10. QED
  BY <1>6, <1>7, <1>9 DEF ResultsInOrder

(* Ready is an interval: the results that a flush prints are the next ones. *)
LEMMA ReadyInterval ==
  ASSUME LoggerTypeOK
  PROVE  /\ Cardinality(Ready) \in Nat
         /\ Ready = nextExpectedID..nextExpectedID + Cardinality(Ready) - 1
         /\ Ready \subseteq pendingResults /\ Ready \subseteq Ids
<1>1. nextExpectedID \in Nat \ {0} /\ MaxEvents \in Nat /\ pendingResults \subseteq Ids
  BY LoggerAssumption DEF LoggerTypeOK, Ids
<1>2. IsFiniteSet(Ready) /\ Ready \subseteq Ids /\ Ready \subseteq pendingResults
  <2>1. IsFiniteSet(Ids)
    BY <1>1, FS_Interval DEF Ids
  <2>2. Ready \subseteq Ids
    BY DEF Ready
  <2>3. Ready \subseteq pendingResults
    BY <1>1 DEF Ready, Ids
  <2>4. QED
    BY <2>1, <2>2, <2>3, FS_Subset
<1>3. Cardinality(Ready) \in Nat
  BY <1>2, FS_CardinalityType
<1> DEFINE n == Cardinality(Ready)
           next == nextExpectedID..nextExpectedID + n - 1
<1>4. IsFiniteSet(next) /\ Cardinality(next) = n
  <2>1. nextExpectedID \in Int /\ nextExpectedID + n - 1 \in Int
    BY <1>1, <1>3
  <2>2. QED
    BY <1>1, <1>3, <2>1, FS_Interval
<1>5. ASSUME NEW i \in Ready PROVE nextExpectedID..i \subseteq Ready
  BY <1>1, <1>5 DEF Ready, Ids
<1>6. Ready \subseteq next
  <2> SUFFICES ASSUME NEW i \in Ready, i > nextExpectedID + n - 1 PROVE FALSE
    BY <1>1, <1>3 DEF Ready, Ids
  <2>1. i \in Int /\ nextExpectedID \in Int /\ nextExpectedID <= i
    BY <1>1 DEF Ready, Ids
  <2>2. Cardinality(nextExpectedID..i) = i - nextExpectedID + 1
    BY <2>1, FS_Interval
  <2>3. Cardinality(nextExpectedID..i) <= n
    BY <1>2, <1>5, FS_Subset
  <2>4. QED
    BY <1>1, <1>3, <2>1, <2>2, <2>3
<1>7. Ready = next
  BY <1>4, <1>6, FS_Subset
<1>8. QED
  BY <1>2, <1>3, <1>7

LEMMA NothingPrinted ==
  ASSUME ResultsInOrder, UNCHANGED <<output, nextExpectedID>>
  PROVE  ResultsInOrder' /\ \A i : Shown(i) => Shown(i)'
<1>1. \A i : Shown(i) => Shown(i)'
  BY DEF Shown, Event
<1>2. ResultsInOrder'
  BY DEF ResultsInOrder, ResultsAt, Event
<1>3. QED
  BY <1>1, <1>2

(* The next result is printed once, behind its event.                      *)
LEMMA PrintNextKeeps ==
  ASSUME LoggerInv, PrintNext
  PROVE  /\ ResultsInOrder' /\ output' \in Seq(Item) /\ \A i : Shown(i) => Shown(i)'
         /\ nextExpectedID' \in 1..MaxEvents + 1 /\ pendingResults' \subseteq pendingResults
<1>1. /\ output \in Seq(Item) /\ nextExpectedID \in Ids /\ MaxEvents \in Nat
      /\ Shown(nextExpectedID)
  BY LoggerAssumption DEF LoggerInv, LoggerTypeOK, EventFirst, PrintNext, Item
<1> DEFINE s == <<Result(nextExpectedID)>>
<1>2. /\ s \in Seq(Item) /\ Len(s) = 1 /\ s[1] = Result(nextExpectedID + (1 - 1))
      /\ nextExpectedID + (1 - 1) = nextExpectedID
  BY <1>1 DEF Item, Result, Ids
<1>3. output' = output \o s /\ nextExpectedID' = nextExpectedID + 1
  BY DEF PrintNext, Prints
<1> HIDE DEF s
<1>4. ResultsInOrder'
  <2>1. /\ LoggerTypeOK /\ ResultsInOrder
        /\ 1 \in 0..Len(s)
        /\ \A k \in 1..1 : s[k] = Result(nextExpectedID + (k - 1))
        /\ \A k \in 1..1 : nextExpectedID + (k - 1) = nextExpectedID
        /\ \A k \in 1 + 1..Len(s) : FALSE
    BY <1>1, <1>2 DEF LoggerInv, Ids
  <2>2. \A k \in 1..1 : Shown(nextExpectedID + (k - 1))
    BY <1>1, <2>1, Zenon
  <2>3. QED
    BY <1>2, <1>3, <2>1, <2>2, PrintsInOrder
<1>5. output' \in Seq(Item) /\ \A i : Shown(i) => Shown(i)'
  BY <1>1, <1>2, <1>3, StaysShown
<1>6. QED
  BY <1>1, <1>4, <1>5 DEF PrintNext, Ids

(* A flush prints what is next, all at once, and then the event of the     *)
(* loop or nothing.                                                        *)
LEMMA FlushKeeps ==
  ASSUME LoggerInv, NEW items \in Seq({Event(i) : i \in Ids}), FlushAll(items)
  PROVE  /\ ResultsInOrder' /\ output' \in Seq(Item) /\ \A i : Shown(i) => Shown(i)'
         /\ \A i : (\E k \in 1..Len(items) : items[k] = Event(i)) => Shown(i)'
         /\ nextExpectedID' \in 1..MaxEvents + 1 /\ pendingResults' \subseteq pendingResults
<1>0. LoggerTypeOK /\ ResultsInOrder /\ output \in Seq(Item) /\ nextExpectedID \in Nat \ {0}
  BY DEF LoggerInv, LoggerTypeOK, Item
<1> DEFINE n == Cardinality(Ready)
           rs == [k \in 1..n |-> Result(nextExpectedID + k - 1)]
           s == rs \o items
<1>1. /\ n \in Nat /\ Ready = nextExpectedID..nextExpectedID + n - 1
      /\ Ready \subseteq pendingResults /\ Ready \subseteq Ids
  BY <1>0, ReadyInterval
<1>2. /\ output' = output \o s /\ nextExpectedID' = nextExpectedID + n
      /\ pendingResults' = pendingResults \ Ready
  BY DEF FlushAll, Prints
<1> HIDE DEF n
<1>3. ASSUME NEW k \in 1..n
      PROVE  /\ nextExpectedID + (k - 1) \in Ids /\ Shown(nextExpectedID + (k - 1))
             /\ nextExpectedID + k - 1 = nextExpectedID + (k - 1)
  <2>1. nextExpectedID + (k - 1) \in Ready
    BY <1>0, <1>1
  <2>2. QED
    BY <1>0, <1>1, <2>1 DEF LoggerInv, EventFirst
<1>4. rs \in Seq(Item) /\ Len(rs) = n
  <2>1. \A k \in 1..n : Result(nextExpectedID + k - 1) \in Item
    BY <1>3 DEF Result, Item
  <2>2. QED
    BY <1>1, <2>1
<1>5. items \in Seq(Item) /\ \A k \in 1..Len(items) : items[k].what = "event"
  <2>1. \A i \in Ids : Event(i) \in Item /\ Event(i).what = "event"
    BY DEF Event, Item
  <2>2. \A k \in 1..Len(items) : items[k] \in Item /\ items[k].what = "event"
    BY <2>1
  <2>3. QED
    BY <2>2
<1>6. /\ \A k \in 1..n : rs[k] = Result(nextExpectedID + (k - 1))
  BY <1>3
<1> HIDE DEF rs
<1>7. /\ s \in Seq(Item) /\ Len(s) = n + Len(items)
      /\ \A k \in 1..n : s[k] = Result(nextExpectedID + (k - 1))
      /\ \A k \in 1..Len(items) : n + k \in 1..Len(s) /\ s[n + k] = items[k]
      /\ \A k \in n + 1..Len(s) : s[k].what = "event"
  <2>1. /\ s \in Seq(Item) /\ Len(s) = n + Len(items)
        /\ \A k \in 1..n : s[k] = rs[k]
        /\ \A k \in 1..Len(items) : n + k \in 1..Len(s) /\ s[n + k] = items[k]
        /\ \A k \in 1..Len(s) : k \in 1..n \/ \E j \in 1..Len(items) : k = n + j
    <3>1. /\ s \in Seq(Item) /\ Len(s) = Len(rs) + Len(items)
          /\ \A k \in 1..Len(rs) : s[k] = rs[k]
          /\ \A k \in 1..Len(items) : Len(rs) + k \in 1..Len(s) /\ s[Len(rs) + k] = items[k]
          /\ \A k \in 1..Len(s) : k \in 1..Len(rs) \/ \E j \in 1..Len(items) : k = Len(rs) + j
      BY <1>4, <1>5, Extends, Zenon
    <3>2. QED
      BY <1>4, <3>1
  <2>2. \A k \in n + 1..Len(s) : s[k].what = "event"
    BY <1>1, <1>5, <2>1
  <2>3. QED
    BY <1>6, <2>1, <2>2
<1> HIDE DEF s
<1>8. ResultsInOrder'
  <2>1. n \in 0..Len(s)
    BY <1>1, <1>5, <1>7
  <2>2. QED
    BY <1>0, <1>2, <1>3, <1>7, <2>1, PrintsInOrder
<1>9. output' \in Seq(Item) /\ \A i : Shown(i) => Shown(i)'
  BY <1>0, <1>2, <1>7, StaysShown
<1>10. \A i : (\E k \in 1..Len(items) : items[k] = Event(i)) => Shown(i)'
  BY <1>0, <1>2, <1>7, StaysShown
<1>11. nextExpectedID' \in 1..MaxEvents + 1
  <2>1. CASE n = 0
    BY <1>0, <1>2, <2>1 DEF LoggerTypeOK
  <2>2. CASE n # 0
    <3>1. nextExpectedID + n - 1 \in Ids
      BY <1>0, <1>1, <2>2
    <3>2. QED
      BY <1>0, <1>1, <1>2, <3>1, LoggerAssumption DEF Ids
  <2>3. QED
    BY <2>1, <2>2
<1>12. QED
  BY <1>2, <1>8, <1>9, <1>10, <1>11

(* The logger's types and order, over the steps that print nothing.        *)
LEMMA QuietStep ==
  ASSUME LoggerInv, UNCHANGED <<output, nextExpectedID>>,
         \/ Receive \/ Lock \/ Exit \/ \E ok \in BOOLEAN : Spawn(ok)
         \/ LockState("before", "flushing") \/ UnlockState("flushing", "print")
         \/ LockState("after", "flushingAgain") \/ UnlockState("flushingAgain", "spawn")
         \/ LoggerReceives \/ LoggerStores \/ LoggerLocks \/ LoggerUnlocks
         \/ \E i \in Ids : Forwarded(i)
         \/ UNCHANGED loggingVars
  PROVE  LoggerInv'
<1>1. ResultsInOrder' /\ \A i : Shown(i) => Shown(i)'
  BY NothingPrinted DEF LoggerInv
<1> USE LoggerAssumption DEF LoggerInv, LoggerTypeOK, Busy, EventFirst, mutexVars, stateVars, loggerVars
<1>2. CASE Receive \/ Lock
  <2>1. CASE Receive
    <3>1. eventID' \in Ids /\ pc' \in {"before", "lock"}
      BY <2>1 DEF Receive, Ids
    <3>2. UNCHANGED <<session, mutexVars, stateVars, results, loggerVars, forward, output>>
      BY <2>1 DEF Receive
    <3>3. LoggerTypeOK' /\ Busy'
      BY <3>1, <3>2 DEF Ids
    <3>4. EventFirst'
      BY <1>1, <3>1, <3>2
    <3>5. QED
      BY <1>1, <3>3, <3>4
  <2>2. CASE Lock
    BY <1>1, <2>2 DEF Lock
  <2>3. QED
    BY <1>2, <2>1, <2>2
<1>3. CASE LockState("before", "flushing") \/ UnlockState("flushing", "print")
  BY <1>1, <1>3 DEF LockState, UnlockState
<1>4. CASE LockState("after", "flushingAgain") \/ UnlockState("flushingAgain", "spawn")
  BY <1>1, <1>4 DEF LockState, UnlockState
<1>5. CASE Exit \/ LoggerLocks \/ LoggerUnlocks
  BY <1>1, <1>5 DEF Exit, LoggerLocks, LoggerUnlocks
<1>6. ASSUME NEW ok \in BOOLEAN, Spawn(ok) PROVE LoggerInv'
  <2>1. eventID \in Ids /\ Shown(eventID)
    BY <1>6 DEF Spawn, Ids
  <2>2. /\ forward' \in [Ids -> {"none", "sending", "full", "done"}]
        /\ \A i \in Ids : forward'[i] # "none" => forward[i] # "none" \/ i = eventID
    BY <1>6 DEF Spawn
  <2>3. QED
    BY <1>1, <1>6, <2>1, <2>2 DEF Spawn
<1>7. CASE LoggerReceives
  <2>1. results # <<>> /\ results \in Seq(Ids)
    BY <1>7 DEF LoggerReceives
  <2>2. /\ Head(results) \in Ids /\ Head(results) = results[1] /\ 1 \in 1..Len(results)
        /\ Tail(results) \in Seq(Ids) /\ Len(Tail(results)) = Len(results) - 1
        /\ \A k \in 1..Len(Tail(results)) : k + 1 \in 1..Len(results) /\ Tail(results)[k] = results[k + 1]
    BY <2>1
  <2>3. /\ result' = Head(results) /\ results' = Tail(results) /\ logger' = "store"
        /\ UNCHANGED <<session, pc, eventID, mutexVars, stateVars, forward, output>>
    BY <1>7 DEF LoggerReceives
  <2>4. LoggerTypeOK' /\ Busy'
    BY <2>2, <2>3 DEF Ids
  <2>5. (\A k \in 1..Len(results) : Shown(results[k]))'
    BY <1>1, <2>2, <2>3
  <2>6. Shown(result)'
    BY <1>1, <2>2, <2>3
  <2>7. EventFirst'
    BY <1>1, <2>3, <2>5, <2>6
  <2>8. QED
    BY <1>1, <2>4, <2>7
<1>8. CASE LoggerStores
  <2>1. result \in Ids /\ Shown(result)
    BY <1>8 DEF LoggerStores, Ids
  <2>2. QED
    BY <1>1, <1>8, <2>1 DEF LoggerStores
<1>9. ASSUME NEW i \in Ids, Forwarded(i) PROVE LoggerInv'
  <2>1. Shown(i) /\ results \in Seq(Ids) /\ UNCHANGED <<session, pc, eventID, mutexVars, stateVars, loggerVars, output>>
    BY <1>9 DEF Forwarded
  <2>2. /\ forward' \in [Ids -> {"none", "sending", "full", "done"}]
        /\ \A j \in Ids : forward'[j] # "none" => forward[j] # "none"
    BY <1>9 DEF Forwarded
  <2>3. /\ results' \in Seq(Ids) /\ Len(results') <= ResultsCap
        /\ \A k \in 1..Len(results') : (k \in 1..Len(results) /\ results'[k] = results[k]) \/ results'[k] = i
    <3>1. CASE Len(results) < ResultsCap
      <4>1. results' = Append(results, i)
        BY <1>9, <3>1 DEF Forwarded
      <4>2. QED
        BY <2>1, <3>1, <4>1
    <3>2. CASE ~ (Len(results) < ResultsCap)
      BY <1>9, <2>1, <3>2 DEF Forwarded
    <3>3. QED
      BY <3>1, <3>2
  <2>4. \A k \in 1..Len(results') : Shown(results'[k])
    BY <2>1, <2>3
  <2>5. EventFirst'
    BY <1>1, <2>1, <2>2, <2>4
  <2>6. QED
    BY <1>1, <2>1, <2>2, <2>3, <2>5
<1>10. CASE UNCHANGED loggingVars
  BY <1>1, <1>10 DEF loggingVars
<1>11. QED
  BY <1>2, <1>3, <1>4, <1>5, <1>6, <1>7, <1>8, <1>9, <1>10

(* ... and over those that print.                                          *)
LEMMA PrintStep ==
  ASSUME LoggerInv,
         \/ FlushAndPrint \/ FlushAgain \/ PrintEvent \/ MainPrintsNext \/ LoggerPrintsNext
         \/ \E i \in Ids : PrintDirectly(i)
  PROVE  LoggerInv'
<1> USE LoggerAssumption DEF LoggerInv, Busy, mutexVars, loggerVars
<1>0. output \in Seq(Item) /\ (eventID # 0 => eventID \in Ids)
  BY DEF LoggerTypeOK, Item, Ids
<1>1. CASE MainPrintsNext
  BY <1>1, PrintNextKeeps DEF MainPrintsNext, LoggerTypeOK, EventFirst, Item
<1>2. CASE LoggerPrintsNext
  BY <1>2, PrintNextKeeps DEF LoggerPrintsNext, LoggerTypeOK, EventFirst, Item
<1>3. CASE FlushAgain
  <2>1. <<>> \in Seq({Event(i) : i \in Ids}) /\ FlushAll(<<>>)
    BY <1>3 DEF FlushAgain
  <2>2. QED
    BY <1>3, <2>1, FlushKeeps DEF FlushAgain, LoggerTypeOK, EventFirst, Item
<1>4. CASE FlushAndPrint
  <2> DEFINE s == <<Event(eventID)>>
  <2>1. eventID \in Ids /\ FlushAll(s)
    BY <1>0, <1>4 DEF FlushAndPrint
  <2>2. s \in Seq({Event(i) : i \in Ids}) /\ Len(s) = 1 /\ s[1] = Event(eventID)
    BY <2>1
  <2> HIDE DEF s
  <2>3. \E k \in 1..Len(s) : s[k] = Event(eventID)
    BY <2>2
  <2>4. /\ ResultsInOrder' /\ output' \in Seq(Item) /\ \A i : Shown(i) => Shown(i)'
        /\ \A i : (\E k \in 1..Len(s) : s[k] = Event(i)) => Shown(i)'
        /\ nextExpectedID' \in 1..MaxEvents + 1 /\ pendingResults' \subseteq pendingResults
    BY <2>1, <2>2, FlushKeeps
  <2>5. Shown(eventID)'
    BY <1>4, <2>3, <2>4 DEF FlushAndPrint
  <2>6. QED
    BY <1>4, <2>1, <2>4, <2>5 DEF FlushAndPrint, LoggerTypeOK, EventFirst, Item
<1>5. ASSUME NEW x \in Item, x.what = "event" \/ (x.what = "direct" /\ Shown(x.id)),
             Prints(<<x>>), UNCHANGED stateVars
      PROVE  /\ ResultsInOrder' /\ output' \in Seq(Item) /\ \A i : Shown(i) => Shown(i)'
             /\ \A i : x = Event(i) => Shown(i)'
  <2> DEFINE s == <<x>>
  <2>1. /\ s \in Seq(Item) /\ 0 \in 0..Len(s) /\ Len(s) = 1
        /\ s[1] = x
    BY DEF Item
  <2>2. output' = output \o s /\ nextExpectedID' = nextExpectedID + 0
    BY <1>5 DEF Prints, stateVars, LoggerTypeOK
  <2> HIDE DEF s
  <2>3. \A k \in 0 + 1..Len(s) : s[k].what = "event" \/ (s[k].what = "direct" /\ Shown(s[k].id))
    <3>1. \A k \in 0 + 1..Len(s) : s[k] = x
      BY <2>1
    <3>2. QED
      BY <1>5, <3>1, Zenon
  <2>4. ResultsInOrder'
    <3>1. /\ \A k \in 1..0 : s[k] = Result(nextExpectedID + (k - 1)) /\ Shown(nextExpectedID + (k - 1))
      OBVIOUS
    <3>2. QED
      BY <2>1, <2>2, <2>3, <3>1, PrintsInOrder
  <2>5. output' \in Seq(Item) /\ \A i : Shown(i) => Shown(i)'
    BY <1>0, <2>1, <2>2, StaysShown
  <2>6. \A i : (\E k \in 1..Len(s) : s[k] = Event(i)) => Shown(i)'
    BY <1>0, <2>1, <2>2, StaysShown
  <2>7. 1 \in 1..Len(s)
    BY <2>1
  <2>8. QED
    BY <2>1, <2>4, <2>5, <2>6, <2>7
<1>6. CASE PrintEvent
  <2>1. /\ Event(eventID) \in Item /\ Event(eventID).what = "event" /\ Prints(<<Event(eventID)>>)
        /\ UNCHANGED stateVars
    BY <1>0, <1>6 DEF PrintEvent, Event, Item
  <2>2. /\ ResultsInOrder' /\ output' \in Seq(Item) /\ (\A i : Shown(i) => Shown(i)') /\ Shown(eventID)'
    BY <1>5, <1>6, <2>1 DEF PrintEvent
  <2>3. QED
    BY <1>6, <2>2 DEF PrintEvent, LoggerTypeOK, EventFirst, Item, stateVars
<1>7. ASSUME NEW i \in Ids, PrintDirectly(i) PROVE LoggerInv'
  <2>1. Direct(i) \in Item /\ Direct(i).what = "direct" /\ Direct(i).id = i
    BY DEF Direct, Item
  <2>2. Shown(i) /\ Prints(<<Direct(i)>>) /\ UNCHANGED stateVars
    BY <1>7 DEF PrintDirectly, EventFirst
  <2>3. ResultsInOrder' /\ output' \in Seq(Item) /\ \A j : Shown(j) => Shown(j)'
    <3>1. Direct(i).what = "direct" /\ Shown(Direct(i).id)
      BY <2>1, <2>2, Zenon
    <3>2. QED
      BY <1>5, <2>1, <2>2, <3>1
  <2>4. /\ forward' \in [Ids -> {"none", "sending", "full", "done"}]
        /\ \A j \in Ids : forward'[j] # "none" => forward[j] # "none"
    BY <1>7 DEF PrintDirectly, LoggerTypeOK
  <2>5. QED
    BY <1>7, <2>3, <2>4 DEF PrintDirectly, LoggerTypeOK, EventFirst, Item, stateVars
<1>8. QED
  BY <1>1, <1>2, <1>3, <1>4, <1>6, <1>7

LEMMA LoggerInvStep == LoggerInv /\ [Next]_vars => LoggerInv'
<1> SUFFICES ASSUME LoggerInv, [Next]_vars PROVE LoggerInv'
  OBVIOUS
<1>1. ASSUME UNCHANGED loggingVars PROVE LoggerInv'
  BY <1>1, QuietStep DEF loggingVars, stateVars
<1>2. ASSUME MainLogs PROVE LoggerInv'
  <2>1. CASE FlushAndPrint \/ FlushAgain \/ PrintEvent \/ MainPrintsNext
    BY <2>1, PrintStep
  <2>2. CASE Receive \/ Lock \/ LockState("before", "flushing") \/ UnlockState("flushing", "print")
             \/ LockState("after", "flushingAgain") \/ UnlockState("flushingAgain", "spawn")
    <3>1. UNCHANGED <<output, nextExpectedID>>
      BY <2>2 DEF Receive, Lock, LockState, UnlockState, stateVars
    <3>2. QED
      BY <2>2, <3>1, QuietStep
  <2>3. QED
    BY <1>2, <2>1, <2>2 DEF MainLogs
<1>3. ASSUME NEW ok \in BOOLEAN, Spawn(ok) PROVE LoggerInv'
  <2>1. UNCHANGED <<output, nextExpectedID>>
    BY <1>3 DEF Spawn, stateVars
  <2>2. QED
    BY <1>3, <2>1, QuietStep
<1>4. ASSUME LoggerStep PROVE LoggerInv'
  <2>1. CASE LoggerPrintsNext
    BY <2>1, PrintStep
  <2>2. CASE LoggerReceives \/ LoggerStores \/ LoggerLocks \/ LoggerUnlocks
    <3>1. UNCHANGED <<output, nextExpectedID>>
      BY <2>2 DEF LoggerReceives, LoggerStores, LoggerLocks, LoggerUnlocks, stateVars
    <3>2. QED
      BY <2>2, <3>1, QuietStep
  <2>3. QED
    BY <1>4, <2>1, <2>2 DEF LoggerStep
<1>5. ASSUME NEW i \in Ids, Forward(i) PROVE LoggerInv'
  <2>1. CASE PrintDirectly(i)
    BY <2>1, PrintStep
  <2>2. CASE Forwarded(i)
    <3>1. UNCHANGED <<output, nextExpectedID>>
      BY <2>2 DEF Forwarded, stateVars
    <3>2. QED
      BY <2>2, <3>1, QuietStep
  <2>3. QED
    BY <1>5, <2>1, <2>2 DEF Forward
<1>6. ASSUME Exit PROVE LoggerInv'
  <2>1. UNCHANGED <<output, nextExpectedID>>
    BY <1>6 DEF Exit, stateVars
  <2>2. QED
    BY <1>6, <2>1, QuietStep
<1>7. QED
  BY <1>1, <1>2, <1>3, <1>4, <1>5, <1>6 DEF Next, Main, SpawnAll, Logger, Leave, vars

LEMMA LoggerInvInit == Init => LoggerInv
<1> SUFFICES ASSUME LoggerInit PROVE LoggerInv
  BY DEF Init
<1> USE LoggerAssumption DEF LoggerInit
<1>1. LoggerTypeOK /\ Busy /\ EventFirst
  BY DEF LoggerTypeOK, Busy, EventFirst
<1>2. ResultsInOrder
  BY DEF ResultsInOrder, ResultsAt
<1>3. QED
  BY <1>1, <1>2 DEF LoggerInv

(* Results come out in the order of their events, none twice and none left *)
(* out, and each behind its event, with any number of events, whatever     *)
(* they go to, and with a login or without.                                *)
THEOREM ResultsStayInOrder == Spec => []ResultsInOrder
<1>1. LoggerInv => ResultsInOrder
  BY DEF LoggerInv
<1>2. QED
  BY <1>1, LoggerInvInit, LoggerInvStep, PTL DEF Spec

--------------------------------------------------------------------------------
(* Who holds what: the mutexes are held at the places of the loop and of   *)
(* the logger where the code is between Lock and Unlock, and by nobody     *)
(* else, and a loop without a login prints with neither in its hands.      *)
Holders ==
  /\ logMutex = "main" <=> pc \in {"flush", "flushAgain"}
  /\ stateMutex = "main" <=> pc \in {"flushing", "flushingAgain"}
  /\ stateMutex = "logger" <=> logger = "flushing"
  /\ session.anonymous => pc \notin {"lock", "flush", "flushAgain"}

LEMMA HoldersStep == LoggerTypeOK /\ Holders /\ [Next]_vars => Holders'
<1> SUFFICES ASSUME LoggerTypeOK, Holders, [Next]_vars PROVE Holders'
  OBVIOUS
<1>1. session' = session
  BY DEF Next, Main, MainLogs, Receive, Lock, FlushAndPrint, FlushAgain, LockState, MainPrintsNext,
     UnlockState, PrintEvent, SpawnAll, Spawn, Logger, LoggerStep, LoggerReceives, LoggerStores,
     LoggerLocks, LoggerPrintsNext, LoggerUnlocks, Forward, Forwarded, PrintDirectly, Leave, Exit,
     vars, loggingVars
<1>2. ASSUME UNCHANGED <<pc, logMutex, stateMutex, logger>> PROVE Holders'
  BY <1>1, <1>2 DEF Holders
<1>3. CASE MainLogs
  BY <1>1, <1>3 DEF MainLogs, Receive, Lock, FlushAndPrint, FlushAgain, LockState, MainPrintsNext,
     UnlockState, PrintEvent, FlushAll, PrintNext, Free, Holders, mutexVars, loggerVars
<1>4. ASSUME NEW ok \in BOOLEAN, Spawn(ok) PROVE Holders'
  BY <1>1, <1>4 DEF Spawn, Holders, mutexVars, loggerVars
<1>5. CASE LoggerStep
  BY <1>1, <1>5 DEF LoggerStep, LoggerReceives, LoggerStores, LoggerLocks, LoggerPrintsNext,
     LoggerUnlocks, Free, Holders, mutexVars, loggerVars
<1>6. ASSUME NEW i \in Ids, Forward(i) PROVE Holders'
  BY <1>2, <1>6 DEF Forward, Forwarded, PrintDirectly, mutexVars, loggerVars
<1>7. CASE Exit
  BY <1>1, <1>7 DEF Exit, Holders, mutexVars, loggerVars
<1>8. CASE UNCHANGED loggingVars
  BY <1>2, <1>8 DEF loggingVars, mutexVars, loggerVars
<1>9. QED
  BY <1>3, <1>4, <1>5, <1>6, <1>7, <1>8 DEF Next, Main, SpawnAll, Logger, Leave, vars

(* Where the loop and the logger's goroutine wait for a mutex.             *)
MainWaits ==
  \/ pc \in {"lock", "print"} /\ ~Free(logMutex)
  \/ pc \in {"flush", "flushAgain", "before", "after"} /\ ~Free(stateMutex)
  \/ pc \in {"flushing", "flushingAgain"} /\ nextExpectedID \in pendingResults /\ ~Free(logMutex)

LoggerWaits ==
  \/ logger \in {"store", "lock"} /\ ~Free(stateMutex)
  \/ logger = "flushing" /\ nextExpectedID \in pendingResults /\ ~Free(logMutex)

(* Whoever waits for a mutex waits for somebody who goes on - the loop for *)
(* the logger's flush, the logger for the loop's - except in LockCycle,    *)
(* and there only with a login: the anonymous loop, which takes the two    *)
(* mutexes in the logger's order, is never in a deadlock.                  *)
Deadlocked == LockCycle /\ ~session.anonymous

HolderGoesOn ==
  /\ MainWaits => (logger = "flushing" /\ ~LoggerWaits) \/ Deadlocked
  /\ LoggerWaits => (Running /\ pc # "recv" /\ ~MainWaits) \/ Deadlocked

THEOREM OnlyTheLoginDeadlocks == Spec => []HolderGoesOn
<1>1. Init => Holders
  BY LoggerAssumption DEF Init, LoggerInit, Holders
<1>2. LoggerInv => LoggerTypeOK
  BY DEF LoggerInv
<1>3. LoggerTypeOK /\ Holders => HolderGoesOn
  BY DEF LoggerTypeOK, Holders, HolderGoesOn, MainWaits, LoggerWaits, Deadlocked, LockCycle, Free,
     Running
<1>4. QED
  BY <1>1, <1>2, <1>3, HoldersStep, LoggerInvInit, LoggerInvStep, PTL DEF Spec

--------------------------------------------------------------------------------
(* A finite set of numbers has a greatest.                                 *)
LEMMA FiniteHasMax ==
  ASSUME NEW T \in SUBSET Nat, IsFiniteSet(T), T # {}
  PROVE  \E x \in T : \A y \in T : y <= x
<1> DEFINE up(x) == {y \in T : y > x}
           U == {up(x) : x \in T}
<1>0. \A x \in T : x \in Nat
  OBVIOUS
<1>1. U \subseteq FiniteSubsetsOf(T) /\ U # {}
  <2>1. \A x \in T : up(x) \in SUBSET T /\ IsFiniteSet(up(x))
    BY FS_Subset
  <2>2. QED
    BY <2>1 DEF FiniteSubsetsOf
<1>2. IsWellFoundedOn(StrictSubsetOrdering(T), FiniteSubsetsOf(T))
  BY FS_StrictSubsetOrderingWellFounded
<1>3. PICK m \in U : \A v \in U : ~ (<<v, m>> \in StrictSubsetOrdering(T))
  BY <1>1, <1>2, WFMin
<1>4. PICK x \in T : m = up(x)
  BY <1>3
<1>5. ASSUME NEW y \in T, y > x PROVE FALSE
  <2>1. up(y) \subseteq up(x) /\ y \in up(x) /\ y \notin up(y)
    <3>1. x \in Nat /\ y \in Nat
      BY <1>0
    <3>2. \A z \in T : z > y => z > x
      BY <1>0, <1>5, <3>1
    <3>3. ~ (y > y)
      BY <3>1
    <3>4. up(y) \subseteq up(x)
      BY <3>2
    <3>5. y \in up(x) /\ y \notin up(y)
      BY <1>5, <3>3
    <3>6. QED
      BY <3>4, <3>5
  <2>2. <<up(y), up(x)>> \in StrictSubsetOrdering(T)
    BY <2>1 DEF StrictSubsetOrdering
  <2>3. QED
    BY <1>3, <1>4, <2>2
<1>6. QED
  BY <1>0, <1>5

LEMMA InSequence ==
  ASSUME NEW P, NEW s \in Seq(P)
  PROVE  ToSet(s) \subseteq P /\ \A e : e \in ToSet(s) <=> \E i \in 1..Len(s) : s[i] = e
BY DEF ToSet

LEMMA HeadAndTail ==
  ASSUME NEW P, NEW s \in Seq(P), s # <<>>
  PROVE  /\ Head(s) \in P /\ Tail(s) \in Seq(P) /\ Len(Tail(s)) <= Len(s)
         /\ \A e : e \in ToSet(s) => e = Head(s) \/ e \in ToSet(Tail(s))
<1>1. /\ Head(s) \in P /\ Tail(s) \in Seq(P) /\ Len(Tail(s)) = Len(s) - 1 /\ Head(s) = s[1]
      /\ \A i \in 2..Len(s) : i - 1 \in 1..Len(Tail(s)) /\ Tail(s)[i - 1] = s[i]
  OBVIOUS
<1>2. ASSUME NEW i \in 1..Len(s), i # 1 PROVE s[i] \in ToSet(Tail(s))
  <2>1. i - 1 \in 1..Len(Tail(s)) /\ Tail(s)[i - 1] = s[i]
    BY <1>1, <1>2
  <2>2. QED
    BY <1>1, <2>1, InSequence
<1>3. QED
  BY <1>1, <1>2, InSequence

LEMMA AtTheEnd ==
  ASSUME NEW P, NEW s \in Seq(P), NEW e \in P
  PROVE  /\ Append(s, e) \in Seq(P) /\ Len(Append(s, e)) = Len(s) + 1
         /\ \A f : f \in ToSet(s) => f \in ToSet(Append(s, e))
         /\ e \in ToSet(Append(s, e))
<1> DEFINE t == Append(s, e)
<1>1. /\ t \in Seq(P) /\ Len(t) = Len(s) + 1 /\ Len(t) \in 1..Len(t) /\ t[Len(t)] = e
      /\ \A i \in 1..Len(s) : i \in 1..Len(t) /\ t[i] = s[i]
  OBVIOUS
<1> HIDE DEF t
<1>2. /\ \A f : f \in ToSet(s) <=> \E i \in 1..Len(s) : s[i] = f
      /\ \A f : f \in ToSet(t) <=> \E i \in 1..Len(t) : t[i] = f
  BY <1>1, InSequence
<1>3. (\A f : f \in ToSet(s) => f \in ToSet(t)) /\ e \in ToSet(t)
  BY <1>1, <1>2
<1>4. QED
  BY <1>1, <1>3 DEF t

LEMMA FetchPage == \A f \in Fetches : f[1] \in Pages
BY DEF Fetches

(* The steps of the storage.  Only Store and Clear change the list.        *)
LEMMA StorageUnchanged ==
  ASSUME StorageInv, UNCHANGED storageVars, PostedOnce'
  PROVE  StorageInv'
<1> USE DEF storageVars, streamVars, pageVars
<1>1. StorageTypeOK' /\ StorageFunctions'
  BY DEF StorageInv, StorageTypeOK, StorageFunctions
<1>2. Listed' /\ StreamsOpen'
  BY DEF StorageInv, Listed, StreamsOpen, Added
<1>3. PagesMissNothing' /\ \A f \in joined' : AnswerMissesNothing(f)'
  BY DEF StorageInv, PagesMissNothing, MissesNothing, AnswerMissesNothing, Comes
<1>4. QED
  BY <1>1, <1>2, <1>3, Zenon DEF StorageInv

(* What is done stays so, what is gone or missed too, and what comes to a  *)
(* page that has all still does: then it has all of it still.              *)
LEMMA NothingIsLost ==
  ASSUME StorageInv, whole' \subseteq whole, joined' \subseteq joined,
         \A e \in Posts : post'[e] = "done" => post[e] = "done",
         gone \subseteq gone',
         \A p \in whole' : missed[p] \subseteq missed'[p],
         \A p \in whole', e \in Posts :
           e \in shown[p] \/ Comes(e, p) => e \in missed'[p] \/ e \in shown'[p] \/ Comes(e, p)',
         \A f \in joined' : missed[f[1]] \subseteq missed'[f[1]],
         \A f \in joined', e \in Posts :
           e \in answer[f] \/ Comes(e, f[1])
             => e \in missed'[f[1]] \/ e \in answer'[f] \/ (e \in ToSet(queue'[f[1]]) \cup ToSet(wire'[f[1]]))
  PROVE  PagesMissNothing' /\ \A f \in joined' : AnswerMissesNothing(f)'
<1>1. ASSUME NEW p \in whole' PROVE MissesNothing(p)'
  <2>1. MissesNothing(p)
    BY <1>1 DEF StorageInv, PagesMissNothing
  <2>2. QED
    BY <1>1, <2>1 DEF MissesNothing
<1>2. ASSUME NEW f \in joined' PROVE AnswerMissesNothing(f)'
  <2>1. AnswerMissesNothing(f)
    BY <1>2 DEF StorageInv
  <2>2. QED
    BY <1>2, <2>1 DEF AnswerMissesNothing, Comes
<1>3. QED
  BY <1>1, <1>2 DEF PagesMissNothing

(* A post that is on its way to the server.                                *)
LEMMA PostComes ==
  ASSUME StorageInv, PostedOnce', NEW e \in Posts, post[e] = "unsent",
         post' = [post EXCEPT ![e] = "new"],
         UNCHANGED <<events, streamVars, pageVars, joined, whole, missed, gone>>
  PROVE  StorageInv'
<1> USE DEF streamVars, pageVars
<1>1. \A f \in Posts : (Added(f)' <=> Added(f)) /\ (post'[f] = "done" => post[f] = "done")
  BY DEF Added, StorageInv, StorageTypeOK
<1>2. StorageTypeOK' /\ StorageFunctions'
  BY DEF StorageInv, StorageTypeOK, StorageFunctions
<1>3. Listed' /\ StreamsOpen'
  <2>1. \A i \in 1..Len(events) : events[i] \in Posts
    BY DEF StorageInv, StorageTypeOK
  <2>2. QED
    BY <1>1, <2>1 DEF StorageInv, Listed, StreamsOpen
<1>4. PagesMissNothing' /\ \A f \in joined' : AnswerMissesNothing(f)'
  BY <1>1, NothingIsLost DEF Comes
<1>5. QED
  BY <1>2, <1>3, <1>4 DEF StorageInv

LEMMA StoreStep ==
  ASSUME StorageInv, PostedOnce', NEW e \in Posts, Store(e)
  PROVE  StorageInv'
<1> DEFINE list == <<e>> \o events
           n == IF Len(list) > Capacity THEN Capacity ELSE Len(list)
<1>1. /\ post[e] = "new" /\ events' = SubSeq(list, 1, n)
      /\ gone' = gone \cup (ToSet(list) \ ToSet(events'))
      /\ post' = [post EXCEPT ![e] = "stored"]
      /\ UNCHANGED <<streamVars, pageVars, joined, whole, missed>>
  BY DEF Store
<1>2. /\ events \in Seq(Posts) /\ Len(events) <= Capacity /\ Capacity \in Nat \ {0}
      /\ post \in [Posts -> {"unsent", "new", "stored", "done"}]
  BY StorageAssumption DEF StorageInv, StorageTypeOK
<1>3. /\ list \in Seq(Posts) /\ Len(list) = Len(events) + 1 /\ list[1] = e
      /\ \A i \in 2..Len(list) : i - 1 \in 1..Len(events) /\ list[i] = events[i - 1]
      /\ \A i \in 1..Len(events) : i + 1 \in 2..Len(list) /\ list[i + 1] = events[i]
  BY <1>2
<1> HIDE DEF list
<1>4. n \in 1..Len(list) /\ n <= Capacity
  BY <1>2, <1>3
<1> HIDE DEF n
<1>5. /\ events' \in Seq(Posts) /\ Len(events') = n
      /\ \A i \in 1..n : events'[i] = list[i] /\ i \in 1..Len(list)
  BY <1>1, <1>3, <1>4
<1>6. /\ ~ Added(e) /\ \A f \in Posts : (Added(f)' <=> Added(f) \/ f = e)
      /\ \A f \in Posts : post'[f] = "done" => post[f] = "done"
  BY <1>1, <1>2 DEF Added
<1>7. \A i \in 1..Len(events) : events[i] \in Posts /\ Added(events[i]) /\ events[i] # e
  BY <1>2, <1>6 DEF StorageInv, Listed
<1>8. /\ events'[1] = e /\ 1 \in 1..n
      /\ \A i \in 1..n : i # 1 => i - 1 \in 1..Len(events) /\ events'[i] = events[i - 1]
  BY <1>2, <1>3, <1>4, <1>5
<1>9. \A f : f = e \/ f \in ToSet(events) => f \in ToSet(list)
  <2>1. \A f : f \in ToSet(list) <=> \E i \in 1..Len(list) : list[i] = f
    BY <1>3, InSequence
  <2>2. \A f : f \in ToSet(events) <=> \E i \in 1..Len(events) : events[i] = f
    BY <1>2, InSequence
  <2>3. ASSUME NEW f, NEW i \in 1..Len(events), events[i] = f PROVE f \in ToSet(list)
    <3>1. i + 1 \in 1..Len(list) /\ list[i + 1] = f
      BY <1>2, <1>3, <2>3
    <3>2. QED
      BY <2>1, <3>1
  <2>4. 1 \in 1..Len(list) /\ list[1] = e
    BY <1>2, <1>3
  <2>5. QED
    BY <2>1, <2>2, <2>3, <2>4
<1>10. StorageTypeOK'
  <2>1. IsInjective(events')
    <3>1. DOMAIN events' = 1..n
      BY <1>4, <1>5
    <3>2. \A i, j \in 1..Len(events) : events[i] = events[j] => i = j
      BY <1>2 DEF StorageInv, StorageTypeOK, IsInjective
    <3>3. ASSUME NEW i \in 1..n, NEW j \in 1..n, events'[i] = events'[j] PROVE i = j
      <4>1. CASE i = 1 \/ j = 1
        BY <1>7, <1>8, <3>3, <4>1
      <4>2. CASE i # 1 /\ j # 1
        <5>1. i - 1 = j - 1
          BY <1>8, <3>2, <3>3, <4>2
        <5>2. QED
          BY <1>4, <5>1
      <4>3. QED
        BY <4>1, <4>2
    <3>4. QED
      BY <3>1, <3>3 DEF IsInjective
  <2>2. ToSet(list) \subseteq Posts
    BY <1>3, InSequence
  <2>3. post' \in [Posts -> {"unsent", "new", "stored", "done"}]
    BY <1>1, <1>2
  <2>4. gone' \subseteq Posts
    BY <1>1, <2>2 DEF StorageInv, StorageTypeOK
  <2>5. QED
    BY <1>1, <1>4, <1>5, <2>1, <2>3, <2>4 DEF StorageInv, StorageTypeOK, streamVars, pageVars
<1>11. StorageFunctions' /\ StreamsOpen'
  BY <1>1 DEF StorageInv, StorageFunctions, StreamsOpen, streamVars, pageVars
<1>12. Listed'
  <2>1. (\A i \in 1..Len(events) : Added(events[i]))'
    <3>1. \A i \in 1..Len(events') : events'[i] \in Posts /\ (events'[i] = e \/ Added(events'[i]))
      BY <1>4, <1>5, <1>7, <1>8
    <3>2. \A f \in Posts : f = e \/ Added(f) => post'[f] \in {"stored", "done"}
      BY <1>6 DEF Added
    <3>3. QED
      BY <3>1, <3>2 DEF Added
  <2>2. ASSUME NEW f \in Posts, Added(f)', f \notin gone' PROVE f \in ToSet(events')
    <3>1. f = e \/ f \in ToSet(events)
      BY <1>1, <1>6, <2>2 DEF StorageInv, Listed
    <3>2. QED
      BY <1>1, <1>9, <2>2, <3>1
  <2>3. QED
    BY <2>1, <2>2 DEF Listed
<1>13. PagesMissNothing' /\ \A f \in joined' : AnswerMissesNothing(f)'
  BY <1>1, <1>6, NothingIsLost DEF Comes, streamVars, pageVars
<1>14. QED
  BY <1>10, <1>11, <1>12, <1>13 DEF StorageInv

(* An open stream is sent what is published, or misses it.                 *)
LEMMA PublishStep ==
  ASSUME StorageInv, PostedOnce', NEW e \in Posts, Publish(e)
  PROVE  StorageInv'
<1>1. /\ post[e] = "stored"
      /\ queue' = [p \in Pages |-> IF HasRoom(p) THEN Append(queue[p], e) ELSE queue[p]]
      /\ missed' = [p \in Pages |->
           IF stream[p] = "open" /\ ~HasRoom(p) THEN missed[p] \cup {e} ELSE missed[p]]
      /\ post' = [post EXCEPT ![e] = "done"]
      /\ UNCHANGED <<events, stream, wire, pageVars, joined, whole, gone>>
  BY DEF Publish
<1>2. /\ post \in [Posts -> {"unsent", "new", "stored", "done"}]
      /\ queue \in [Pages -> Seq(Posts)] /\ missed \in [Pages -> SUBSET Posts]
      /\ \A p \in Pages : Len(queue[p]) <= StreamCap
      /\ StreamCap \in Nat
  BY StorageAssumption DEF StorageInv, StorageTypeOK, StorageFunctions
<1>3. \A f \in Posts : (Added(f)' <=> Added(f)) /\ (post'[f] = "done" => post[f] = "done" \/ f = e)
  BY <1>1, <1>2 DEF Added
<1>4. ASSUME NEW p \in Pages
      PROVE  /\ queue'[p] \in Seq(Posts) /\ Len(queue'[p]) <= StreamCap
             /\ \A f : f \in ToSet(queue[p]) => f \in ToSet(queue'[p])
             /\ stream[p] = "open" => e \in ToSet(queue'[p]) \/ e \in missed'[p]
  <2>1. CASE HasRoom(p)
    <3>1. queue'[p] = Append(queue[p], e) /\ queue[p] \in Seq(Posts) /\ Len(queue[p]) < StreamCap
      BY <1>1, <1>2, <2>1 DEF HasRoom
    <3>2. /\ queue'[p] \in Seq(Posts) /\ Len(queue'[p]) = Len(queue[p]) + 1
          /\ \A f : f \in ToSet(queue[p]) => f \in ToSet(queue'[p])
          /\ e \in ToSet(queue'[p])
      BY <3>1, AtTheEnd
    <3>3. QED
      BY <1>2, <3>1, <3>2
  <2>2. CASE ~ HasRoom(p)
    BY <1>1, <1>2, <2>2
  <2>3. QED
    BY <2>1, <2>2
<1>5. \A p \in Pages : missed[p] \subseteq missed'[p]
  BY <1>1
<1>6. queue' \in [Pages -> Seq(Posts)] /\ missed' \in [Pages -> SUBSET Posts]
  BY <1>1, <1>2, <1>4
<1>7. StorageTypeOK'
  <2>1. post' \in [Posts -> {"unsent", "new", "stored", "done"}]
    BY <1>1, <1>2
  <2>2. QED
    BY <1>1, <1>4, <1>6, <2>1 DEF StorageInv, StorageTypeOK, pageVars
<1>8. StorageFunctions' /\ StreamsOpen'
  BY <1>1, <1>6 DEF StorageInv, StorageFunctions, StreamsOpen, pageVars
<1>9. Listed'
  <2>1. \A i \in 1..Len(events) : events[i] \in Posts
    BY DEF StorageInv, StorageTypeOK
  <2>2. QED
    BY <1>1, <1>3, <2>1 DEF StorageInv, Listed
<1>10. ASSUME NEW p \in whole' PROVE MissesNothing(p)'
  <2>1. p \in Pages /\ stream[p] = "open" /\ MissesNothing(p)
    BY <1>1, <1>10 DEF StorageInv, StorageTypeOK, StreamsOpen, PagesMissNothing
  <2>2. /\ e \in ToSet(queue'[p]) \/ e \in missed'[p]
        /\ \A f : f \in ToSet(queue[p]) => f \in ToSet(queue'[p])
        /\ missed[p] \subseteq missed'[p] /\ shown'[p] = shown[p] /\ wire'[p] = wire[p]
    BY <1>1, <1>4, <1>5, <2>1 DEF pageVars
  <2>3. QED
    BY <1>1, <1>3, <2>1, <2>2 DEF MissesNothing, Comes
<1>11. ASSUME NEW f \in joined' PROVE AnswerMissesNothing(f)'
  <2>1. f[1] \in Pages /\ stream[f[1]] = "open" /\ AnswerMissesNothing(f)
    BY <1>1, <1>11, FetchPage DEF StorageInv, StorageTypeOK, StreamsOpen
  <2>2. /\ e \in ToSet(queue'[f[1]]) \/ e \in missed'[f[1]]
        /\ \A g : g \in ToSet(queue[f[1]]) => g \in ToSet(queue'[f[1]])
        /\ missed[f[1]] \subseteq missed'[f[1]] /\ answer'[f] = answer[f] /\ wire'[f[1]] = wire[f[1]]
    BY <1>1, <1>4, <1>5, <2>1 DEF pageVars
  <2>3. QED
    BY <1>1, <1>3, <2>1, <2>2 DEF AnswerMissesNothing, Comes
<1>12. QED
  BY <1>7, <1>8, <1>9, <1>10, <1>11 DEF StorageInv, PagesMissNothing

LEMMA StreamStep ==
  ASSUME StorageInv, PostedOnce', NEW p \in Pages, PageStep(p)
  PROVE  StorageInv'
<1>1. /\ queue \in [Pages -> Seq(Posts)] /\ wire \in [Pages -> Seq(Posts)]
      /\ shown \in [Pages -> SUBSET Posts] /\ missed \in [Pages -> SUBSET Posts]
      /\ stream \in [Pages -> {"closed", "open"}]
      /\ \A q \in Pages : Len(queue[q]) <= StreamCap
      /\ StreamCap \in Nat /\ whole \subseteq Pages /\ joined \subseteq Fetches
      /\ (\A q \in whole : stream[q] = "open") /\ \A f \in joined : stream[f[1]] = "open"
  BY StorageAssumption DEF StorageInv, StorageTypeOK, StorageFunctions, StreamsOpen
<1>2. /\ UNCHANGED <<post, events, failed, fetch, answer, gone>>
      /\ whole' \subseteq whole /\ joined' \subseteq joined
  BY DEF PageStep, OpenStream, WriteEvent, StreamedEvent, CloseStream, pageVars
<1> DEFINE Types ==
             /\ stream' \in [Pages -> {"closed", "open"}]
             /\ queue' \in [Pages -> Seq(Posts)] /\ wire' \in [Pages -> Seq(Posts)]
             /\ shown' \in [Pages -> SUBSET Posts] /\ missed' \in [Pages -> SUBSET Posts]
             /\ \A q \in Pages : Len(queue'[q]) <= StreamCap
           Opens ==
             (\A q \in whole' : stream'[q] = "open") /\ \A f \in joined' : stream'[f[1]] = "open"
           Keeps(q) == missed[q] \subseteq missed'[q] /\ \A e \in Posts : Comes(e, q) => Comes(e, q)'
<1>3. ASSUME Types, Opens,
             PagesMissNothing' /\ \A f \in joined' : AnswerMissesNothing(f)'
      PROVE  StorageInv'
  <2>1. StorageTypeOK'
    BY <1>1, <1>2, <1>3 DEF StorageInv, StorageTypeOK
  <2>2. StorageFunctions' /\ Listed'
    BY <1>2, <1>3 DEF StorageInv, StorageFunctions, Listed, Added
  <2>3. StreamsOpen'
    BY <1>2, <1>3 DEF StorageInv, StreamsOpen
  <2>4. QED
    BY <1>3, <2>1, <2>2, <2>3 DEF StorageInv
<1>4. CASE OpenStream(p)
  <2>1. stream' = [stream EXCEPT ![p] = "open"] /\ UNCHANGED <<queue, wire, shown, missed, joined, whole>>
    BY <1>4 DEF OpenStream, pageVars
  <2>2. Types /\ Opens
    BY <1>1, <2>1, FetchPage
  <2>3. PagesMissNothing' /\ \A f \in joined' : AnswerMissesNothing(f)'
    BY <1>2, <2>1, NothingIsLost DEF Comes
  <2>4. QED
    BY <1>3, <2>2, <2>3
<1>5. CASE CloseStream(p)
  <2>1. /\ stream' = [stream EXCEPT ![p] = "closed"]
        /\ queue' = [queue EXCEPT ![p] = <<>>] /\ wire' = [wire EXCEPT ![p] = <<>>]
        /\ joined' = {f \in joined : f[1] # p} /\ whole' = whole \ {p}
        /\ missed' = [missed EXCEPT ![p] = {}] /\ UNCHANGED shown
    BY <1>5 DEF CloseStream, pageVars
  <2>2. Types
    BY <1>1, <2>1
  <2>3. \A q \in Pages : q # p =>
          /\ stream'[q] = stream[q] /\ queue'[q] = queue[q] /\ wire'[q] = wire[q]
          /\ missed'[q] = missed[q]
    BY <1>1, <2>1
  <2>4. (\A q \in whole' : q \in Pages /\ q # p) /\ \A f \in joined' : f[1] \in Pages /\ f[1] # p
    BY <1>1, <2>1, FetchPage
  <2>5. Opens
    BY <1>1, <1>2, <2>3, <2>4
  <2>6. PagesMissNothing' /\ \A f \in joined' : AnswerMissesNothing(f)'
    BY <1>2, <2>1, <2>3, <2>4, NothingIsLost DEF Comes
  <2>7. QED
    BY <1>3, <2>2, <2>5, <2>6
<1>6. CASE WriteEvent(p)
  <2> DEFINE s == queue[p]
             e == Head(s)
  <2>1. /\ s # <<>> /\ queue' = [queue EXCEPT ![p] = Tail(@)]
        /\ wire' = [wire EXCEPT ![p] = Append(@, e)]
        /\ UNCHANGED <<stream, shown, missed, joined, whole>>
    BY <1>6 DEF WriteEvent, pageVars
  <2>2. /\ e \in Posts /\ Tail(s) \in Seq(Posts) /\ Len(Tail(s)) <= Len(s)
        /\ \A f : f \in ToSet(s) => f = e \/ f \in ToSet(Tail(s))
    BY <1>1, <2>1, HeadAndTail
  <2>3. /\ Append(wire[p], e) \in Seq(Posts)
        /\ \A f : f \in ToSet(wire[p]) => f \in ToSet(Append(wire[p], e))
        /\ e \in ToSet(Append(wire[p], e))
    BY <1>1, <2>2, AtTheEnd
  <2> HIDE DEF e
  <2>4. /\ queue'[p] = Tail(s) /\ wire'[p] = Append(wire[p], e)
        /\ \A q \in Pages : q # p => queue'[q] = queue[q] /\ wire'[q] = wire[q]
    BY <1>1, <2>1
  <2>5. Types /\ Opens
    <3>1. queue' \in [Pages -> Seq(Posts)] /\ wire' \in [Pages -> Seq(Posts)]
      BY <1>1, <2>1, <2>2, <2>3
    <3>2. ASSUME NEW q \in Pages PROVE Len(queue'[q]) <= StreamCap
      <4>1. Len(s) <= StreamCap /\ Len(s) \in Nat /\ Len(Tail(s)) \in Nat
        BY <1>1, <2>2
      <4>2. CASE q = p
        BY <1>1, <2>2, <2>4, <4>1, <4>2
      <4>3. CASE q # p
        BY <1>1, <2>4, <4>3
      <4>4. QED
        BY <4>2, <4>3
    <3>3. UNCHANGED <<stream, shown, missed, joined, whole>>
      BY <2>1
    <3>4. QED
      BY <1>1, <3>1, <3>2, <3>3
  <2>6. \A q \in Pages, f \in Posts : Comes(f, q) => f \in ToSet(queue'[q]) \cup ToSet(wire'[q])
    BY <2>2, <2>3, <2>4 DEF Comes
  <2>7. PagesMissNothing' /\ \A f \in joined' : AnswerMissesNothing(f)'
    <3>1. (\A q \in whole' : q \in Pages) /\ \A f \in joined' : f[1] \in Pages
      BY <1>1, <1>2, FetchPage
    <3>2. QED
      BY <1>2, <2>1, <2>6, <3>1, NothingIsLost DEF Comes
  <2>8. QED
    BY <1>3, <2>5, <2>7
<1>7. CASE StreamedEvent(p)
  <2> DEFINE s == wire[p]
             e == Head(s)
             crosses == \E f \in Fetches : f[1] = p /\ fetch[f] = "answered" /\ e \notin answer[f]
  <2>1. /\ s # <<>> /\ wire' = [wire EXCEPT ![p] = Tail(@)]
        /\ shown' = [shown EXCEPT ![p] = @ \cup {e}]
        /\ missed' = IF crosses THEN [missed EXCEPT ![p] = @ \cup {e}] ELSE missed
        /\ UNCHANGED <<stream, queue, joined, whole>>
    BY <1>7 DEF StreamedEvent
  <2>2. /\ e \in Posts /\ Tail(s) \in Seq(Posts)
        /\ \A f : f \in ToSet(s) => f = e \/ f \in ToSet(Tail(s))
    BY <1>1, <2>1, HeadAndTail
  <2> HIDE DEF e
  <2>3. /\ wire'[p] = Tail(s) /\ shown'[p] = shown[p] \cup {e}
        /\ \A q \in Pages : q # p => wire'[q] = wire[q] /\ shown'[q] = shown[q]
        /\ \A q \in Pages : missed[q] \subseteq missed'[q] /\ shown[q] \subseteq shown'[q]
        /\ crosses => e \in missed'[p]
    BY <1>1, <2>1
  <2>4. Types /\ Opens
    <3>1. wire' \in [Pages -> Seq(Posts)] /\ shown' \in [Pages -> SUBSET Posts]
      BY <1>1, <2>1, <2>2
    <3>2. missed' \in [Pages -> SUBSET Posts]
      BY <1>1, <2>1, <2>2
    <3>3. QED
      BY <1>1, <2>1, <3>1, <3>2
  <2>5. \A q \in Pages, f \in Posts :
          Comes(f, q) => (q = p /\ f = e) \/ f \in ToSet(queue'[q]) \cup ToSet(wire'[q])
    BY <2>1, <2>2, <2>3 DEF Comes
  <2>6. ASSUME NEW f \in joined', f[1] = p PROVE e \in missed'[p] \/ e \in answer'[f]
    <3>1. f \in Fetches /\ fetch[f] = "answered"
      BY <1>1, <1>2, <2>6 DEF StorageInv, StreamsOpen
    <3>2. QED
      BY <1>2, <2>3, <2>6, <3>1
  <2> HIDE DEF crosses
  <2>7. PagesMissNothing' /\ \A f \in joined' : AnswerMissesNothing(f)'
    <3>1. (\A q \in whole' : q \in Pages) /\ \A f \in joined' : f[1] \in Pages
      BY <1>1, <1>2, FetchPage
    <3>2. \A q \in whole', f \in Posts :
            f \in shown[q] \/ Comes(f, q) => f \in missed'[q] \/ f \in shown'[q] \/ Comes(f, q)'
      BY <2>3, <2>5, <3>1 DEF Comes
    <3>3. \A f \in joined', g \in Posts :
            g \in answer[f] \/ Comes(g, f[1])
              => g \in missed'[f[1]] \/ g \in answer'[f] \/ (g \in ToSet(queue'[f[1]]) \cup ToSet(wire'[f[1]]))
      BY <1>2, <2>5, <2>6, <3>1
    <3>4. QED
      BY <1>2, <2>3, <3>1, <3>2, <3>3, NothingIsLost
  <2>8. QED
    BY <1>3, <2>4, <2>7
<1>8. QED
  BY <1>4, <1>5, <1>6, <1>7 DEF PageStep

(* An answer read with the stream open has all that is not on its way, and *)
(* so has the page that puts it in place of what it shows.                 *)
LEMMA FetchingStep ==
  ASSUME StorageInv, PostedOnce', NEW f \in Fetches, FetchStep(f)
  PROVE  StorageInv'
<1>1. /\ fetch \in [Fetches -> {"none", "clearing", "asked", "answered", "over"}]
      /\ answer \in [Fetches -> SUBSET Posts] /\ shown \in [Pages -> SUBSET Posts]
      /\ (\A g \in Fetches : answer[g] # {} => fetch[g] = "answered")
      /\ failed \subseteq Pages /\ whole \subseteq Pages /\ joined \subseteq Fetches
      /\ events \in Seq(Posts) /\ gone \subseteq Posts /\ f[1] \in Pages
      /\ (\A q \in whole : stream[q] = "open")
      /\ \A g \in joined : fetch[g] = "answered" /\ stream[g[1]] = "open"
  BY FetchPage DEF StorageInv, StorageTypeOK, StorageFunctions, StreamsOpen
<1>2. UNCHANGED <<post, streamVars, missed>> /\ gone \subseteq gone'
  BY DEF FetchStep, HandleEvents, ApplyAnswer, FetchFails, ClickClear, Clear, ClearFails
<1>3. ToSet(events) \subseteq Posts
  BY <1>1, InSequence
<1> DEFINE Types ==
             /\ fetch' \in [Fetches -> {"none", "clearing", "asked", "answered", "over"}]
             /\ answer' \in [Fetches -> SUBSET Posts] /\ shown' \in [Pages -> SUBSET Posts]
             /\ \A g \in Fetches : answer'[g] # {} => fetch'[g] = "answered"
             /\ failed' \subseteq Pages /\ whole' \subseteq Pages /\ joined' \subseteq Fetches
           Opens ==
             /\ \A q \in whole' : stream[q] = "open"
             /\ \A g \in joined' : fetch'[g] = "answered" /\ stream[g[1]] = "open"
           HaveAll == PagesMissNothing' /\ \A g \in joined' : AnswerMissesNothing(g)'
<1>4. ASSUME Types, Opens, HaveAll, UNCHANGED <<events, gone>> PROVE StorageInv'
  <2>1. StorageTypeOK'
    BY <1>2, <1>4 DEF StorageInv, StorageTypeOK, streamVars
  <2>2. StorageFunctions' /\ Listed'
    BY <1>2, <1>4 DEF StorageInv, StorageFunctions, Listed, Added, streamVars
  <2>3. StreamsOpen'
    BY <1>2, <1>4 DEF StreamsOpen, streamVars
  <2>4. QED
    BY <1>4, <2>1, <2>2, <2>3 DEF StorageInv
<1>5. CASE HandleEvents(f)
  <2>1. /\ fetch[f] = "asked" /\ fetch' = [fetch EXCEPT ![f] = "answered"]
        /\ answer' = [answer EXCEPT ![f] = ToSet(events)]
        /\ joined' = IF stream[f[1]] = "open" THEN joined \cup {f} ELSE joined
        /\ UNCHANGED <<events, gone, shown, failed, whole>>
    BY <1>5 DEF HandleEvents
  <2>2. Types /\ Opens
    BY <1>1, <1>3, <2>1
  <2>3. f \notin joined
    BY <1>1, <2>1
  <2>4. PagesMissNothing'
    BY <1>2, <2>1 DEF StorageInv, PagesMissNothing, MissesNothing, Comes, streamVars
  <2>5. ASSUME NEW g \in joined' PROVE AnswerMissesNothing(g)'
    <3>1. CASE g = f
      <4>1. answer'[f] = ToSet(events)
        BY <1>1, <2>1
      <4>2. \A e \in Posts : post[e] = "done" /\ e \notin gone => e \in ToSet(events)
        BY DEF StorageInv, Listed, Added
      <4>3. QED
        BY <1>2, <2>1, <3>1, <4>1, <4>2 DEF AnswerMissesNothing
    <3>2. CASE g # f
      <4>1. g \in joined /\ AnswerMissesNothing(g)
        BY <2>1, <2>5, <3>2 DEF StorageInv
      <4>2. answer'[g] = answer[g]
        BY <1>1, <2>1, <3>2, <4>1
      <4>3. QED
        BY <1>2, <2>1, <4>1, <4>2 DEF AnswerMissesNothing, Comes, streamVars
    <3>3. QED
      BY <3>1, <3>2
  <2>6. QED
    BY <1>4, <2>1, <2>2, <2>4, <2>5
<1>6. CASE ApplyAnswer(f)
  <2>1. /\ fetch' = [fetch EXCEPT ![f] = "over"] /\ answer' = [answer EXCEPT ![f] = {}]
        /\ shown' = [shown EXCEPT ![f[1]] = answer[f]] /\ failed' = failed \ {f[1]}
        /\ joined' = joined \ {f}
        /\ whole' = IF f \in joined THEN whole \cup {f[1]} ELSE whole \ {f[1]}
        /\ UNCHANGED <<events, gone>>
    BY <1>6 DEF ApplyAnswer
  <2>2. Types /\ Opens
    <3>1. Types
      BY <1>1, <2>1
    <3>2. Opens
      BY <1>1, <2>1
    <3>3. QED
      BY <3>1, <3>2
  <2>3. ASSUME NEW q \in whole' PROVE MissesNothing(q)'
    <3>1. CASE q = f[1]
      <4>1. f \in joined /\ shown'[q] = answer[f]
        BY <1>1, <2>1, <2>3, <3>1
      <4>2. AnswerMissesNothing(f)
        BY <4>1 DEF StorageInv
      <4>3. QED
        BY <1>2, <2>1, <3>1, <4>1, <4>2 DEF AnswerMissesNothing, MissesNothing, Comes, streamVars
    <3>2. CASE q # f[1]
      <4>1. q \in whole /\ q \in Pages /\ shown'[q] = shown[q]
        BY <1>1, <2>1, <2>3, <3>2
      <4>2. MissesNothing(q)
        BY <4>1 DEF StorageInv, PagesMissNothing
      <4>3. QED
        BY <1>2, <2>1, <4>1, <4>2 DEF MissesNothing, Comes, streamVars
    <3>3. QED
      BY <3>1, <3>2
  <2>4. ASSUME NEW g \in joined' PROVE AnswerMissesNothing(g)'
    <3>1. g \in joined /\ answer'[g] = answer[g] /\ AnswerMissesNothing(g)
      BY <1>1, <2>1, <2>4 DEF StorageInv
    <3>2. QED
      BY <1>2, <2>1, <3>1 DEF AnswerMissesNothing, Comes, streamVars
  <2>5. QED
    BY <1>4, <2>1, <2>2, <2>3, <2>4 DEF PagesMissNothing
<1>7. CASE FetchFails(f)
  <2>1. /\ fetch' = [fetch EXCEPT ![f] = "over"] /\ answer' = [answer EXCEPT ![f] = {}]
        /\ shown' = [shown EXCEPT ![f[1]] = {}] /\ failed' = failed \cup {f[1]}
        /\ joined' = joined \ {f} /\ whole' = whole \ {f[1]}
        /\ UNCHANGED <<events, gone>>
    BY <1>7 DEF FetchFails
  <2>2. Types /\ Opens
    BY <1>1, <2>1
  <2>3. (\A q \in whole' : shown'[q] = shown[q]) /\ \A g \in joined' : answer'[g] = answer[g]
    BY <1>1, <2>1
  <2>4. HaveAll
    BY <1>2, <2>1, <2>3, NothingIsLost DEF Comes, streamVars
  <2>5. QED
    BY <1>4, <2>1, <2>2, <2>4
<1>8. CASE ClickClear(f) \/ ClearFails(f)
  <2>1. /\ fetch[f] \in {"none", "clearing"}
        /\ fetch' = [fetch EXCEPT ![f] = "clearing"] \/ fetch' = [fetch EXCEPT ![f] = "over"]
        /\ UNCHANGED <<events, gone, shown, failed, answer, joined, whole>>
    BY <1>8 DEF ClickClear, ClearFails
  <2>2. f \notin joined /\ answer[f] = {}
    BY <1>1, <2>1
  <2>3. Types /\ Opens
    BY <1>1, <2>1, <2>2
  <2>4. HaveAll
    BY <1>2, <2>1, NothingIsLost DEF Comes, streamVars
  <2>5. QED
    BY <1>4, <2>1, <2>3, <2>4
<1>9. CASE Clear(f)
  <2>1. /\ fetch[f] = "clearing"
        /\ fetch' = [fetch EXCEPT ![f] = "asked"] \/ fetch' = [fetch EXCEPT ![f] = "over"]
        /\ gone' = gone \cup ToSet(events) /\ events' = <<>>
        /\ UNCHANGED <<shown, failed, answer, joined, whole>>
    BY <1>9 DEF Clear
  <2>2. f \notin joined /\ answer[f] = {}
    BY <1>1, <2>1
  <2>3. Types /\ Opens
    BY <1>1, <2>1, <2>2
  <2>4. HaveAll
    BY <1>2, <2>1, NothingIsLost DEF Comes, streamVars
  <2>5. events' \in Seq(Posts) /\ Len(events') <= Capacity /\ IsInjective(events')
    <3>1. events' \in Seq(Posts) /\ Len(events') = 0
      BY <2>1
    <3>2. IsInjective(events')
      BY <2>1 DEF IsInjective
    <3>3. QED
      BY <3>1, <3>2, StorageAssumption
  <2>6. StorageTypeOK'
    BY <1>2, <1>3, <2>1, <2>3, <2>5 DEF StorageInv, StorageTypeOK, streamVars
  <2>7. StorageFunctions' /\ StreamsOpen'
    BY <1>2, <2>3 DEF StorageInv, StorageFunctions, StreamsOpen, streamVars
  <2>8. Listed'
    <3>1. \A e \in Posts : Added(e) => e \in gone'
      BY <2>1 DEF StorageInv, Listed
    <3>2. 1..Len(events') = {}
      BY <2>1
    <3>3. QED
      BY <1>2, <3>1, <3>2 DEF Listed, Added
  <2>9. QED
    BY <2>4, <2>6, <2>7, <2>8 DEF StorageInv
<1>10. QED
  BY <1>5, <1>6, <1>7, <1>8, <1>9 DEF FetchStep

(* The turn of an event in the loop comes once.                            *)
LEMMA PostedOnceStep == LoggerInv /\ StorageInv /\ [Next]_vars => PostedOnce'
<1> SUFFICES ASSUME LoggerInv, StorageInv, [Next]_vars, NEW e \in Posts, post'[e] # "unsent"
             PROVE  e \in Ids /\ (e < eventID' \/ (e = eventID' /\ pc' \in {"recv", "end"}))
  BY DEF PostedOnce
<1>1. eventID \in Nat /\ MaxEvents \in Nat /\ post \in [Posts -> {"unsent", "new", "stored", "done"}]
  BY LoggerAssumption DEF LoggerInv, LoggerTypeOK, StorageInv, StorageTypeOK
<1>2. post[e] # "unsent" => e \in Ids /\ (e < eventID \/ (e = eventID /\ pc \in {"recv", "end"}))
  BY DEF StorageInv, PostedOnce
<1>3. ASSUME NEW ok \in BOOLEAN, SpawnAll(ok)
      PROVE  e \in Ids /\ (e < eventID' \/ (e = eventID' /\ pc' \in {"recv", "end"}))
  <2>1. eventID \in Ids
    BY <1>3 DEF SpawnAll, Spawn, LoggerInv, LoggerTypeOK, Busy, Ids
  <2>2. e = eventID \/ post[e] # "unsent"
    BY <1>1, <1>3 DEF SpawnAll
  <2>3. QED
    BY <1>1, <1>2, <1>3, <2>1, <2>2 DEF SpawnAll, Spawn
<1>4. ASSUME post' = post, eventID' = eventID, pc \in {"recv", "end"} => pc' \in {"recv", "end"}
      PROVE  e \in Ids /\ (e < eventID' \/ (e = eventID' /\ pc' \in {"recv", "end"}))
  BY <1>2, <1>4
<1>5. ASSUME MainLogs, UNCHANGED storageVars
      PROVE  e \in Ids /\ (e < eventID' \/ (e = eventID' /\ pc' \in {"recv", "end"}))
  <2>1. CASE Receive
    <3>1. e \in Ids /\ e <= eventID /\ eventID' = eventID + 1
      BY <1>1, <1>2, <1>5, <2>1 DEF Receive, storageVars, Ids
    <3>2. QED
      BY <1>1, <3>1 DEF Ids
  <2>2. CASE ~ Receive
    <3>1. eventID' = eventID /\ pc \notin {"recv", "end"}
      BY <1>5, <2>2 DEF MainLogs, Lock, FlushAndPrint, FlushAgain, LockState, UnlockState, PrintEvent, MainPrintsNext
    <3>2. QED
      BY <1>4, <1>5, <3>1 DEF storageVars
  <2>3. QED
    BY <2>1, <2>2
<1>6. ASSUME StorageStep, UNCHANGED loggingVars
      PROVE  e \in Ids /\ (e < eventID' \/ (e = eventID' /\ pc' \in {"recv", "end"}))
  <2>1. post[e] # "unsent"
    <3>1. ASSUME NEW f \in Posts, Store(f) \/ Publish(f) PROVE post[e] # "unsent"
      BY <1>1, <3>1 DEF Store, Publish
    <3>2. ASSUME NEW p \in Pages, PageStep(p) PROVE post[e] # "unsent"
      BY <3>2 DEF PageStep, OpenStream, WriteEvent, StreamedEvent, CloseStream
    <3>3. ASSUME NEW f \in Fetches, FetchStep(f) PROVE post[e] # "unsent"
      BY <3>3 DEF FetchStep, HandleEvents, ApplyAnswer, FetchFails, ClickClear, Clear, ClearFails
    <3>4. QED
      BY <1>6, <3>1, <3>2, <3>3 DEF StorageStep
  <2>2. QED
    BY <1>2, <1>6, <2>1 DEF loggingVars
<1>7. ASSUME LoggerStep \/ \E i \in Ids : Forwarded(i) \/ PrintDirectly(i), UNCHANGED storageVars
      PROVE  e \in Ids /\ (e < eventID' \/ (e = eventID' /\ pc' \in {"recv", "end"}))
  <2>1. UNCHANGED <<pc, eventID>>
    BY <1>7 DEF LoggerStep, LoggerReceives, LoggerStores, LoggerLocks, LoggerPrintsNext, LoggerUnlocks,
                Forwarded, PrintDirectly
  <2>2. QED
    BY <1>4, <1>7, <2>1 DEF storageVars
<1>8. ASSUME Exit, UNCHANGED storageVars
      PROVE  e \in Ids /\ (e < eventID' \/ (e = eventID' /\ pc' \in {"recv", "end"}))
  BY <1>4, <1>8 DEF Exit, storageVars
<1>9. ASSUME UNCHANGED vars
      PROVE  e \in Ids /\ (e < eventID' \/ (e = eventID' /\ pc' \in {"recv", "end"}))
  BY <1>4, <1>9 DEF vars, loggingVars, storageVars
<1>10. QED
  BY <1>3, <1>5, <1>6, <1>7, <1>8, <1>9 DEF Next, Main, Logger, Forward, Leave

LEMMA StorageInvStep == LoggerInv /\ StorageInv /\ [Next]_vars => StorageInv'
<1> SUFFICES ASSUME LoggerInv, StorageInv, [Next]_vars PROVE StorageInv'
  OBVIOUS
<1>1. PostedOnce'
  BY PostedOnceStep
<1>2. ASSUME NEW ok \in BOOLEAN, SpawnAll(ok) PROVE StorageInv'
  <2>1. eventID \in Posts
    BY <1>2, ListenAssumption DEF SpawnAll, Spawn, LoggerInv, LoggerTypeOK, Busy, Ids
  <2>2. UNCHANGED <<events, streamVars, pageVars, joined, whole, missed, gone>>
    BY <1>2 DEF SpawnAll
  <2>3. CASE session.gui
    <3>1. post[eventID] = "unsent"
      BY <1>2, <2>1 DEF SpawnAll, Spawn, StorageInv, PostedOnce, LoggerInv, LoggerTypeOK
    <3>2. post' = [post EXCEPT ![eventID] = "new"]
      BY <1>2, <2>3 DEF SpawnAll
    <3>3. QED
      BY <1>1, <2>1, <2>2, <3>1, <3>2, PostComes
  <2>4. CASE ~ session.gui
    <3>1. UNCHANGED storageVars
      BY <1>2, <2>2, <2>4 DEF SpawnAll, storageVars
    <3>2. QED
      BY <1>1, <3>1, StorageUnchanged
  <2>5. QED
    BY <2>3, <2>4
<1>3. ASSUME UNCHANGED storageVars PROVE StorageInv'
  BY <1>1, <1>3, StorageUnchanged
<1>4. ASSUME StorageStep PROVE StorageInv'
  <2>1. ASSUME NEW e \in Posts, Store(e) \/ Publish(e) PROVE StorageInv'
    BY <1>1, <2>1, StoreStep, PublishStep
  <2>2. ASSUME NEW p \in Pages, PageStep(p) PROVE StorageInv'
    BY <1>1, <2>2, StreamStep
  <2>3. ASSUME NEW f \in Fetches, FetchStep(f) PROVE StorageInv'
    BY <1>1, <2>3, FetchingStep
  <2>4. QED
    BY <1>4, <2>1, <2>2, <2>3 DEF StorageStep
<1>5. QED
  BY <1>2, <1>3, <1>4 DEF Next, Main, Logger, Forward, Leave, vars

LEMMA ListenInvInit == Init => ListenInv
<1> SUFFICES ASSUME Init PROVE ListenInv
  OBVIOUS
<1>1. LoggerInv
  BY LoggerInvInit
<1> USE StorageAssumption DEF Init, StorageInit
<1>2. StorageTypeOK /\ StorageFunctions
  <2>1. events \in Seq(Posts) /\ Len(events) <= Capacity /\ IsInjective(events)
    BY DEF IsInjective
  <2>2. \A p \in Pages :
          /\ queue[p] \in Seq(Posts) /\ Len(queue[p]) <= StreamCap /\ wire[p] \in Seq(Posts)
          /\ shown[p] \subseteq Posts /\ missed[p] \subseteq Posts
    OBVIOUS
  <2>3. /\ post \in [Posts -> {"unsent", "new", "stored", "done"}]
        /\ stream \in [Pages -> {"closed", "open"}]
        /\ fetch \in [Fetches -> {"none", "clearing", "asked", "answered", "over"}]
        /\ \A f \in Fetches : answer[f] = {}
        /\ failed \subseteq Pages /\ whole \subseteq Pages /\ joined \subseteq Fetches /\ gone \subseteq Posts
    OBVIOUS
  <2>4. StorageFunctions
    BY DEF StorageFunctions
  <2>5. QED
    BY <2>1, <2>2, <2>3, <2>4 DEF StorageTypeOK
<1>3. PostedOnce /\ Listed /\ StreamsOpen
  BY DEF PostedOnce, Listed, StreamsOpen, Added
<1>4. PagesMissNothing /\ \A f \in joined : AnswerMissesNothing(f)
  BY DEF PagesMissNothing
<1>5. QED
  BY <1>1, <1>2, <1>3, <1>4 DEF ListenInv, StorageInv

LEMMA ListenInvariant == Spec => []ListenInv
<1>1. ListenInv /\ [Next]_vars => ListenInv'
  BY LoggerInvStep, StorageInvStep DEF ListenInv
<1>2. QED
  BY <1>1, ListenInvInit, PTL DEF Spec

(* The types of the loop, its goroutines and the storage.                  *)
THEOREM ListenTypes == Spec => []TypeOK
<1>1. ListenInv => TypeOK
  BY DEF ListenInv, LoggerInv, StorageInv, TypeOK
<1>2. QED
  BY <1>1, ListenInvariant, PTL

(* A page whose stream has been open since the server read the list that   *)
(* it has got shows all that is published, or will be sent it, but for     *)
(* what the list has lost, what was skipped for it, and what came to it    *)
(* before an answer read without it: for any number of posts, pages,       *)
(* fetches and clears at once, and any capacity of the list and of the     *)
(* streams.                                                                *)
THEOREM PagesNeverMiss == Spec => []PagesMissNothing
<1>1. ListenInv => PagesMissNothing
  BY DEF ListenInv, StorageInv
<1>2. QED
  BY <1>1, ListenInvariant, PTL
================================================================================
