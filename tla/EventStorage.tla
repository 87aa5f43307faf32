------------------------------ MODULE EventStorage -----------------------------
(***************************************************************************)
(* The events that the local GUI server keeps, and the pages that show     *)
(* them.  A POST /api/ingest adds an event: it is put in front of the list *)
(* and goes to the streams that are open, in two steps that other requests *)
(* come between.  A page asks for the list when it is mounted and after it *)
(* has had the list cleared, and keeps an EventSource on GET /api/stream   *)
(* open beside it.                                                         *)
(*                                                                         *)
(* An event is the request that brings it.  Its fields are left out, its   *)
(* id with them, which no page sends back as since, and so is the order in *)
(* which a page shows what it has.                                         *)
(***************************************************************************)
EXTENDS Naturals, Sequences, FiniteSets, SequencesExt

CONSTANTS
  Posts,        (* the requests                                             *)
  Pages,
  Capacity,     (* of the storage: 1000                                     *)
  StreamCap,    (* of the channel of a stream: 100                          *)
  MaxFetches    (* bound on the calls of fetchEvents of a page: that of its *)
                (* mount, and one for each click on Clear                   *)

ASSUME StorageAssumption ==
  /\ IsFiniteSet(Posts) /\ Capacity \in Nat \ {0} /\ StreamCap \in Nat
  /\ MaxFetches \in Nat \ {0}

VARIABLES
  post,       (* where each request is: unsent, new, stored, done           *)
  events,     (* the list, newest first                                     *)
  stream,     (* of each page, at the server: closed or open                *)
  queue,      (* what its channel holds                                     *)
  wire,       (* what has been written to it, and not reached the page      *)
  shown,      (* the page's events                                          *)
  failed,     (* the pages that show an error in their place                *)
  fetch,      (* where each fetch is: none, clearing, asked, answered, over *)
  answer,     (* the list that is on its way to the page                    *)
  joined,     (* history: answers since whose reading the stream was open   *)
  whole,      (* history: pages that have such an answer                    *)
  missed,     (* history: what has found the channel of a page's stream     *)
              (* full, or come to the page before an answer without it      *)
  gone        (* history: the events that are in the list no more           *)

streamVars == <<stream, queue, wire>>
pageVars == <<shown, failed, fetch, answer>>
storageVars == <<post, events, streamVars, pageVars, joined, whole, missed, gone>>

Fetches == Pages \X (1..MaxFetches)

(* That of its mount, which may be long before the server hears of it.     *)
OnMount(p) == <<p, 1>>

StorageInit ==
  /\ post = [e \in Posts |-> "unsent"]
  /\ events = <<>>
  /\ stream = [p \in Pages |-> "closed"]
  /\ queue = [p \in Pages |-> <<>>] /\ wire = [p \in Pages |-> <<>>]
  /\ shown = [p \in Pages |-> {}] /\ failed = {}
  /\ fetch = [f \in Fetches |-> IF f = OnMount(f[1]) THEN "asked" ELSE "none"]
  /\ answer = [f \in Fetches |-> {}]
  /\ joined = {} /\ whole = {} /\ gone = {}
  /\ missed = [p \in Pages |-> {}]

--------------------------------------------------------------------------------
(* handleIngest and Storage.Add.                                           *)
\* Mutant: the list is not cut off at its capacity.
StoreAll(e) ==
  /\ post[e] = "new"
  /\ events' = <<e>> \o events
  /\ post' = [post EXCEPT ![e] = "stored"]
  /\ UNCHANGED <<streamVars, pageVars, joined, whole, missed, gone>>

Store(e) ==
  LET list == <<e>> \o events
  IN /\ post[e] = "new"
     /\ events' = SubSeq(list, 1, IF Len(list) > Capacity THEN Capacity ELSE Len(list))
     /\ gone' = gone \cup (ToSet(list) \ ToSet(events'))
     /\ post' = [post EXCEPT ![e] = "stored"]
     /\ UNCHANGED <<streamVars, pageVars, joined, whole, missed>>

(* A channel that is full is skipped.                                      *)
HasRoom(p) == stream[p] = "open" /\ Len(queue[p]) < StreamCap

Publish(e) ==
  /\ post[e] = "stored"
  /\ queue' = [p \in Pages |-> IF HasRoom(p) THEN Append(queue[p], e) ELSE queue[p]]
  /\ missed' = [p \in Pages |->
       IF stream[p] = "open" /\ ~HasRoom(p) THEN missed[p] \cup {e} ELSE missed[p]]
  /\ post' = [post EXCEPT ![e] = "done"]
  /\ UNCHANGED <<events, stream, wire, pageVars, joined, whole, gone>>

--------------------------------------------------------------------------------
(* handleStream: Storage.Subscribe, what it writes, and cancel.  An        *)
(* EventSource whose connection has gone asks for another.                 *)
OpenStream(p) ==
  /\ stream[p] = "closed"
  /\ stream' = [stream EXCEPT ![p] = "open"]
  /\ UNCHANGED <<post, events, queue, wire, pageVars, joined, whole, missed, gone>>

WriteEvent(p) ==
  /\ stream[p] = "open" /\ queue[p] # <<>>
  /\ queue' = [queue EXCEPT ![p] = Tail(@)]
  /\ wire' = [wire EXCEPT ![p] = Append(@, Head(queue[p]))]
  /\ UNCHANGED <<post, events, stream, pageVars, joined, whole, missed, gone>>

CloseStream(p) ==
  /\ stream[p] = "open"
  /\ stream' = [stream EXCEPT ![p] = "closed"]
  /\ queue' = [queue EXCEPT ![p] = <<>>] /\ wire' = [wire EXCEPT ![p] = <<>>]
  /\ joined' = {f \in joined : f[1] # p} /\ whole' = whole \ {p}
  /\ missed' = [missed EXCEPT ![p] = {}]
  /\ UNCHANGED <<post, events, pageVars, gone>>

(* The page puts what its EventSource brings before what it shows.         *)
StreamedEvent(p) ==
  LET e == Head(wire[p])
      crosses == \E f \in Fetches : f[1] = p /\ fetch[f] = "answered" /\ e \notin answer[f]
  IN /\ wire[p] # <<>>
     /\ wire' = [wire EXCEPT ![p] = Tail(@)]
     /\ shown' = [shown EXCEPT ![p] = @ \cup {e}]
     /\ missed' = IF crosses THEN [missed EXCEPT ![p] = @ \cup {e}] ELSE missed
     /\ UNCHANGED <<post, events, stream, queue, failed, fetch, answer, joined, whole, gone>>

--------------------------------------------------------------------------------
(* fetchEvents.                                                            *)
HandleEvents(f) ==
  /\ fetch[f] = "asked"
  /\ fetch' = [fetch EXCEPT ![f] = "answered"]
  /\ answer' = [answer EXCEPT ![f] = ToSet(events)]
  /\ joined' = IF stream[f[1]] = "open" THEN joined \cup {f} ELSE joined
  /\ UNCHANGED <<post, events, streamVars, shown, failed, whole, missed, gone>>

\* Mutant: an answer is only for a page that shows nothing yet.
ApplyFirst(f) ==
  /\ fetch[f] = "answered"
  /\ fetch' = [fetch EXCEPT ![f] = "over"]
  /\ shown' = IF shown[f[1]] = {} THEN [shown EXCEPT ![f[1]] = answer[f]] ELSE shown
  /\ failed' = failed \ {f[1]}
  /\ answer' = [answer EXCEPT ![f] = {}]
  /\ joined' = joined \ {f}
  /\ whole' = IF f \in joined THEN whole \cup {f[1]} ELSE whole \ {f[1]}
  /\ UNCHANGED <<post, events, streamVars, missed, gone>>

(* The answer takes the place of all that the page shows.                  *)
ApplyAnswer(f) ==
  /\ fetch[f] = "answered"
  /\ fetch' = [fetch EXCEPT ![f] = "over"]
  /\ shown' = [shown EXCEPT ![f[1]] = answer[f]]
  /\ failed' = failed \ {f[1]}
  /\ answer' = [answer EXCEPT ![f] = {}]
  /\ joined' = joined \ {f}
  /\ whole' = IF f \in joined THEN whole \cup {f[1]} ELSE whole \ {f[1]}
  /\ UNCHANGED <<post, events, streamVars, missed, gone>>

FetchFails(f) ==
  /\ fetch[f] \in {"asked", "answered"}
  /\ fetch' = [fetch EXCEPT ![f] = "over"]
  /\ shown' = [shown EXCEPT ![f[1]] = {}]
  /\ failed' = failed \cup {f[1]}
  /\ answer' = [answer EXCEPT ![f] = {}]
  /\ joined' = joined \ {f} /\ whole' = whole \ {f[1]}
  /\ UNCHANGED <<post, events, streamVars, missed, gone>>

(* The Clear button, which is there only beside a list that is not empty.  *)
ClickClear(f) ==
  LET p == f[1]
  IN /\ fetch[f] = "none" /\ fetch[OnMount(p)] = "over"
     /\ p \notin failed /\ shown[p] # {}
     /\ fetch' = [fetch EXCEPT ![f] = "clearing"]
     /\ UNCHANGED <<post, events, streamVars, shown, failed, answer, joined, whole, missed, gone>>

(* Storage.Clear, after which the page calls fetchEvents unless the answer *)
(* to its POST is lost.                                                    *)
Clear(f) ==
  /\ fetch[f] = "clearing"
  /\ \E next \in {"asked", "over"} : fetch' = [fetch EXCEPT ![f] = next]
  /\ gone' = gone \cup ToSet(events)
  /\ events' = <<>>
  /\ UNCHANGED <<post, streamVars, shown, failed, answer, joined, whole, missed>>

ClearFails(f) ==
  /\ fetch[f] = "clearing"
  /\ fetch' = [fetch EXCEPT ![f] = "over"]
  /\ UNCHANGED <<post, events, streamVars, shown, failed, answer, joined, whole, missed, gone>>

FetchStep(f) ==
  \/ HandleEvents(f) \/ ApplyAnswer(f) \/ FetchFails(f)
  \/ ClickClear(f) \/ Clear(f) \/ ClearFails(f)

PageStep(p) == OpenStream(p) \/ WriteEvent(p) \/ StreamedEvent(p) \/ CloseStream(p)

StorageStep ==
  \/ \E e \in Posts : Store(e) \/ Publish(e)
  \/ \E p \in Pages : PageStep(p)
  \/ \E f \in Fetches : FetchStep(f)

--------------------------------------------------------------------------------
StorageTypeOK ==
  /\ post \in [Posts -> {"unsent", "new", "stored", "done"}]
  /\ events \in Seq(Posts) /\ Len(events) <= Capacity /\ IsInjective(events)
  /\ stream \in [Pages -> {"closed", "open"}]
  /\ \A p \in Pages :
       /\ queue[p] \in Seq(Posts) /\ Len(queue[p]) <= StreamCap
       /\ wire[p] \in Seq(Posts)
       /\ shown[p] \subseteq Posts /\ missed[p] \subseteq Posts
  /\ fetch \in [Fetches -> {"none", "clearing", "asked", "answered", "over"}]
  /\ \A f \in Fetches : answer[f] \subseteq Posts /\ (answer[f] # {} => fetch[f] = "answered")
  /\ failed \subseteq Pages /\ whole \subseteq Pages /\ joined \subseteq Fetches
  /\ gone \subseteq Posts

(* Pages that miss nothing.  A page whose stream has been open since the   *)
(* server read the list that it has got shows every event that has been    *)
(* added, or its stream will bring it: but for events that the list has    *)
(* lost, that found the channel of its stream full, or that the page had   *)
(* from its stream before an answer read without them, which takes their   *)
(* place.                                                                  *)
Comes(e, p) == e \in ToSet(queue[p]) \cup ToSet(wire[p])

MissesNothing(p) ==
  \A e \in Posts :
    post[e] = "done" /\ e \notin gone \cup missed[p] => e \in shown[p] \/ Comes(e, p)

PagesMissNothing == \A p \in whole : MissesNothing(p)
================================================================================
