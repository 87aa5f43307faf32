----------------------------- MODULE MachineRegistry -----------------------------
(***************************************************************************)
(* Which subscriptions of which machines a relay instance knows, and what  *)
(* the table connected_clients says of them.                               *)
(*                                                                         *)
(* A context is a machine used by a user for an organisation: the key      *)
(* userID:machineID:orgID of the map machines, and the primary key of the  *)
(* table.  A machine may have several contexts; the id that the change     *)
(* feed of the table carries is that of the machine.  The values of        *)
(* machines are pointers to entries that handlers keep while others delete *)
(* them from the map: an entry is named after the subscription for which   *)
(* it was made.                                                            *)
(***************************************************************************)
EXTENDS Naturals, FiniteSets

CONSTANTS
  Machines,
  Contexts,
  Subs,         (* the Subscribe streams                                    *)
  MachineOf,    (* the machine of each context                              *)
  ContextOf,    (* the context of each stream                               *)
  None,
  MaxFaults     (* bound: failed calls, disconnects from the web, shutdowns *)

ASSUME RegistryAssumption ==
  /\ IsFiniteSet(Contexts) /\ IsFiniteSet(Subs)
  /\ MachineOf \in [Contexts -> Machines]
  /\ ContextOf \in [Subs -> Contexts]
  /\ None \notin Subs \cup Contexts \cup Machines
  /\ MaxFaults \in Nat

VARIABLES
  machines,   (* the entry of each context                                  *)
  list,       (* the subscriptions in each entry                            *)
  known,      (* whether the entry has its machineID                        *)
  contexts    (* dbMachineToContexts                                        *)

VARIABLES
  row,        (* connected_clients: absent, connected or disconnected       *)
  count,      (* its connection_count                                       *)
  feed        (* the disconnects that will reach each listener              *)

VARIABLES
  at,         (* where the handler of each stream is                        *)
  entry,      (* machineSubs                                                *)
  db,         (* whether dbMachineID is set                                 *)
  seen,       (* the contexts that it has loaded                            *)
  num,        (* the number of subscriptions that it has to report          *)
  cancelled   (* whether its context has been cancelled by the relay        *)

VARIABLES
  killer,     (* the machine that each listener is disconnecting            *)
  todo,       (* the contexts that it has still to go through               *)
  deleting,   (* the context whose entry it will delete from machines       *)
  stopping,   (* whether the relay has been told to shut down               *)
  unmarked,   (* the contexts that DisconnectAllClients will look at        *)
  marking,    (* the one that it has looked at and will mark, if any        *)
  faults,
  failed,     (* history: whether a call to the database has failed         *)
  asked,      (* history: the machines disconnected on purpose              *)
  raced       (* history: the machines for which a stream was opened while  *)
              (* another was opened or closed, or while they were           *)
              (* disconnected                                               *)

mapVars  == <<machines, list, known, contexts>>
rowVars  == <<row, count, feed>>
subVars  == <<at, entry, db, seen, num, cancelled>>
killVars == <<killer, todo, deleting>>
stopVars == <<stopping, unmarked, marking>>
vars == <<mapVars, rowVars, subVars, killVars, stopVars, faults, failed, asked, raced>>

(* The Listener of the changes of the table and the BroadcastListener are  *)
(* clients of their own; each handles its messages one after the other.    *)
Listeners == {"changes", "broadcast"}

Machine(s) == MachineOf[ContextOf[s]]
Streams(m) == {s \in Subs : Machine(s) = m}
Running(s) == at[s] = "running" /\ ~cancelled[s]
Idle(s) == at[s] \in {"new", "done"} \/ Running(s)

Init ==
  /\ machines = [c \in Contexts |-> None]
  /\ list = [s \in Subs |-> {}]
  /\ known = [s \in Subs |-> FALSE]
  /\ contexts = [m \in Machines |-> {}]
  /\ row = [c \in Contexts |-> "absent"]
  /\ count = [c \in Contexts |-> 0]
  /\ feed = [l \in Listeners |-> [m \in Machines |-> 0]]
  /\ at = [s \in Subs |-> "new"]
  /\ entry = [s \in Subs |-> None]
  /\ db = [s \in Subs |-> FALSE]
  /\ seen = [s \in Subs |-> {}]
  /\ num = [s \in Subs |-> 0]
  /\ cancelled = [s \in Subs |-> FALSE]
  /\ killer = [l \in Listeners |-> None]
  /\ todo = [l \in Listeners |-> {}]
  /\ deleting = [l \in Listeners |-> None]
  /\ stopping = FALSE
  /\ unmarked = {}
  /\ marking = {}
  /\ faults = 0
  /\ failed = FALSE
  /\ asked = {}
  /\ raced = {}

Fault == faults < MaxFaults /\ faults' = faults + 1

(* A call to the database succeeds, or fails; failures are only logged.    *)
Call(ok) ==
  IF ok THEN UNCHANGED <<faults, failed>> ELSE Fault /\ failed' = TRUE

Goes(s, to) == at' = [at EXCEPT ![s] = to]

(* A handler that returns takes its local variables with it.               *)
Ends(s, to) ==
  /\ Goes(s, to)
  /\ IF to = "done"
     THEN /\ entry' = [entry EXCEPT ![s] = None]
          /\ db' = [db EXCEPT ![s] = FALSE]
          /\ cancelled' = [cancelled EXCEPT ![s] = FALSE]
     ELSE UNCHANGED <<entry, db, cancelled>>

Opening(s) == at[s] \in {"first", "next", "map", "store", "join", "count"}

Quiet(m) ==
  /\ \A s \in Streams(m) : Idle(s)
  /\ \A l \in Listeners : killer[l] # m /\ feed[l][m] = 0

(* The end of a stream or of a machine begins.                             *)
Ending(m) == raced' = IF \E s \in Streams(m) : Opening(s) THEN raced \cup {m} ELSE raced

--------------------------------------------------------------------------------
(* The table.  Of the changes of the table, the Listener acts on the       *)
(* updates of a row that is disconnected after them.                       *)
Changed(m, n) == feed' = [feed EXCEPT !["changes"][m] = @ + n]

(* UpdateConnectionCount: where there is a row it is updated, whatever it  *)
(* says.                                                                   *)
UpdateConnectionCount(c, n) ==
  /\ count' = IF row[c] = "absent" THEN count ELSE [count EXCEPT ![c] = n]
  /\ Changed(MachineOf[c], IF row[c] = "disconnected" THEN 1 ELSE 0)
  /\ UNCHANGED row

(* DisconnectClient: only where disconnected_at is null.                   *)
DisconnectClient(c) ==
  IF row[c] = "connected"
  THEN /\ row' = [row EXCEPT ![c] = "disconnected"]
       /\ count' = [count EXCEPT ![c] = 0]
       /\ Changed(MachineOf[c], 1)
  ELSE UNCHANGED rowVars

--------------------------------------------------------------------------------
(* Subscribe: opening a stream.                                            *)

(* LoadOrStore of the entry, and isFirstSubscription under its lock.       *)
GetEntry(s) ==
  LET c == ContextOf[s]
      e == IF machines[c] = None THEN s ELSE machines[c]
  IN  /\ at[s] = "new"
      /\ machines' = [machines EXCEPT ![c] = e]
      /\ entry' = [entry EXCEPT ![s] = e]
      /\ Goes(s, IF list[e] = {} THEN "first" ELSE "next")
      /\ raced' = IF Quiet(Machine(s)) THEN raced ELSE raced \cup {Machine(s)}
      /\ UNCHANGED <<list, known, contexts, rowVars, db, seen, num, cancelled>>
      /\ UNCHANGED <<killVars, stopVars, faults, failed, asked>>

(* The first subscription upserts the row and gives the entry its          *)
(* machineID; if that fails it goes on with the id of the request.         *)
Upsert(s, ok) ==
  /\ at[s] = "first"
  /\ Call(ok)
  /\ IF ok
     THEN /\ row' = [row EXCEPT ![ContextOf[s]] = "connected"]
          /\ known' = [known EXCEPT ![entry[s]] = TRUE]
     ELSE UNCHANGED <<row, known>>
  /\ db' = [db EXCEPT ![s] = TRUE]
  /\ Goes(s, "map")
  /\ UNCHANGED <<machines, list, contexts, count, feed, entry, seen, num, cancelled>>
  /\ UNCHANGED <<killVars, stopVars, asked, raced>>

(* The others take the machineID of the entry, if it has one.              *)
ReadMachineID(s) ==
  /\ at[s] = "next"
  /\ db' = [db EXCEPT ![s] = known[entry[s]]]
  /\ Goes(s, IF known[entry[s]] THEN "map" ELSE "join")
  /\ UNCHANGED <<mapVars, rowVars, entry, seen, num, cancelled>>
  /\ UNCHANGED <<killVars, stopVars, faults, failed, asked, raced>>

(* dbMachineToContexts is loaded and stored again without a lock.          *)
LoadContexts(s) ==
  /\ at[s] = "map"
  /\ seen' = [seen EXCEPT ![s] = IF ContextOf[s] \in contexts[Machine(s)] THEN {} ELSE contexts[Machine(s)]]
  /\ Goes(s, IF ContextOf[s] \in contexts[Machine(s)] THEN "join" ELSE "store")
  /\ UNCHANGED <<mapVars, rowVars, entry, db, num, cancelled>>
  /\ UNCHANGED <<killVars, stopVars, faults, failed, asked, raced>>

StoreContexts(s) ==
  /\ at[s] = "store"
  /\ contexts' = [contexts EXCEPT ![Machine(s)] = seen[s] \cup {ContextOf[s]}]
  /\ Goes(s, "join")
  /\ seen' = [seen EXCEPT ![s] = {}]
  /\ UNCHANGED <<machines, list, known, rowVars, entry, db, num, cancelled>>
  /\ UNCHANGED <<killVars, stopVars, faults, failed, asked, raced>>

\* Mutant: the number is taken after the subscription has been added.
JoinOneMore(s) ==
  /\ at[s] = "join"
  /\ list' = [list EXCEPT ![entry[s]] = @ \cup {s}]
  /\ num' = [num EXCEPT ![s] = IF db[s] THEN Cardinality(list[entry[s]]) + 2 ELSE 0]
  /\ Goes(s, IF db[s] THEN "count" ELSE "running")
  /\ UNCHANGED <<machines, known, contexts, rowVars, entry, db, seen, cancelled>>
  /\ UNCHANGED <<killVars, stopVars, faults, failed, asked, raced>>

(* The subscription goes into the list under the lock.                     *)
Join(s) ==
  /\ at[s] = "join"
  /\ list' = [list EXCEPT ![entry[s]] = @ \cup {s}]
  /\ num' = [num EXCEPT ![s] = IF db[s] THEN Cardinality(list[entry[s]]) + 1 ELSE 0]
  /\ Goes(s, IF db[s] THEN "count" ELSE "running")
  /\ UNCHANGED <<machines, known, contexts, rowVars, entry, db, seen, cancelled>>
  /\ UNCHANGED <<killVars, stopVars, faults, failed, asked, raced>>

(* The count goes to the table outside the lock.                           *)
ReportCount(s, ok) ==
  /\ at[s] \in {"count", "uncount"}
  /\ Call(ok)
  /\ IF ok THEN UpdateConnectionCount(ContextOf[s], num[s]) ELSE UNCHANGED rowVars
  /\ Ends(s, IF at[s] = "count" THEN "running" ELSE IF num[s] = 0 THEN "last" ELSE "done")
  /\ num' = [num EXCEPT ![s] = 0]
  /\ UNCHANGED <<mapVars, seen>>
  /\ UNCHANGED <<killVars, stopVars, asked, raced>>

--------------------------------------------------------------------------------
(* Subscribe: the deferred cleanup, when the client has gone or the stream *)
(* has been cancelled.                                                     *)
\* Mutant: the number left is that of before the removal.
LeaveNeverLast(s) ==
  LET left == Cardinality(list[entry[s]])
  IN  /\ at[s] = "running"
      /\ list' = [list EXCEPT ![entry[s]] = @ \ {s}]
      /\ num' = [num EXCEPT ![s] = IF db[s] THEN left ELSE 0]
      /\ Ends(s, IF db[s] THEN "uncount" ELSE IF left = 0 THEN "last" ELSE "done")
      /\ Ending(Machine(s))
      /\ UNCHANGED <<machines, known, contexts, rowVars, seen>>
      /\ UNCHANGED <<killVars, stopVars, faults, failed, asked>>

Leave(s) ==
  LET left == Cardinality(list[entry[s]] \ {s})
  IN  /\ at[s] = "running"
      /\ list' = [list EXCEPT ![entry[s]] = @ \ {s}]
      /\ num' = [num EXCEPT ![s] = IF db[s] THEN left ELSE 0]
      /\ Ends(s, IF db[s] THEN "uncount" ELSE IF left = 0 THEN "last" ELSE "done")
      /\ Ending(Machine(s))
      /\ UNCHANGED <<machines, known, contexts, rowVars, seen>>
      /\ UNCHANGED <<killVars, stopVars, faults, failed, asked>>

(* The last subscription of its entry deletes the context from the map,    *)
(* whichever entry is there.                                               *)
DeleteEntry(s) ==
  /\ at[s] = "last"
  /\ machines' = [machines EXCEPT ![ContextOf[s]] = None]
  /\ Ends(s, IF db[s] THEN "unmap" ELSE "done")
  /\ UNCHANGED <<list, known, contexts, rowVars, seen, num>>
  /\ UNCHANGED <<killVars, stopVars, faults, failed, asked, raced>>

UnmapLoad(s) ==
  /\ at[s] = "unmap"
  /\ seen' = [seen EXCEPT ![s] = contexts[Machine(s)]]
  /\ Goes(s, IF contexts[Machine(s)] = {} THEN "rowoff" ELSE "unstore")
  /\ UNCHANGED <<mapVars, rowVars, entry, db, num, cancelled>>
  /\ UNCHANGED <<killVars, stopVars, faults, failed, asked, raced>>

\* Mutant: the machine is forgotten with all its contexts.
UnmapAll(s) ==
  /\ at[s] = "unstore"
  /\ contexts' = [contexts EXCEPT ![Machine(s)] = {}]
  /\ Goes(s, "rowoff")
  /\ seen' = [seen EXCEPT ![s] = {}]
  /\ UNCHANGED <<machines, list, known, rowVars, entry, db, num, cancelled>>
  /\ UNCHANGED <<killVars, stopVars, faults, failed, asked, raced>>

UnmapStore(s) ==
  /\ at[s] = "unstore"
  /\ contexts' = [contexts EXCEPT ![Machine(s)] = seen[s] \ {ContextOf[s]}]
  /\ Goes(s, "rowoff")
  /\ seen' = [seen EXCEPT ![s] = {}]
  /\ UNCHANGED <<machines, list, known, rowVars, entry, db, num, cancelled>>
  /\ UNCHANGED <<killVars, stopVars, faults, failed, asked, raced>>

MarkDisconnected(s, ok) ==
  /\ at[s] = "rowoff"
  /\ Call(ok)
  /\ IF ok THEN DisconnectClient(ContextOf[s]) ELSE UNCHANGED rowVars
  /\ Ends(s, "done")
  /\ UNCHANGED <<mapVars, seen, num>>
  /\ UNCHANGED <<killVars, stopVars, asked, raced>>

--------------------------------------------------------------------------------
(* DisconnectClientByMachineID, called by each listener for each of its    *)
(* disconnects.                                                            *)
KillBegins(l, m) ==
  /\ killer[l] = None
  /\ feed[l][m] > 0
  /\ feed' = [feed EXCEPT ![l][m] = @ - 1]
  /\ IF contexts[m] = {} THEN UNCHANGED <<killer, todo>>
     ELSE /\ killer' = [killer EXCEPT ![l] = m]
          /\ todo' = [todo EXCEPT ![l] = contexts[m]]
  /\ Ending(m)
  /\ UNCHANGED <<mapVars, row, count, subVars, deleting, stopVars, faults, failed, asked>>

\* Mutant: nothing in the entry is cancelled.
KillNobody(l, c) ==
  /\ killer[l] # None /\ deleting[l] = None
  /\ c \in todo[l]
  /\ todo' = [todo EXCEPT ![l] = @ \ {c}]
  /\ deleting' = [deleting EXCEPT ![l] = IF machines[c] = None THEN None ELSE c]
  /\ UNCHANGED <<mapVars, rowVars, subVars, killer, stopVars, faults, failed, asked, raced>>

(* All subscriptions of an entry are cancelled under its lock; a context   *)
(* without an entry is skipped.                                            *)
KillEntry(l, c) ==
  /\ killer[l] # None /\ deleting[l] = None
  /\ c \in todo[l]
  /\ todo' = [todo EXCEPT ![l] = @ \ {c}]
  /\ IF machines[c] = None THEN UNCHANGED <<cancelled, deleting>>
     ELSE /\ cancelled' = [s \in Subs |-> cancelled[s] \/ s \in list[machines[c]]]
          /\ deleting' = [deleting EXCEPT ![l] = c]
  /\ UNCHANGED <<mapVars, rowVars, at, entry, db, seen, num, killer>>
  /\ UNCHANGED <<stopVars, faults, failed, asked, raced>>

KillDeletes(l) ==
  /\ deleting[l] # None
  /\ machines' = [machines EXCEPT ![deleting[l]] = None]
  /\ deleting' = [deleting EXCEPT ![l] = None]
  /\ UNCHANGED <<list, known, contexts, rowVars, subVars, killer, todo>>
  /\ UNCHANGED <<stopVars, faults, failed, asked, raced>>

KillEnds(l) ==
  /\ killer[l] # None /\ todo[l] = {} /\ deleting[l] = None
  /\ contexts' = [contexts EXCEPT ![killer[l]] = {}]
  /\ killer' = [killer EXCEPT ![l] = None]
  /\ UNCHANGED <<machines, list, known, rowVars, subVars, todo, deleting>>
  /\ UNCHANGED <<stopVars, faults, failed, asked, raced>>

--------------------------------------------------------------------------------
(* The web application disconnects a machine: all its connected rows, and  *)
(* then a broadcast, which may get lost.                                   *)
WebDisconnect(m, sent) ==
  LET hit == {c \in Contexts : MachineOf[c] = m /\ row[c] = "connected"}
  IN  /\ Fault
      /\ row' = [c \in Contexts |-> IF c \in hit THEN "disconnected" ELSE row[c]]
      /\ count' = [c \in Contexts |-> IF c \in hit THEN 0 ELSE count[c]]
      /\ feed' = [feed EXCEPT !["changes"][m] = @ + Cardinality(hit),
                              !["broadcast"][m] = @ + IF sent THEN 1 ELSE 0]
      /\ asked' = asked \cup {m}
      /\ UNCHANGED <<mapVars, subVars, killVars, stopVars, failed, raced>>

(* DisconnectAllClients, at the shutdown, marks the rows of all contexts   *)
(* that have an entry; the streams end with the feed of that.  It loads    *)
(* the contexts of one machine after the other, which share nothing.       *)
ShutDown ==
  /\ ~stopping
  /\ Fault
  /\ stopping' = TRUE
  /\ unmarked' = UNION {contexts[m] : m \in Machines}
  /\ asked' = Machines
  /\ UNCHANGED <<mapVars, rowVars, subVars, killVars, marking, failed, raced>>

ShutDownLooks(c) ==
  /\ marking = {}
  /\ c \in unmarked
  /\ unmarked' = unmarked \ {c}
  /\ marking' = IF machines[c] = None THEN {} ELSE {c}
  /\ UNCHANGED <<mapVars, rowVars, subVars, killVars, stopping, faults, failed, asked, raced>>

ShutDownMarks(c, ok) ==
  /\ c \in marking
  /\ marking' = {}
  /\ Call(ok)
  /\ IF ok THEN DisconnectClient(c) ELSE UNCHANGED rowVars
  /\ UNCHANGED <<mapVars, subVars, killVars, stopping, unmarked, asked, raced>>

--------------------------------------------------------------------------------
Next ==
  \/ \E s \in Subs :
       \/ GetEntry(s) \/ ReadMachineID(s)
       \/ LoadContexts(s) \/ StoreContexts(s) \/ Join(s)
       \/ Leave(s) \/ DeleteEntry(s) \/ UnmapLoad(s) \/ UnmapStore(s)
       \/ \E ok \in BOOLEAN : Upsert(s, ok) \/ ReportCount(s, ok) \/ MarkDisconnected(s, ok)
  \/ \E l \in Listeners :
       \/ \E m \in Machines : KillBegins(l, m)
       \/ \E c \in Contexts : KillEntry(l, c)
       \/ KillDeletes(l) \/ KillEnds(l)
  \/ \E m \in Machines, sent \in BOOLEAN : WebDisconnect(m, sent)
  \/ ShutDown
  \/ \E c \in Contexts : ShutDownLooks(c) \/ \E ok \in BOOLEAN : ShutDownMarks(c, ok)

Spec == Init /\ [][Next]_vars

--------------------------------------------------------------------------------
Places == {"new", "first", "next", "map", "store", "join", "count", "running", "uncount",
           "last", "unmap", "unstore", "rowoff", "done"}

TypeOK ==
  /\ machines \in [Contexts -> Subs \cup {None}]
  /\ list \in [Subs -> SUBSET Subs]
  /\ known \in [Subs -> BOOLEAN]
  /\ contexts \in [Machines -> SUBSET Contexts]
  /\ row \in [Contexts -> {"absent", "connected", "disconnected"}]
  /\ DOMAIN count = Contexts
  /\ \A c \in Contexts : count[c] \in 0 .. Cardinality({s \in Subs : ContextOf[s] = c})
  /\ feed \in [Listeners -> [Machines -> Nat]]
  /\ at \in [Subs -> Places]
  /\ entry \in [Subs -> Subs \cup {None}]
  /\ db \in [Subs -> BOOLEAN]
  /\ seen \in [Subs -> SUBSET Contexts]
  /\ num \in [Subs -> 0 .. Cardinality(Subs)]
  /\ cancelled \in [Subs -> BOOLEAN]
  /\ killer \in [Listeners -> Machines \cup {None}]
  /\ todo \in [Listeners -> SUBSET Contexts]
  /\ deleting \in [Listeners -> Contexts \cup {None}]
  /\ stopping \in BOOLEAN
  /\ unmarked \in SUBSET Contexts
  /\ marking \in SUBSET Contexts
  /\ faults \in 0 .. MaxFaults
  /\ failed \in BOOLEAN
  /\ asked \in SUBSET Machines
  /\ raced \in SUBSET Machines

(* While streams are opened one at a time, a running stream can be found   *)
(* by its machine: DisconnectClientByMachineID would cancel it.            *)
Findable ==
  \A s \in Subs :
    (Running(s) /\ Machine(s) \notin raced /\ \A l \in Listeners : killer[l] # Machine(s))
      => /\ ContextOf[s] \in contexts[Machine(s)]
         /\ machines[ContextOf[s]] = entry[s]
         /\ s \in list[entry[s]]

(* While streams are opened one at a time and no call fails, the table     *)
(* says of each context, whenever nothing is under way, whether it has a   *)
(* running stream.                                                         *)
TableTells ==
  \A c \in Contexts :
    (~failed /\ MachineOf[c] \notin raced /\ Quiet(MachineOf[c]))
      => (row[c] = "connected" <=> \E s \in Subs : ContextOf[s] = c /\ Running(s))

(* However streams are opened and closed together: when the last one of a  *)
(* context has gone and no call has failed, its row does not say           *)
(* connected.                                                              *)
GoneIsDisconnected ==
  \A c \in Contexts :
    (~failed /\ \A s \in Subs : ContextOf[s] = c => at[s] \in {"new", "done"})
      => row[c] # "connected"

(* "If this was the last subscription for this machine+org, mark as        *)
(* disconnected": the relay cancels a stream only if somebody has asked    *)
(* for that, not because the same machine was left in another context.     *)
OnlyAskedAreCancelled ==
  \A s \in Subs : cancelled[s] => Machine(s) \in asked
================================================================================
