------------------------------- MODULE CliListen -------------------------------
(***************************************************************************)
(* hookie listen: the loop of ForwardLogger, which gives each event to the *)
(* goroutines that forward it and, with a GUI, to one that posts it to the *)
(* server of EventStorage.  That server is in this process or in that of   *)
(* another hookie listen; it is followed until the loop ends.              *)
(***************************************************************************)
EXTENDS ForwardLogger, EventStorage

ASSUME ListenAssumption == Ids \subseteq Posts   \* an event can be posted

vars == <<loggingVars, storageVars>>

Init == LoggerInit /\ StorageInit

(* go ingestEventToGUI.                                                    *)
SpawnAll(ok) ==
  /\ Spawn(ok)
  /\ post' = IF session.gui THEN [post EXCEPT ![eventID] = "new"] ELSE post
  /\ UNCHANGED <<events, streamVars, pageVars, joined, whole, missed, gone>>

Main ==
  \/ MainLogs /\ UNCHANGED storageVars
  \/ \E ok \in BOOLEAN : SpawnAll(ok)

Logger == LoggerStep /\ UNCHANGED storageVars
Forward(i) == (Forwarded(i) \/ PrintDirectly(i)) /\ UNCHANGED storageVars
Leave == Exit /\ UNCHANGED storageVars

Next ==
  \/ Main
  \/ Logger
  \/ \E i \in Ids : Forward(i)
  \/ Leave
  \/ Running /\ StorageStep /\ UNCHANGED loggingVars

(* Goroutines run, and the HTTP client gives up on a forward after ten     *)
(* seconds.  Nothing makes the relay send another event.                   *)
Fairness ==
  /\ WF_vars(pc # "recv" /\ Main)
  /\ WF_vars(Logger)
  /\ \A i \in Ids : WF_vars(Forward(i))

Spec == Init /\ [][Next]_vars /\ Fairness

(* Both parts have their types.                                            *)
TypeOK == LoggerTypeOK /\ StorageTypeOK
================================================================================
