---------------------------- MODULE MCEventDelivery ----------------------------
(***************************************************************************)
(* Instances of EventDelivery for TLC: one client listens to a single      *)
(* topic, another to an application with both topics, on two relays; a     *)
(* third shares the topic of the first.                                    *)
(***************************************************************************)
EXTENDS EventDelivery

CONSTANTS t1, t2, single, app, rival, r1, r2

MCTopicsOf == [s \in Subs |-> IF s = app THEN {t1, t2} ELSE {t1}]
MCRelayOf == [s \in Subs |-> IF s = single THEN r1 ELSE r2]
================================================================================
