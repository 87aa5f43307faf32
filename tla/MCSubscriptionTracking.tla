------------------------- MODULE MCSubscriptionTracking -------------------------
(***************************************************************************)
(* Instances of SubscriptionTracking for TLC: on one relay a client of a   *)
(* topic and one of an application that has this topic and another, on a   *)
(* second relay an anonymous stream.                                       *)
(***************************************************************************)
EXTENDS SubscriptionTracking

CONSTANTS t1, t2, channel, single, app, anon, r1, r2

MCTopicsOf ==
  [s \in Subs |-> CASE s = app -> {t1, t2} [] s = anon -> {channel} [] OTHER -> {t1}]
MCInstanceOf == [s \in Subs |-> IF s = anon THEN r2 ELSE r1]
================================================================================
