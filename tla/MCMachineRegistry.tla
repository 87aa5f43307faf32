---------------------------- MODULE MCMachineRegistry ----------------------------
(***************************************************************************)
(* Instances of MachineRegistry for TLC: one machine, used for two         *)
(* organisations.                                                          *)
(***************************************************************************)
EXTENDS MachineRegistry, TLC

CONSTANTS mach, org1, org2, a, b, d

MCMachineOf == [c \in Contexts |-> mach]
MCContextOf == [s \in Subs |-> IF s = d THEN org2 ELSE org1]

Clients == Permutations({a, b})

(* A failed call, a disconnect from the web or a shutdown is looked into   *)
(* only as long as two of the three streams have been opened.              *)
OneDisturbance == faults > 0 => \E s \in Subs : at[s] = "new"
================================================================================
