-------------------------- MODULE MCAnonymousChannels --------------------------
(***************************************************************************)
(* An instance of AnonymousChannels for TLC: two calls from one IP that    *)
(* may have one channel, which lives for three seconds; or a single call,  *)
(* with the webhooks for its channel and its client.                       *)
(***************************************************************************)
EXTENDS AnonymousChannels

CONSTANTS c1, c2, ip, w1, w2

MCPlans == {[calls |-> {c1, c2}, used |-> {}], [calls |-> {c1}, used |-> {c1}]}
MCIpOf == [c \in Channels |-> ip]
================================================================================
