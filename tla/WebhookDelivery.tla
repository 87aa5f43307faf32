---------------------------- MODULE WebhookDelivery ----------------------------
(***************************************************************************)
(* What the relay promises about a webhook event, without Redis, readers,  *)
(* channels or flow control.  Events are numbered in the order in which    *)
(* the ingest service accepts them.  An accepted event waits, is assigned  *)
(* to one connection, and is then sent on that connection or lost; it may  *)
(* be lost at any time before it is sent.  Sent and lost are final: an     *)
(* event is sent at most once, on one connection, and what is lost once is *)
(* not sent later.                                                         *)
(***************************************************************************)
EXTENDS Naturals

CONSTANTS
  Connections,   (* the subscriptions that clients open, each used once     *)
  Bound          (* the number of events accepted in one behaviour          *)

VARIABLES
  accepted,   (* how many events have been accepted                         *)
  waiting,    (* the accepted events that no connection has been given      *)
  assigned,   (* for each connection, the events given to it and not sent   *)
  sent        (* for each connection, the events sent on it                 *)

vars == <<accepted, waiting, assigned, sent>>

Init ==
  /\ accepted = 0
  /\ waiting = {}
  /\ assigned = [c \in Connections |-> {}]
  /\ sent = [c \in Connections |-> {}]

(* One more event is accepted; accepting it may push out waiting ones.     *)
Accept ==
  /\ accepted < Bound
  /\ accepted' = accepted + 1
  /\ waiting' \in SUBSET (waiting \cup {accepted'})
  /\ UNCHANGED <<assigned, sent>>

(* Waiting events are given to a connection, all together.                 *)
Assign(c) ==
  \E E \in (SUBSET waiting) \ {{}} :
    /\ waiting' = waiting \ E
    /\ assigned' = [assigned EXCEPT ![c] = @ \cup E]
    /\ UNCHANGED <<accepted, sent>>

(* An event given to a connection is sent on it.                           *)
Send(c) ==
  \E e \in assigned[c] :
    /\ assigned' = [assigned EXCEPT ![c] = @ \ {e}]
    /\ sent' = [sent EXCEPT ![c] = @ \cup {e}]
    /\ UNCHANGED <<accepted, waiting>>

(* Events that were not sent are given up.                                 *)
Lose ==
  /\ waiting' \in SUBSET waiting
  /\ assigned' \in [Connections -> SUBSET UNION {assigned[c] : c \in Connections}]
  /\ \A c \in Connections : assigned'[c] \subseteq assigned[c]
  /\ UNCHANGED <<accepted, sent>>

Next ==
  \/ Accept
  \/ \E c \in Connections : Assign(c) \/ Send(c)
  \/ Lose

Spec == Init /\ [][Next]_vars

================================================================================
