--------------------------- MODULE MCRealtimeChannel ---------------------------
(***************************************************************************)
(* An instance of RealtimeChannel for TLC: the clients of the relay, one   *)
(* at a time: that of the broadcast listener with two streams of one       *)
(* machine or of two, those of the two listeners, and that of the presence *)
(* tracker with two machines, one of which leaves, or which is stopped.    *)
(***************************************************************************)
EXTENDS RealtimeChannel

CONSTANTS c1, c2, c3, A, B

Call(k, t, m) == [kind |-> k, topic |-> t, machine |-> m]
Nothing == Call("never", A, A)
Of(x, y, z) == [c \in Calls |-> IF c = c1 THEN x ELSE IF c = c2 THEN y ELSE z]

MCPlans ==
  {Of(Call("machine", A, A), Call("machine", A, A), Nothing),
   Of(Call("machine", A, A), Call("machine", B, B), Nothing),
   Of(Call("table", A, A), Nothing, Nothing),
   Of(Call("relays", A, A), Nothing, Nothing),
   Of(Call("add", A, A), Call("add", A, B), Call("remove", A, A)),
   Of(Call("add", A, A), Call("add", A, B), Call("stop", A, A))}
================================================================================
