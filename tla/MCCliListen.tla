------------------------------ MODULE MCCliListen ------------------------------
(***************************************************************************)
(* An instance of CliListen for TLC: three events, all forwarded, or with  *)
(* a gap, by a client with a login and by one without; or shown in a GUI   *)
(* that keeps two of them and has one page.                                *)
(***************************************************************************)
EXTENDS CliListen

CONSTANTS page

MCPosts == Ids
MCSessions ==
  {[anonymous |-> a, forwarded |-> f, gui |-> FALSE] : a \in BOOLEAN, f \in {Ids, Ids \ {2}}}
    \cup {[anonymous |-> FALSE, forwarded |-> {}, gui |-> TRUE]}
================================================================================
