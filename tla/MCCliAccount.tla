------------------------------ MODULE MCCliAccount -----------------------------
(***************************************************************************)
(* An instance of CliAccount for TLC, with three callbacks: two commands   *)
(* of every kind, from a new file, an old one or none; a login with every  *)
(* mixture of good and bad callbacks; and two logins at once.              *)
(***************************************************************************)
EXTENDS CliAccount

CONSTANTS c1, c2, r1, r2, r3

File(m, t) == [relay |-> TRUE, machine |-> m, token |-> t]
Pairs == {<<"load", "load">>, <<"load", "login">>, <<"load", "logout">>, <<"login", "logout">>}
Held == {<<Empty, None>>, <<File("old", None), "old">>,
         <<File("old", "old"), None>>, <<File(None, "old"), None>>}

Plan(k, h, w, g) ==
  [kind |-> [c \in Commands |-> IF c = c1 THEN k[1] ELSE k[2]], file |-> h[1], keyring |-> h[2],
   window |-> w, good |-> g]

MCPlans ==
  {Plan(k, h, [r \in Callbacks |-> IF k[1] = "login" THEN c1 ELSE c2],
        [r \in Callbacks |-> r = r1]) : k \in Pairs, h \in Held}
  \cup {Plan(<<"login", "never">>, <<File("old", None), None>>, [r \in Callbacks |-> c1], g) :
          g \in [Callbacks -> BOOLEAN]}
  \cup {Plan(<<"login", "login">>, <<Empty, None>>, [r \in Callbacks |-> IF r = r2 THEN c2 ELSE c1],
             [r \in Callbacks |-> TRUE])}
================================================================================
