------------------------------- MODULE CliAccount ------------------------------
(***************************************************************************)
(* What the commands of the CLI do to ~/.hookie/config.json and to the     *)
(* keyring: config.Load, which every command that needs the account calls  *)
(* (kind "load"), hookie login and hookie logout.  Commands are processes  *)
(* of their own and nothing locks the file.                                *)
(*                                                                         *)
(* A file that is missing, or that os.WriteFile has truncated and not      *)
(* filled yet, reads as Empty.  One of an earlier version may still hold   *)
(* the token.  What the browser gets to see, the name of the user and the  *)
(* format of the token are left out.  The keyring may refuse a request.    *)
(* On darwin the item that it has is removed before a token is stored,     *)
(* which takes two calls of it.                                            *)
(***************************************************************************)
EXTENDS Naturals, FiniteSets

CONSTANTS
  Commands,
  Callbacks,    (* requests to /callback                                    *)
  Ports,        (* preferredPorts, or any other that is free                *)
  None,
  Plans         (* bound: which commands and callbacks there are, and what  *)
                (* the file and the keyring hold at first                   *)

Kinds == {"load", "login", "logout", "never"}
Ids == Commands \cup {"old", None}      (* named after who made them        *)
Tokens == Commands \cup {"old", None}
Configs == [relay : BOOLEAN, machine : Ids, token : Tokens]
Empty == [relay |-> FALSE, machine |-> None, token |-> None]

ASSUME AccountAssumption ==
  /\ IsFiniteSet(Commands) /\ IsFiniteSet(Callbacks) /\ None \notin Commands
  /\ Cardinality(Ports) >= Cardinality(Commands)
  /\ Plans \subseteq [kind : [Commands -> Kinds], file : Configs, keyring : Tokens,
                      window : [Callbacks -> Commands], good : [Callbacks -> BOOLEAN]]

VARIABLES
  plan,
  file,       (* config.json                                                *)
  keyring,
  at,         (* where each command is                                      *)
  cfg,        (* its Config                                                 *)
  port,       (* of the callback server of a login                          *)
  server,     (* ReceiveSignInToken: none, starting, up, down (it could not *)
              (* listen), closing, over                                     *)
  took,       (* what its select has taken: a token or an error             *)
  tokens,     (* its tokenChan                                              *)
  errors,     (* its errorChan                                              *)
  callback,   (* of each request: unsent, open (its connection is there and *)
              (* it is not complete), handling, done                        *)
  by,         (* whose server has accepted it                               *)
  owed,       (* history: the token of the last login or migration, or none *)
  disowned,   (* history: see SettingsAreKept                               *)
  meddled

fileVars   == <<file, meddled>>
tokenVars  == <<keyring, owed, disowned>>
serverVars == <<port, server, took, tokens, errors>>
webVars    == <<callback, by>>
vars == <<plan, fileVars, tokenVars, at, cfg, serverVars, webVars>>

Kind(c) == plan.kind[c]

Init ==
  /\ plan \in Plans
  /\ file = plan.file /\ keyring = plan.keyring
  /\ at = [c \in Commands |-> IF Kind(c) = "never" THEN "never" ELSE "new"]
  /\ cfg = [c \in Commands |-> Empty]
  /\ port \in [Commands -> {CHOOSE p \in Ports : TRUE}]
  /\ server = [c \in Commands |-> "none"]
  /\ took = [c \in Commands |-> None]
  /\ tokens = [c \in Commands |-> None]
  /\ errors = [c \in Commands |-> FALSE]
  /\ callback = [r \in Callbacks |-> "unsent"]
  /\ by = [r \in Callbacks |-> None]
  /\ owed = IF file.token # None THEN file.token ELSE keyring
  /\ disowned = FALSE /\ meddled = FALSE

Ended == {"never", "done", "failed", "timedOut", "crashed"}
Goes(c, to) == at' = [at EXCEPT ![c] = to]

(* Commands that are about to write the file or to remove it; and that it  *)
(* has lost the token, or soon will, which the keyring does not hold.      *)
Erasing == {d \in Commands : at[d] \in {"truncate", "write", "remove"}}
Lost == keyring # owed /\ (file.token = None \/ Erasing # {})

--------------------------------------------------------------------------------
(* saveConfigFile: os.WriteFile truncates, then writes.  A Load without a  *)
(* machine_id makes one and saves; one that cannot goes on with it.        *)
AfterSave(c) ==
  IF Kind(c) = "login" THEN Goes(c, "done") /\ UNCHANGED cfg
  ELSE IF cfg[c].machine = None
  THEN Goes(c, "truncate") /\ cfg' = [cfg EXCEPT ![c].machine = c]
  ELSE Goes(c, "fetch") /\ UNCHANGED cfg

Truncate(c) ==
  /\ at[c] = "truncate"
  /\ file' = Empty
  /\ Goes(c, "write")
  /\ meddled' = (meddled \/ Kind(c) = "login")
  /\ UNCHANGED <<plan, tokenVars, cfg, serverVars, webVars>>

\* Mutant: only the field that has changed is written.
WriteMachineOnly(c) ==
  /\ at[c] = "write"
  /\ file' = [Empty EXCEPT !.machine = cfg[c].machine]
  /\ AfterSave(c)
  /\ UNCHANGED <<plan, meddled, tokenVars, serverVars, webVars>>

Write(c) ==
  /\ at[c] = "write"
  /\ file' = [cfg[c] EXCEPT !.token = None]
  /\ AfterSave(c)
  /\ UNCHANGED <<plan, meddled, tokenVars, serverVars, webVars>>

SaveFails(c) ==
  /\ at[c] \in {"truncate", "write"}
  /\ IF Kind(c) = "login" THEN Goes(c, "failed") /\ UNCHANGED cfg ELSE AfterSave(c)
  /\ meddled' = TRUE
  /\ disowned' = (disowned \/ file.token # None)
  /\ UNCHANGED <<plan, file, keyring, owed, serverVars, webVars>>

--------------------------------------------------------------------------------
(* Load.                                                                   *)
Writing == {d \in Commands : at[d] = "write"}
Making  == {d \in Commands : Kind(d) = "load" /\ at[d] \in {"migrate", "set", "truncate", "write"}}

Read(c) ==
  /\ at[c] = "new" /\ Kind(c) = "load"
  /\ IF file.token = None /\ file.machine = None
     THEN cfg' = [cfg EXCEPT ![c] = [file EXCEPT !.machine = c]] /\ Goes(c, "truncate")
     ELSE /\ cfg' = [cfg EXCEPT ![c] = file]
          /\ Goes(c, IF file.token = None THEN "fetch" ELSE "migrate")
  /\ meddled' = (meddled \/ Writing # {} \/ (file.machine = None /\ Making # {}))
  /\ UNCHANGED <<plan, file, tokenVars, serverVars, webVars>>

(* What Save and migrateTokenToKeyring do before they store a token: on    *)
(* darwin the old item is removed, which may fail, and elsewhere nothing.  *)
RemoveOld(c, removed) ==
  /\ at[c] \in {"migrate", "save"}
  /\ keyring' = IF removed THEN None ELSE keyring
  /\ Goes(c, "set")
  /\ UNCHANGED <<plan, fileVars, owed, disowned, cfg, serverVars, webVars>>

(* The rest of migrateTokenToKeyring, and the file without the token.  It  *)
(* is not ok when there is no keyring, or when Set fails.                  *)
Migrate(c, ok) ==
  /\ at[c] = "set" /\ Kind(c) = "load"
  /\ IF ok
     THEN /\ keyring' = cfg[c].token
          /\ Goes(c, "truncate") /\ UNCHANGED cfg
          /\ disowned' = (disowned \/ owed # cfg[c].token)
     ELSE /\ disowned' = (disowned \/ cfg[c].machine = None \/ Lost)
          /\ UNCHANGED keyring
          /\ IF cfg[c].machine = None
             THEN Goes(c, "truncate") /\ cfg' = [cfg EXCEPT ![c].machine = c]
             ELSE Goes(c, "fetch") /\ UNCHANGED cfg
  /\ UNCHANGED <<plan, fileVars, owed, serverVars, webVars>>

Fetch(c, ok) ==
  /\ at[c] = "fetch"
  /\ cfg' = [cfg EXCEPT ![c].token = IF ok THEN keyring ELSE None]
  /\ Goes(c, "done")
  /\ UNCHANGED <<plan, fileVars, tokenVars, serverVars, webVars>>

(* hookie logout: Clear.  That the keyring has refused is not reported.    *)
RemoveToken(c, ok) ==
  /\ at[c] = "new" /\ Kind(c) = "logout"
  /\ keyring' = IF ok THEN None ELSE keyring
  /\ disowned' = (disowned \/ (~ok /\ keyring # None))
  /\ owed' = None
  /\ Goes(c, "remove")
  /\ UNCHANGED <<plan, fileVars, cfg, serverVars, webVars>>

RemoveFile(c, ok) ==
  /\ at[c] = "remove"
  /\ file' = IF ok THEN Empty ELSE file
  /\ Goes(c, IF ok THEN "done" ELSE "failed")
  /\ meddled' = TRUE
  /\ disowned' = (disowned \/ (~ok /\ file.token # None))
  /\ UNCHANGED <<plan, keyring, owed, cfg, serverVars, webVars>>

--------------------------------------------------------------------------------
(* hookie login: it finds a free port, and its server asks for it again    *)
(* while the browser opens.                                                *)
Listening(p) == {d \in Commands : server[d] = "up" /\ port[d] = p /\ at[d] \notin Ended}

Probe(c) ==
  /\ at[c] = "new" /\ Kind(c) = "login"
  /\ \E p \in Ports : Listening(p) = {} /\ port' = [port EXCEPT ![c] = p]
  /\ server' = [server EXCEPT ![c] = "starting"]
  /\ Goes(c, "probed")
  /\ UNCHANGED <<plan, fileVars, tokenVars, cfg, took, tokens, errors, webVars>>

\* Mutant: the port that was free is taken without asking again.
ListenAnyway(c) ==
  /\ server[c] = "starting" /\ at[c] \notin Ended
  /\ server' = [server EXCEPT ![c] = "up"]
  /\ UNCHANGED <<plan, fileVars, tokenVars, at, cfg, port, took, tokens, errors, webVars>>

Listen(c) ==
  /\ server[c] = "starting" /\ at[c] \notin Ended
  /\ IF Listening(port[c]) = {}
     THEN server' = [server EXCEPT ![c] = "up"] /\ UNCHANGED errors
     ELSE /\ server' = [server EXCEPT ![c] = "down"]
          /\ errors' = [errors EXCEPT ![c] = TRUE]
  /\ UNCHANGED <<plan, fileVars, tokenVars, at, cfg, port, took, tokens, webVars>>

OpenBrowser(c) ==
  /\ at[c] = "probed"
  /\ Goes(c, "asking")
  /\ UNCHANGED <<plan, fileVars, tokenVars, cfg, serverVars, webVars>>

(* The page of a login, or somebody else, calls the port.  The request may *)
(* take its time, also when the server closes, or not come at all; it is   *)
(* bad when it is not a GET or brings no token.                            *)
Connect(r, d) ==
  LET w == plan.window[r]
  IN /\ callback[r] = "unsent" /\ at[w] \notin {"new", "probed"} /\ Kind(w) = "login"
     /\ d \in Listening(port[w])
     /\ callback' = [callback EXCEPT ![r] = "open"]
     /\ by' = [by EXCEPT ![r] = d]
     /\ UNCHANGED <<plan, fileVars, tokenVars, at, cfg, serverVars>>

Callback(r) ==
  /\ callback[r] = "open" /\ at[by[r]] \notin Ended /\ server[by[r]] # "over"
  /\ callback' = [callback EXCEPT ![r] = "handling"]
  /\ UNCHANGED <<plan, fileVars, tokenVars, at, cfg, serverVars, by>>

HangUp(r) ==
  /\ callback[r] = "open"
  /\ callback' = [callback EXCEPT ![r] = "done"]
  /\ UNCHANGED <<plan, fileVars, tokenVars, at, cfg, serverVars, by>>

(* The handler waits for room in a channel of one.                         *)
HasRoom(r) == IF plan.good[r] THEN tokens[by[r]] = None ELSE ~errors[by[r]]

PutIn(r) ==
  /\ callback[r] = "handling" /\ at[by[r]] \notin Ended /\ HasRoom(r)
  /\ IF plan.good[r]
     THEN tokens' = [tokens EXCEPT ![by[r]] = plan.window[r]] /\ UNCHANGED errors
     ELSE errors' = [errors EXCEPT ![by[r]] = TRUE] /\ UNCHANGED tokens
  /\ callback' = [callback EXCEPT ![r] = "done"]
  /\ UNCHANGED <<plan, fileVars, tokenVars, at, cfg, port, server, took, by>>

(* The select, and server.Shutdown, which waits for the handlers and for   *)
(* connections without a request: 5 s where nothing has come, else with no *)
(* limit.                                                                  *)
TakeToken(c) ==
  /\ server[c] \in {"up", "down"} /\ at[c] \notin Ended /\ tokens[c] # None
  /\ took' = [took EXCEPT ![c] = tokens[c]]
  /\ tokens' = [tokens EXCEPT ![c] = None]
  /\ server' = [server EXCEPT ![c] = "closing"]
  /\ UNCHANGED <<plan, fileVars, tokenVars, at, cfg, port, errors, webVars>>

TakeError(c) ==
  /\ server[c] \in {"up", "down"} /\ at[c] \notin Ended /\ errors[c]
  /\ errors' = [errors EXCEPT ![c] = FALSE]
  /\ server' = [server EXCEPT ![c] = "closing"]
  /\ UNCHANGED <<plan, fileVars, tokenVars, at, cfg, port, took, tokens, webVars>>

WaitsLong(c) ==     (* five minutes                                        *)
  /\ server[c] = "up" /\ at[c] \notin Ended
  /\ server' = [server EXCEPT ![c] = "closing"]
  /\ UNCHANGED <<plan, fileVars, tokenVars, at, cfg, port, took, tokens, errors, webVars>>

ShutDown(c) ==
  /\ server[c] = "closing" /\ at[c] \notin Ended
  /\ \A r \in Callbacks : by[r] = c => callback[r] \notin {"open", "handling"}
  /\ server' = [server EXCEPT ![c] = "over"]
  /\ UNCHANGED <<plan, fileVars, tokenVars, at, cfg, port, took, tokens, errors, webVars>>

Received(c) ==
  /\ at[c] = "asking" /\ server[c] = "over"
  /\ IF took[c] = None
     THEN Goes(c, "failed") /\ UNCHANGED cfg
     ELSE Goes(c, "verify") /\ cfg' = [cfg EXCEPT ![c].token = took[c]]
  /\ UNCHANGED <<plan, fileVars, tokenVars, serverVars, webVars>>

(* The command's own five minutes, whatever the server is at.              *)
\* Mutant: the command leaves the time limit to the server.
GivesUpNever(c) ==
  /\ at[c] = "asking" /\ server[c] = "none"
  /\ Goes(c, "timedOut")
  /\ UNCHANGED <<plan, fileVars, tokenVars, cfg, serverVars, webVars>>

GivesUp(c) ==
  /\ at[c] = "asking"
  /\ Goes(c, "timedOut")
  /\ UNCHANGED <<plan, fileVars, tokenVars, cfg, serverVars, webVars>>

Verify(c, ok) ==
  /\ at[c] = "verify"
  /\ Goes(c, IF ok THEN "save" ELSE "failed")
  /\ UNCHANGED <<plan, fileVars, tokenVars, cfg, serverVars, webVars>>

(* The rest of Save: the keyring, then a file with nothing in it.          *)
StoreToken(c, ok) ==
  /\ at[c] = "set" /\ Kind(c) = "login"
  /\ keyring' = IF ok THEN cfg[c].token ELSE keyring
  /\ owed' = cfg[c].token
  /\ disowned' = (disowned \/ ~ok)
  /\ Goes(c, "truncate")
  /\ UNCHANGED <<plan, fileVars, cfg, serverVars, webVars>>

--------------------------------------------------------------------------------
(* A command that is killed.                                               *)
Crash(c) ==
  /\ at[c] \notin Ended \cup {"new"}
  /\ Goes(c, "crashed")
  /\ meddled' = (meddled \/ at[c] = "write")
  /\ disowned' = (disowned \/ file.token \notin {None, owed} \/ (at[c] = "set" /\ Lost))
  /\ UNCHANGED <<plan, file, keyring, owed, cfg, serverVars, webVars>>

Work(c) ==
  \/ Truncate(c) \/ Write(c) \/ SaveFails(c)
  \/ \E ok \in BOOLEAN :
       \/ RemoveOld(c, ok) \/ Migrate(c, ok) \/ StoreToken(c, ok)
       \/ Fetch(c, ok) \/ RemoveFile(c, ok) \/ Verify(c, ok)
  \/ Listen(c) \/ OpenBrowser(c) \/ TakeToken(c) \/ TakeError(c) \/ WaitsLong(c) \/ ShutDown(c)
  \/ Received(c) \/ GivesUp(c)

Start(c) == Read(c) \/ Probe(c) \/ \E ok \in BOOLEAN : RemoveToken(c, ok)

Next ==
  \/ \E c \in Commands : Work(c) \/ Start(c) \/ Crash(c)
  \/ \E r \in Callbacks :
       Callback(r) \/ HangUp(r) \/ PutIn(r) \/ \E d \in Commands : Connect(r, d)

(* A command that runs goes on, and so do the handlers; time passes.  That *)
(* a request comes to its end, or a connection to its own, is not assumed. *)
Fairness ==
  /\ \A c \in Commands : WF_vars(Work(c))
  /\ \A r \in Callbacks : WF_vars(PutIn(r))

Spec == Init /\ [][Next]_vars /\ Fairness

--------------------------------------------------------------------------------
(* The type invariant; a callback server and its channels are there only   *)
(* for a login that has found a port.                                      *)
TypeOK ==
  /\ plan \in Plans /\ file \in Configs /\ keyring \in Tokens /\ owed \in Tokens
  /\ at \in [Commands -> Ended \cup {"new", "truncate", "write", "migrate", "fetch", "remove",
                                     "probed", "asking", "verify", "save", "set"}]
  /\ cfg \in [Commands -> Configs] /\ port \in [Commands -> Ports]
  /\ server \in [Commands -> {"none", "starting", "up", "down", "closing", "over"}]
  /\ took \in [Commands -> Tokens] /\ tokens \in [Commands -> Tokens]
  /\ errors \in [Commands -> BOOLEAN]
  /\ callback \in [Callbacks -> {"unsent", "open", "handling", "done"}]
  /\ by \in [Callbacks -> Commands \cup {None}]
  /\ disowned \in BOOLEAN /\ meddled \in BOOLEAN
  /\ \A p \in Ports : Cardinality(Listening(p)) <= 1
  /\ \A c \in Commands : at[c] = "done" /\ Kind(c) = "load" => cfg[c].machine # None

(* What the commands leave behind when none of them is under way.  The     *)
(* token is that of the last login, or nothing after a logout, except      *)
(* that                                                                    *)
(*   - the keyring has refused a login, or a logout, or the migration of a *)
(*     file that had no machine_id;                                        *)
(*   - one that had removed the old item was killed before it stored the   *)
(*     token, or a migration was refused then, and the file had lost it    *)
(*     too, or another command was about to write that;                    *)
(*   - an old file has outlived the login or the logout, in a Load that    *)
(*     had read it or because the command was cut short.                   *)
(* The machine_id and the relay_url stay as they were, and all Loads use   *)
(* that machine_id, unless a login or a logout has come, a file could not  *)
(* be written to its end, or a Load has read it while another wrote it or  *)
(* was about to give it its first machine_id.                              *)
Quiet == \A c \in Commands : at[c] \in Ended \cup {"new"}
Stored == IF file.token # None THEN file.token ELSE keyring
Loaded == {c \in Commands : Kind(c) = "load" /\ at[c] = "done"}

SettingsAreKept ==
  Quiet =>
    /\ disowned \/ Stored = owed
    /\ meddled \/ /\ file.relay = plan.file.relay
                  /\ plan.file.machine # None => file.machine = plan.file.machine
                  /\ \A c \in Loaded : cfg[c].machine = file.machine

(* A command that has begun ends: a login with what it has received, or at *)
(* the latest when its time is up, however many requests its server has    *)
(* accepted, and although some wait for room in a channel that is full, or *)
(* never come to their end, so that the server does not shut down.         *)
CommandsEnd == \A c \in Commands : at[c] # "new" ~> at[c] \in Ended
================================================================================
