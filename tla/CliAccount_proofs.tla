--------------------------- MODULE CliAccount_proofs ----------------------------
(***************************************************************************)
(* Proofs about CliAccount, for any number of commands and callbacks, and  *)
(* whatever the file and the keyring hold at first.                        *)
(***************************************************************************)
EXTENDS CliAccount, FiniteSetTheorems, TLAPS

--------------------------------------------------------------------------------
(* TypeOK by parts: the types, that no two servers listen on one port, and *)
(* (in PlacesInv) the machine_id of a Load that has ended.                 *)
Types ==
  /\ plan \in Plans /\ file \in Configs /\ keyring \in Tokens /\ owed \in Tokens
  /\ at \in [Commands -> Ended \cup {"new", "truncate", "write", "migrate", "fetch", "remove",
                                     "probed", "asking", "verify", "save", "set"}]
  /\ cfg \in [Commands -> Configs] /\ port \in [Commands -> Ports]
  /\ server \in [Commands -> {"none", "starting", "up", "down", "closing", "over"}]
  /\ took \in [Commands -> Tokens] /\ tokens \in [Commands -> Tokens]
  /\ errors \in [Commands -> BOOLEAN]
  /\ callback \in [Callbacks -> {"unsent", "open", "handling", "done"}]
  /\ by \in [Callbacks -> Commands \cup {None}]
  /\ disowned \in BOOLEAN /\ meddled \in BOOLEAN

Alone == \A p \in Ports : \A c, d \in Listening(p) : c = d

(* Which commands get where, and what the file can hold: nothing writes a  *)
(* token to it.                                                            *)
PlacesInv ==
  /\ file = plan.file \/ file.token = None
  /\ \A c \in Commands :
       /\ at[c] \in {"migrate", "fetch"} => Kind(c) = "load"
       /\ at[c] \in {"set", "truncate", "write"} => Kind(c) \in {"load", "login"}
       /\ at[c] = "remove" => Kind(c) = "logout"
       /\ at[c] \in {"probed", "asking", "verify", "save"} => Kind(c) = "login"
       /\ Kind(c) = "load" /\ at[c] \in {"fetch", "done"} => cfg[c].machine # None

(* The token that is owed is in the keyring as soon as a command may take  *)
(* it from the file, but while one that may have removed it there is about *)
(* to store one; and the file holds another only while the command that    *)
(* made it an old one is about to remove it.                               *)
Removes(c) == at[c] = "remove" \/ (at[c] = "truncate" /\ Kind(c) = "login")
Kept == keyring = owed \/ \E c \in Commands : at[c] = "set"

TokenInv ==
  ~ disowned =>
    /\ file.token = None => Kept
    /\ Erasing # {} => Kept
    /\ file.token \notin {None, owed} => \E c \in Commands : Removes(c)

(* In Making are the Loads that hold what they have read and may write it. *)
(* They agree with the file as it was; where that had no machine_id, there *)
(* is one of them at a time, and no Load has gone on with a machine_id     *)
(* before it is through.                                                   *)
Readers == {c \in Commands : Kind(c) = "load" /\ at[c] \in {"fetch", "done"}}

OldMachine ==
  /\ Writing = {} => file.machine = plan.file.machine
  /\ \A c \in Making \cup Readers : cfg[c].machine = plan.file.machine

NewMachine ==
  /\ \A c, d \in Making : c = d
  /\ \A c \in Making : file.machine = None /\ Readers = {}
  /\ \A c \in Making : at[c] \in {"migrate", "set"} => cfg[c].machine = None
  /\ \A c \in Readers : cfg[c].machine = file.machine

FileInv ==
  ~ meddled =>
    /\ Writing \subseteq Making
    /\ Writing = {} => file.relay = plan.file.relay
    /\ \A c \in Making : cfg[c].relay = plan.file.relay
    /\ IF plan.file.machine = None THEN NewMachine ELSE OldMachine

AccountInv == Types /\ Alone /\ PlacesInv /\ TokenInv /\ FileInv

--------------------------------------------------------------------------------
(* The parts of a plan.                                                    *)
LEMMA PlanTypes ==
  ASSUME NEW p \in Plans
  PROVE  /\ p.kind \in [Commands -> Kinds] /\ p.file \in Configs /\ p.keyring \in Tokens
         /\ p.window \in [Callbacks -> Commands] /\ p.good \in [Callbacks -> BOOLEAN]
BY AccountAssumption

(* A port has one callback server when no two of those listening differ.   *)
LEMMA OneAtMost ==
  ASSUME NEW S \in SUBSET Commands
  PROVE  Cardinality(S) <= 1 <=> \A c, d \in S : c = d
<1>1. IsFiniteSet(S)
  BY AccountAssumption, FS_Subset
<1>2. CASE S = {}
  BY <1>2, FS_EmptySet
<1>3. ASSUME NEW c \in S
      PROVE  Cardinality(S) <= 1 <=> \A a, b \in S : a = b
  <2>1. IsFiniteSet(S \ {c}) /\ Cardinality(S \ {c}) = Cardinality(S) - 1
    BY <1>1, FS_RemoveElement
  <2>2. Cardinality(S \ {c}) \in Nat /\ Cardinality(S) \in Nat
    BY <1>1, <2>1, FS_CardinalityType
  <2>3. Cardinality(S \ {c}) = 0 <=> S \ {c} = {}
    BY <2>1, FS_EmptySet
  <2>4. Cardinality(S) <= 1 <=> S \ {c} = {}
    BY <2>1, <2>2, <2>3
  <2>5. S \ {c} = {} <=> \A a, b \in S : a = b
    OBVIOUS
  <2>6. QED
    BY <2>4, <2>5
<1>4. QED
  BY <1>2, <1>3

(* TypeOK is Types with Alone and a part of PlacesInv.                     *)
LEMMA TypesSplit == Types /\ Alone /\ PlacesInv => TypeOK
<1>1. \A p \in Ports : Cardinality(Listening(p)) <= 1 <=> \A c, d \in Listening(p) : c = d
  <2> TAKE p \in Ports
  <2>1. Listening(p) \in SUBSET Commands
    BY DEF Listening
  <2>2. QED
    BY <2>1, OneAtMost
<1>2. QED
  BY <1>1 DEF TypeOK, Types, Alone, PlacesInv

(* The settings with another machine_id or token are still settings.       *)
LEMMA Settings ==
  ASSUME NEW x \in Configs, NEW m \in Ids, NEW t \in Tokens
  PROVE  /\ [x EXCEPT !.machine = m] \in Configs /\ [x EXCEPT !.token = t] \in Configs
         /\ [x EXCEPT !.machine = m].relay = x.relay /\ [x EXCEPT !.machine = m].machine = m
         /\ [x EXCEPT !.machine = m].token = x.token
         /\ [x EXCEPT !.token = t].relay = x.relay /\ [x EXCEPT !.token = t].machine = x.machine
         /\ [x EXCEPT !.token = t].token = t
         /\ x.relay \in BOOLEAN /\ x.machine \in Ids /\ x.token \in Tokens
BY DEF Configs

LEMMA Nothing ==
  Empty \in Configs /\ Empty.machine = None /\ Empty.token = None /\ None \in Ids /\ None \in Tokens
BY DEF Empty, Configs, Ids, Tokens

(* A command changes no place but its own, and writes no settings but its  *)
(* own.                                                                    *)
LEMMA SaveEnds ==
  ASSUME Types, NEW c \in Commands, AfterSave(c)
  PROVE  \/ Kind(c) = "login" /\ at' = [at EXCEPT ![c] = "done"] /\ cfg' = cfg
         \/ /\ Kind(c) # "login" /\ cfg[c].machine = None
            /\ at' = [at EXCEPT ![c] = "truncate"]
            /\ cfg' = [cfg EXCEPT ![c] = [cfg[c] EXCEPT !.machine = c]]
         \/ /\ Kind(c) # "login" /\ cfg[c].machine # None
            /\ at' = [at EXCEPT ![c] = "fetch"] /\ cfg' = cfg
BY DEF AfterSave, Goes, Types

--------------------------------------------------------------------------------
(* Types.                                                                  *)
LEMMA InitAccount == Init => AccountInv
<1> SUFFICES ASSUME Init PROVE AccountInv
  OBVIOUS
<1>1. /\ plan \in Plans /\ plan.file \in Configs /\ plan.keyring \in Tokens
      /\ plan.kind \in [Commands -> Kinds]
  BY PlanTypes DEF Init
<1>2. port \in [Commands -> Ports]
  <2>1. CASE Ports = {}
    <3>1. Cardinality(Commands) \in Nat /\ Cardinality(Commands) <= 0
      BY <2>1, AccountAssumption, FS_EmptySet, FS_CardinalityType
    <3>2. Commands = {}
      BY <3>1, AccountAssumption, FS_EmptySet
    <3>3. QED
      BY <3>2 DEF Init
  <2>2. CASE Ports # {}
    BY <2>2 DEF Init
  <2>3. QED
    BY <2>1, <2>2
<1>3. /\ file = plan.file /\ keyring = plan.keyring
      /\ owed = IF file.token # None THEN file.token ELSE keyring
  BY DEF Init
<1>4. file.token \in Tokens /\ owed \in Tokens
  BY <1>1, <1>3 DEF Configs
<1>5. \A c \in Commands : at[c] \in {"never", "new"}
  BY DEF Init
<1>6. Types
  BY <1>1, <1>2, <1>3, <1>4, Nothing DEF Init, Types, Ended
<1>7. Alone
  BY DEF Init, Alone, Listening
<1>8. PlacesInv
  BY <1>3, <1>5 DEF PlacesInv
<1>9. TokenInv
  BY <1>3, <1>5 DEF TokenInv, Kept, Erasing
<1>10. Making = {} /\ Readers = {} /\ Writing = {}
  BY <1>5 DEF Making, Readers, Writing
<1>11. FileInv
  BY <1>3, <1>10 DEF FileInv, NewMachine, OldMachine
<1>12. QED
  BY <1>6, <1>7, <1>8, <1>9, <1>11 DEF AccountInv

LEMMA TypesStep == Types /\ [Next]_vars => Types'
<1> SUFFICES ASSUME Types, [Next]_vars PROVE Types'
  OBVIOUS
<1> USE DEF fileVars, tokenVars, serverVars, webVars, Goes
<1>1. \A c \in Commands : cfg[c] \in Configs /\ took[c] \in Tokens /\ tokens[c] \in Tokens
  BY DEF Types
<1>2. \A c \in Commands : c \in Ids /\ c \in Tokens
  BY DEF Ids, Tokens
<1>3. ASSUME NEW c \in Commands, Truncate(c) PROVE Types'
  BY <1>3, Nothing DEF Truncate, Types, Ended
<1>4. ASSUME NEW c \in Commands, AfterSave(c),
             UNCHANGED <<plan, serverVars, webVars, keyring, owed>>,
             file' \in Configs, disowned' \in BOOLEAN, meddled' \in BOOLEAN
      PROVE  Types'
  <2>1. [cfg[c] EXCEPT !.machine = c] \in Configs
    BY <1>1, <1>2, Nothing, Settings
  <2>2. cfg' \in [Commands -> Configs]
    BY <1>4, <2>1, SaveEnds DEF Types
  <2>3. at' \in [Commands -> Ended \cup {"new", "truncate", "write", "migrate", "fetch", "remove",
                                     "probed", "asking", "verify", "save", "set"}]
    BY <1>4, SaveEnds DEF Types, Ended
  <2>4. QED
    BY <1>4, <2>2, <2>3 DEF Types
<1>5. ASSUME NEW c \in Commands, Write(c) PROVE Types'
  <2>1. [cfg[c] EXCEPT !.token = None] \in Configs
    BY <1>1, Nothing, Settings
  <2>2. QED
    BY <1>4, <1>5, <2>1 DEF Write, Types
<1>6. ASSUME NEW c \in Commands, SaveFails(c) PROVE Types'
  <2>1. CASE Kind(c) = "login"
    BY <1>6, <2>1 DEF SaveFails, Types, Ended
  <2>2. CASE Kind(c) # "login"
    BY <1>4, <1>6, <2>2 DEF SaveFails, Types
  <2>3. QED
    BY <2>1, <2>2
<1>7. ASSUME NEW c \in Commands, Read(c) PROVE Types'
  <2>1. [file EXCEPT !.machine = c] \in Configs
    BY <1>2, Nothing, Settings DEF Types
  <2>2. QED
    BY <1>7, <2>1 DEF Read, Types, Ended
<1>8. ASSUME NEW c \in Commands, NEW ok \in BOOLEAN, Migrate(c, ok) PROVE Types'
  <2>1. [cfg[c] EXCEPT !.machine = c] \in Configs /\ cfg[c].token \in Tokens
    BY <1>1, <1>2, Nothing, Settings
  <2>2. keyring' \in Tokens
    BY <1>8, <2>1 DEF Migrate, Types
  <2>3. /\ cfg' \in [Commands -> Configs]
        /\ at' \in [Commands -> Ended \cup {"new", "truncate", "write", "migrate", "fetch", "remove",
                                     "probed", "asking", "verify", "save", "set"}]
    BY <1>8, <2>1 DEF Migrate, Types
  <2>4. disowned' \in BOOLEAN
    BY <1>8 DEF Migrate, Types
  <2>5. QED
    BY <1>8, <2>2, <2>3, <2>4 DEF Migrate, Types
<1>9. ASSUME NEW c \in Commands, NEW ok \in BOOLEAN, Fetch(c, ok) PROVE Types'
  <2>1. \A t \in Tokens : [cfg[c] EXCEPT !.token = t] \in Configs
    BY <1>1, Nothing, Settings
  <2>2. (IF ok THEN keyring ELSE None) \in Tokens
    BY Nothing DEF Types
  <2>3. QED
    BY <1>9, <2>1, <2>2 DEF Fetch, Types, Ended
<1>10. ASSUME NEW c \in Commands, NEW ok \in BOOLEAN,
              RemoveOld(c, ok) \/ RemoveToken(c, ok) \/ RemoveFile(c, ok)
       PROVE  Types'
  BY <1>10, Nothing DEF RemoveOld, RemoveToken, RemoveFile, Types, Ended
<1>11. ASSUME NEW c \in Commands, NEW ok \in BOOLEAN, Verify(c, ok) \/ StoreToken(c, ok) PROVE Types'
  <2>1. cfg[c].token \in Tokens
    BY <1>1, Nothing, Settings
  <2>2. QED
    BY <1>11, <2>1 DEF Verify, StoreToken, Types, Ended
<1>12. ASSUME NEW c \in Commands, Probe(c) \/ OpenBrowser(c) \/ TakeToken(c) PROVE Types'
  BY <1>1, <1>12, Nothing DEF Probe, OpenBrowser, TakeToken, Types
<1>13. ASSUME NEW c \in Commands, Listen(c) \/ TakeError(c) PROVE Types'
  <2>1. errors' \in [Commands -> BOOLEAN]
    BY <1>13, Zenon DEF Listen, TakeError, Types
  <2>2. server' \in [Commands -> {"none", "starting", "up", "down", "closing", "over"}]
    BY <1>13 DEF Listen, TakeError, Types
  <2>3. UNCHANGED <<plan, fileVars, tokenVars, at, cfg, port, took, tokens, webVars>>
    BY <1>13 DEF Listen, TakeError
  <2>4. QED
    BY <2>1, <2>2, <2>3 DEF Types
<1>14. ASSUME NEW c \in Commands, WaitsLong(c) \/ ShutDown(c) \/ GivesUp(c) PROVE Types'
  BY <1>14 DEF WaitsLong, ShutDown, GivesUp, Types, Ended
<1>15. ASSUME NEW c \in Commands, Received(c) PROVE Types'
  <2>1. [cfg[c] EXCEPT !.token = took[c]] \in Configs
    BY <1>1, Nothing, Settings
  <2>2. QED
    BY <1>15, <2>1 DEF Received, Types, Ended
<1>16. ASSUME NEW c \in Commands, Crash(c) PROVE Types'
  BY <1>16 DEF Crash, Types, Ended
<1>17. ASSUME NEW r \in Callbacks, Callback(r) \/ HangUp(r) \/ \E d \in Commands : Connect(r, d)
       PROVE  Types'
  BY <1>17 DEF Callback, HangUp, Connect, Types
<1>18. ASSUME NEW r \in Callbacks, PutIn(r) PROVE Types'
  <2>1. plan.window[r] \in Tokens
    BY <1>2, PlanTypes DEF Types
  <2>2. QED
    BY <1>18, <2>1 DEF PutIn, Types
<1>19. CASE UNCHANGED vars
  BY <1>19 DEF vars, Types
<1>20. QED
  BY <1>3, <1>5, <1>6, <1>7, <1>8, <1>9, <1>10, <1>11, <1>12, <1>13, <1>14, <1>15, <1>16, <1>17, <1>18, <1>19
  DEF Next, Work, Start

(* A server listens only on a port that nobody else listens on, and stays  *)
(* on it.                                                                  *)
LEMMA AloneStep == Types /\ Alone /\ [Next]_vars => Alone'
<1> SUFFICES ASSUME Types, Alone, [Next]_vars PROVE Alone'
  OBVIOUS
<1> USE DEF fileVars, tokenVars, serverVars, webVars, Goes
<1>1. ASSUME \A p \in Ports : Listening(p)' \subseteq Listening(p)
      PROVE  Alone'
  BY <1>1 DEF Alone
<1>2. ASSUME UNCHANGED <<port, server>>, \A c \in Commands : at'[c] \notin Ended => at[c] \notin Ended
      PROVE  Alone'
  BY <1>1, <1>2 DEF Listening
<1>3. ASSUME UNCHANGED <<port, server>>, NEW c \in Commands, at[c] \notin Ended,
             \A d \in Commands \ {c} : at'[d] = at[d]
      PROVE  Alone'
  BY <1>2, <1>3
<1>4. ASSUME NEW c \in Commands, Truncate(c) PROVE Alone'
  BY <1>3, <1>4 DEF Truncate, Types, Ended
<1>5. ASSUME NEW c \in Commands, AfterSave(c), at[c] \in {"truncate", "write"}, UNCHANGED <<port, server>>
      PROVE  Alone'
  BY <1>3, <1>5 DEF AfterSave, Types, Ended
<1>6. ASSUME NEW c \in Commands, Write(c) \/ SaveFails(c) PROVE Alone'
  <2>1. UNCHANGED <<port, server>> /\ at[c] \in {"truncate", "write"}
    BY <1>6 DEF Write, SaveFails
  <2>2. CASE AfterSave(c)
    BY <1>5, <2>1, <2>2
  <2>3. CASE at' = [at EXCEPT ![c] = "failed"]
    BY <1>3, <2>1, <2>3 DEF Types, Ended
  <2>4. QED
    BY <1>6, <2>2, <2>3 DEF Write, SaveFails
<1>7. ASSUME NEW c \in Commands, Read(c) PROVE Alone'
  BY <1>3, <1>7 DEF Read, Types, Ended
<1>8. ASSUME NEW c \in Commands, NEW ok \in BOOLEAN, Migrate(c, ok) \/ Fetch(c, ok) PROVE Alone'
  BY <1>3, <1>8 DEF Migrate, Fetch, Types, Ended
<1>9. ASSUME NEW c \in Commands, NEW ok \in BOOLEAN,
             RemoveOld(c, ok) \/ RemoveToken(c, ok) \/ RemoveFile(c, ok)
      PROVE  Alone'
  BY <1>3, <1>9 DEF RemoveOld, RemoveToken, RemoveFile, Types, Ended
<1>10. ASSUME NEW c \in Commands, NEW ok \in BOOLEAN, Verify(c, ok) \/ StoreToken(c, ok) PROVE Alone'
  BY <1>3, <1>10 DEF Verify, StoreToken, Types, Ended
<1>11. ASSUME NEW c \in Commands, OpenBrowser(c) \/ Received(c) \/ GivesUp(c) PROVE Alone'
  BY <1>3, <1>11 DEF OpenBrowser, Received, GivesUp, Types, Ended
<1>12. ASSUME NEW c \in Commands, Crash(c) PROVE Alone'
  BY <1>3, <1>12 DEF Crash, Types, Ended
<1>13. ASSUME NEW c \in Commands, Probe(c) PROVE Alone'
  <2>1. /\ server' = [server EXCEPT ![c] = "starting"] /\ at' = [at EXCEPT ![c] = "probed"]
        /\ at[c] = "new" /\ \A d \in Commands \ {c} : port'[d] = port[d]
    BY <1>13 DEF Probe, Types
  <2>2. \A p \in Ports : Listening(p)' \subseteq Listening(p)
    BY <2>1 DEF Listening, Types, Ended
  <2>3. QED
    BY <1>1, <2>2
<1>14. ASSUME NEW c \in Commands, Listen(c) PROVE Alone'
  <2>1. at' = at /\ port' = port
    BY <1>14 DEF Listen
  <2>2. CASE Listening(port[c]) = {}
    <3>1. server' = [server EXCEPT ![c] = "up"]
      BY <1>14, <2>2 DEF Listen
    <3>2. \A p \in Ports : Listening(p)' \subseteq Listening(p) \cup {c}
      BY <2>1, <3>1 DEF Listening, Types
    <3>3. \A p \in Ports : p # port[c] => c \notin Listening(p)'
      BY <2>1 DEF Listening
    <3>4. QED
      BY <2>2, <3>2, <3>3 DEF Alone
  <2>3. CASE Listening(port[c]) # {}
    <3>1. server' = [server EXCEPT ![c] = "down"]
      BY <1>14, <2>3 DEF Listen
    <3>2. \A p \in Ports : Listening(p)' \subseteq Listening(p)
      BY <2>1, <3>1 DEF Listening, Types
    <3>3. QED
      BY <1>1, <3>2
  <2>4. QED
    BY <2>2, <2>3
<1>15. ASSUME NEW c \in Commands, TakeToken(c) \/ TakeError(c) \/ WaitsLong(c) \/ ShutDown(c) PROVE Alone'
  <2>1. /\ at' = at /\ port' = port
        /\ \E to \in {"closing", "over"} : server' = [server EXCEPT ![c] = to]
    BY <1>15 DEF TakeToken, TakeError, WaitsLong, ShutDown
  <2>2. \A p \in Ports : Listening(p)' \subseteq Listening(p)
    BY <2>1 DEF Listening, Types
  <2>3. QED
    BY <1>1, <2>2
<1>16. ASSUME NEW r \in Callbacks,
              Callback(r) \/ HangUp(r) \/ PutIn(r) \/ \E d \in Commands : Connect(r, d)
       PROVE  Alone'
  BY <1>2, <1>16 DEF PutIn, Callback, HangUp, Connect
<1>17. CASE UNCHANGED vars
  BY <1>2, <1>17 DEF vars
<1>18. QED
  BY <1>4, <1>6, <1>7, <1>8, <1>9, <1>10, <1>11, <1>12, <1>13, <1>14, <1>15, <1>16, <1>17
  DEF Next, Work, Start

--------------------------------------------------------------------------------
(* What a step does to files and tokens.  Most leave both alone, and move  *)
(* at most a login, between places from where nothing is written.          *)
Elsewhere == Ended \cup {"new", "probed", "asking", "verify", "save"}

Aside ==
  /\ UNCHANGED <<fileVars, tokenVars>>
  /\ \A c \in Commands :
       \/ at'[c] = at[c] /\ cfg'[c] = cfg[c]
       \/ /\ Kind(c) = "login" /\ at[c] \in Elsewhere /\ at'[c] \in Elsewhere

Files(c) ==
  \/ Truncate(c) \/ Write(c) \/ SaveFails(c) \/ Read(c) \/ Crash(c)
  \/ \E ok \in BOOLEAN :
       \/ RemoveOld(c, ok) \/ Migrate(c, ok) \/ StoreToken(c, ok)
       \/ Fetch(c, ok) \/ RemoveToken(c, ok) \/ RemoveFile(c, ok)

LEMMA PlanStays == [Next]_vars => plan' = plan /\ \A c \in Commands : Kind(c)' = Kind(c)
<1> SUFFICES ASSUME [Next]_vars PROVE plan' = plan
  BY DEF Kind
<1>1. ASSUME NEW c \in Commands, Work(c) PROVE plan' = plan
  BY <1>1 DEF Work, Truncate, Write, SaveFails, RemoveOld, Migrate, Fetch, RemoveFile, Verify, StoreToken,
              Listen, OpenBrowser, TakeToken, TakeError, WaitsLong, ShutDown, Received, GivesUp
<1>2. ASSUME NEW c \in Commands, Start(c) \/ Crash(c) PROVE plan' = plan
  BY <1>2 DEF Start, Crash, Read, Probe, RemoveToken
<1>3. ASSUME NEW r \in Callbacks,
             Callback(r) \/ HangUp(r) \/ PutIn(r) \/ \E d \in Commands : Connect(r, d)
      PROVE  plan' = plan
  BY <1>3 DEF PutIn, Callback, HangUp, Connect
<1>4. QED
  BY <1>1, <1>2, <1>3 DEF Next, vars

LEMMA AsideOrFiles ==
  ASSUME Types, PlacesInv, [Next]_vars
  PROVE  Aside \/ \E c \in Commands : Files(c)
<1>1. ASSUME UNCHANGED <<fileVars, tokenVars, at, cfg>> PROVE Aside
  BY <1>1 DEF Aside
<1>2. ASSUME NEW c \in Commands, Kind(c) = "login", at[c] \in Elsewhere,
             NEW to \in Elsewhere, at' = [at EXCEPT ![c] = to],
             \A d \in Commands \ {c} : cfg'[d] = cfg[d], UNCHANGED <<fileVars, tokenVars>>
      PROVE  Aside
  BY <1>2 DEF Aside, Types
<1>3. ASSUME NEW c \in Commands, OpenBrowser(c) \/ GivesUp(c) PROVE Aside
  <2>1. Kind(c) = "login" /\ at[c] \in Elsewhere
    BY <1>3 DEF OpenBrowser, GivesUp, PlacesInv, Elsewhere
  <2>2. \E to \in {"asking", "timedOut"} : at' = [at EXCEPT ![c] = to]
    BY <1>3 DEF OpenBrowser, GivesUp, Goes
  <2>3. \A to \in {"asking", "timedOut"} : to \in Elsewhere
    BY DEF Elsewhere, Ended
  <2>4. QED
    BY <1>2, <1>3, <2>1, <2>2, <2>3 DEF OpenBrowser, GivesUp
<1>4. ASSUME NEW c \in Commands, Probe(c) PROVE Aside
  <2>1. "new" \in Elsewhere /\ "probed" \in Elsewhere
    BY DEF Elsewhere
  <2>2. QED
    BY <1>2, <1>4, <2>1 DEF Probe, Goes
<1>5. ASSUME NEW c \in Commands, NEW ok \in BOOLEAN, Received(c) \/ Verify(c, ok) PROVE Aside
  <2>1. Kind(c) = "login" /\ at[c] \in Elsewhere
    BY <1>5 DEF Received, Verify, PlacesInv, Elsewhere
  <2>2. \E to \in {"failed", "verify", "save"} : at' = [at EXCEPT ![c] = to]
    BY <1>5 DEF Received, Verify, Goes
  <2>3. \A to \in {"failed", "verify", "save"} : to \in Elsewhere
    BY DEF Elsewhere, Ended
  <2>4. UNCHANGED <<fileVars, tokenVars>> /\ \A d \in Commands \ {c} : cfg'[d] = cfg[d]
    BY <1>5 DEF Received, Verify, Types
  <2>5. QED
    BY <1>2, <2>1, <2>2, <2>3, <2>4
<1>6. ASSUME NEW c \in Commands, Listen(c) \/ TakeToken(c) \/ TakeError(c) \/ WaitsLong(c) \/ ShutDown(c)
      PROVE  Aside
  BY <1>1, <1>6 DEF Listen, TakeToken, TakeError, WaitsLong, ShutDown
<1>7. ASSUME NEW r \in Callbacks,
             Callback(r) \/ HangUp(r) \/ PutIn(r) \/ \E d \in Commands : Connect(r, d)
      PROVE  Aside
  BY <1>1, <1>7 DEF PutIn, Callback, HangUp, Connect
<1>8. CASE UNCHANGED vars
  BY <1>1, <1>8 DEF vars
<1>9. ASSUME NEW c \in Commands, Work(c) PROVE Aside \/ Files(c)
  BY <1>3, <1>5, <1>6, <1>9 DEF Work, Files
<1>10. ASSUME NEW c \in Commands, Start(c) \/ Crash(c) PROVE Aside \/ Files(c)
  BY <1>4, <1>10 DEF Start, Files
<1>11. QED
  BY <1>7, <1>8, <1>9, <1>10 DEF Next

(* What a command does to the file and to its own place and settings.      *)
LEMMA FileStep ==
  ASSUME Types, NEW c \in Commands, Files(c)
  PROVE  /\ \A d \in Commands \ {c} : at'[d] = at[d] /\ cfg'[d] = cfg[d]
         /\ \/ file' = file \/ file' = Empty
            \/ at[c] = "write" /\ file' = [cfg[c] EXCEPT !.token = None]
<1> USE DEF fileVars, tokenVars, serverVars, webVars, Goes
<1>1. ASSUME AfterSave(c) PROVE \A d \in Commands \ {c} : at'[d] = at[d] /\ cfg'[d] = cfg[d]
  BY <1>1, SaveEnds DEF Types
<1>2. CASE Truncate(c) \/ Crash(c) \/ Read(c)
  BY <1>2 DEF Truncate, Crash, Read, Types
<1>3. CASE Write(c)
  BY <1>1, <1>3 DEF Write
<1>4. CASE SaveFails(c)
  BY <1>1, <1>4 DEF SaveFails, Types
<1>5. CASE \E ok \in BOOLEAN : RemoveOld(c, ok) \/ Migrate(c, ok)
  BY <1>5 DEF RemoveOld, Migrate, Types
<1>6. CASE \E ok \in BOOLEAN : Fetch(c, ok) \/ RemoveToken(c, ok) \/ RemoveFile(c, ok) \/ StoreToken(c, ok)
  BY <1>6 DEF Fetch, RemoveToken, RemoveFile, StoreToken, Types
<1>7. QED
  BY <1>2, <1>3, <1>4, <1>5, <1>6 DEF Files

--------------------------------------------------------------------------------
(* Places.                                                                 *)
OwnPlace(c) ==
  /\ at[c] \in {"migrate", "fetch"} => Kind(c) = "load"
  /\ at[c] \in {"set", "truncate", "write"} => Kind(c) \in {"load", "login"}
  /\ at[c] = "remove" => Kind(c) = "logout"
  /\ at[c] \in {"probed", "asking", "verify", "save"} => Kind(c) = "login"
  /\ Kind(c) = "load" /\ at[c] \in {"fetch", "done"} => cfg[c].machine # None

LEMMA PlacesStep == Types /\ PlacesInv /\ [Next]_vars => PlacesInv'
<1> SUFFICES ASSUME Types, PlacesInv, [Next]_vars PROVE PlacesInv'
  OBVIOUS
<1> USE DEF fileVars, tokenVars, serverVars, webVars, Goes
<1>1. plan' = plan /\ \A c \in Commands : Kind(c)' = Kind(c)
  BY PlanStays
<1>2. \A c \in Commands : OwnPlace(c)
  BY DEF PlacesInv, OwnPlace
<1>3. SUFFICES /\ file' = plan.file \/ file'.token = None
               /\ \A c \in Commands : OwnPlace(c)'
  BY <1>1 DEF PlacesInv, OwnPlace
<1>4. CASE Aside
  <2>1. file' = file
    BY <1>4 DEF Aside
  <2>2. ASSUME NEW c \in Commands PROVE OwnPlace(c)'
    <3>1. CASE at'[c] = at[c] /\ cfg'[c] = cfg[c]
      BY <1>1, <1>2, <3>1 DEF OwnPlace
    <3>2. CASE Kind(c) = "login" /\ at'[c] \in Elsewhere
      BY <1>1, <3>2 DEF OwnPlace, Elsewhere, Ended
    <3>3. QED
      BY <1>4, <3>1, <3>2 DEF Aside
  <2>3. QED
    BY <2>1, <2>2 DEF PlacesInv
<1>5. ASSUME NEW c \in Commands, Files(c)
      PROVE  /\ file' = plan.file \/ file'.token = None
             /\ \A d \in Commands : OwnPlace(d)'
  <2>1. file' = plan.file \/ file'.token = None
    <3>1. cfg[c] \in Configs
      BY DEF Types
    <3>2. [cfg[c] EXCEPT !.token = None].token = None
      BY <3>1, Nothing, Settings
    <3>3. QED
      BY <1>5, <3>2, FileStep, Nothing DEF PlacesInv
  <2>2. \A d \in Commands \ {c} : OwnPlace(d)'
    BY <1>1, <1>2, <1>5, FileStep DEF OwnPlace
  <2>3. OwnPlace(c) /\ Kind(c)' = Kind(c) /\ c # None /\ cfg[c] \in Configs
    BY <1>1, <1>2, AccountAssumption DEF Types
  <2>4. ASSUME AfterSave(c), Kind(c) \in {"load", "login"} PROVE OwnPlace(c)'
    BY <2>3, <2>4, SaveEnds DEF OwnPlace, Types
  <2>5. OwnPlace(c)'
    <3>1. CASE Truncate(c) \/ Crash(c)
      BY <2>3, <3>1 DEF Truncate, Crash, OwnPlace, Types
    <3>2. CASE Write(c)
      BY <2>3, <2>4, <3>2 DEF Write, OwnPlace
    <3>3. CASE SaveFails(c)
      BY <2>3, <2>4, <3>3 DEF SaveFails, OwnPlace, Types
    <3>4. CASE Read(c)
      BY <2>3, <3>4 DEF Read, OwnPlace, Types
    <3>5. CASE \E ok \in BOOLEAN : RemoveOld(c, ok) \/ Migrate(c, ok)
      BY <2>3, <3>5 DEF RemoveOld, Migrate, OwnPlace, Types
    <3>6. CASE \E ok \in BOOLEAN : Fetch(c, ok)
      <4>1. PICK t \in Tokens : at[c] = "fetch" /\ cfg' = [cfg EXCEPT ![c].token = t] /\ at' = [at EXCEPT ![c] = "done"]
        BY <3>6, Nothing DEF Fetch, Types
      <4>2. cfg'[c].machine = cfg[c].machine /\ at'[c] = "done"
        BY <2>3, <4>1, Nothing, Settings DEF Types
      <4>3. QED
        BY <2>3, <4>1, <4>2 DEF OwnPlace
    <3>7. CASE \E ok \in BOOLEAN : RemoveToken(c, ok) \/ RemoveFile(c, ok) \/ StoreToken(c, ok)
      BY <2>3, <3>7 DEF RemoveToken, RemoveFile, StoreToken, OwnPlace, Types
    <3>8. QED
      BY <1>5, <3>1, <3>2, <3>3, <3>4, <3>5, <3>6, <3>7 DEF Files
  <2>6. QED
    BY <2>1, <2>2, <2>5
<1>6. QED
  BY <1>4, <1>5, AsideOrFiles

--------------------------------------------------------------------------------
(* The token.                                                              *)
LEMMA TokenStep == Types /\ PlacesInv /\ TokenInv /\ [Next]_vars => TokenInv'
<1> SUFFICES ASSUME Types, PlacesInv, TokenInv, [Next]_vars, ~ disowned' PROVE TokenInv'
  BY DEF TokenInv
<1> USE DEF fileVars, tokenVars, serverVars, webVars, Goes
<1>1. \A c \in Commands : Kind(c)' = Kind(c)
  BY PlanStays
<1>2. CASE Aside
  <2>1. ~ disowned /\ UNCHANGED <<file, keyring, owed>>
    BY <1>2 DEF Aside
  <2>2. Erasing' = Erasing
    BY <1>2 DEF Aside, Elsewhere, Ended, Erasing
  <2>3. \A c \in Commands : Removes(c) => Removes(c)'
    BY <1>1, <1>2 DEF Aside, Elsewhere, Ended, Removes
  <2>4. Kept => Kept'
    BY <1>2, <2>1 DEF Aside, Elsewhere, Ended, Kept
  <2>5. QED
    BY <2>1, <2>2, <2>3, <2>4 DEF TokenInv
<1>3. ASSUME NEW c \in Commands, Files(c) PROVE TokenInv'
  <2>1. ~ disowned
    BY <1>3 DEF Files, Truncate, Write, SaveFails, Read, Crash, RemoveOld, Migrate, Fetch, RemoveToken, RemoveFile, StoreToken, Types
  <2>2. /\ file.token = None => Kept
        /\ Erasing # {} => Kept
        /\ file.token \notin {None, owed} => \E d \in Commands : Removes(d)
    BY <2>1 DEF TokenInv
  <2>3. \A d \in Commands \ {c} : at'[d] = at[d] /\ (Removes(d) <=> Removes(d)')
    BY <1>1, <1>3, FileStep DEF Removes
  <2>4. /\ Erasing \subseteq Commands /\ Erasing' \subseteq Commands
        /\ c \in Erasing <=> at[c] \in {"truncate", "write", "remove"}
        /\ c \in Erasing' <=> at'[c] \in {"truncate", "write", "remove"}
        /\ \A d \in Commands \ {c} : d \in Erasing' <=> d \in Erasing
    BY <2>3 DEF Erasing
  <2>5. \A d \in Commands : Removes(d) => d \in Erasing
    BY DEF Removes, Erasing
  (* The keyring holds the token that is owed, or is about to be given     *)
  (* one; the file holds none.                                             *)
  <2>6. ASSUME Kept', file'.token \in {None, owed'} PROVE TokenInv'
    BY <2>6 DEF TokenInv
  (* Nothing is stored, and the command leaves no place of interest.       *)
  <2>7. ASSUME UNCHANGED <<file, keyring, owed>>, ~ Removes(c), at[c] # "set",
               at'[c] \in {"truncate", "write", "remove"} => Kept
        PROVE  TokenInv'
    <3>1. Kept => Kept'
      BY <2>3, <2>7 DEF Kept
    <3>2. Erasing' # {} => Kept
      BY <2>2, <2>4, <2>7
    <3>3. QED
      BY <2>2, <2>3, <2>7, <3>1, <3>2 DEF TokenInv
  (* The token owed is not touched by one that erases the file.            *)
  <2>8. ASSUME at[c] \in {"truncate", "write", "remove"}, UNCHANGED <<keyring, owed>> PROVE Kept'
    <3>1. Kept
      BY <2>2, <2>4, <2>8
    <3>2. QED
      BY <2>3, <2>8, <3>1 DEF Kept
  <2>9. CASE Truncate(c)
    BY <2>6, <2>8, <2>9, Nothing DEF Truncate
  <2>10. CASE Write(c)
    <3>1. cfg[c] \in Configs
      BY DEF Types
    <3>2. [cfg[c] EXCEPT !.token = None].token = None
      BY <3>1, Nothing, Settings
    <3>3. QED
      BY <2>6, <2>8, <2>10, <3>2 DEF Write
  <2>11. CASE SaveFails(c)
    <3>1. file'.token = None
      BY <2>11 DEF SaveFails, Types
    <3>2. QED
      BY <2>6, <2>8, <2>11, <3>1 DEF SaveFails
  <2>12. CASE Read(c)
    <3>1. UNCHANGED <<file, keyring, owed>> /\ ~ Removes(c) /\ at[c] = "new"
      BY <2>12 DEF Read, Removes
    <3>2. at'[c] \in {"truncate", "write", "remove"} => file.token = None
      BY <2>12 DEF Read, Types
    <3>3. QED
      BY <2>2, <2>7, <3>1, <3>2
  <2>13. ASSUME NEW ok \in BOOLEAN, RemoveOld(c, ok) PROVE TokenInv'
    <3>1. UNCHANGED <<file, owed>> /\ ~ Removes(c) /\ at'[c] = "set"
      BY <2>13 DEF RemoveOld, Removes, Types
    <3>2. Kept'
      BY <3>1 DEF Kept
    <3>3. QED
      BY <2>2, <2>3, <3>1, <3>2 DEF TokenInv
  <2>14. ASSUME NEW ok \in BOOLEAN, Migrate(c, ok) PROVE TokenInv'
    <3>1. at[c] = "set" /\ UNCHANGED <<file, owed>> /\ ~ Removes(c)
      BY <2>14 DEF Migrate, Removes
    <3>2. file.token \notin {None, owed} => \E d \in Commands : Removes(d)'
      BY <2>2, <2>3, <3>1
    <3>3. CASE ok
      <4>1. keyring' = owed'
        BY <2>14, <3>3 DEF Migrate, Types
      <4>2. QED
        BY <3>1, <3>2, <4>1 DEF TokenInv, Kept
    <3>4. CASE ~ ok
      <4>1. keyring' = keyring /\ at' = [at EXCEPT ![c] = "fetch"] /\ ~ Lost
        BY <2>14, <3>4 DEF Migrate, Types
      <4>2. keyring = owed \/ (file.token # None /\ Erasing = {})
        BY <4>1 DEF Lost
      <4>3. at'[c] = "fetch"
        BY <4>1 DEF Types
      <4>4. CASE keyring = owed
        BY <3>1, <3>2, <4>1, <4>4 DEF TokenInv, Kept
      <4>5. CASE file.token # None /\ Erasing = {}
        <5>1. Erasing' = {}
          BY <2>4, <4>3, <4>5
        <5>2. QED
          BY <3>1, <3>2, <4>5, <5>1 DEF TokenInv
      <4>6. QED
        BY <4>2, <4>4, <4>5
    <3>5. QED
      BY <3>3, <3>4
  <2>15. CASE Crash(c)
    <3>1. UNCHANGED <<file, keyring, owed>> /\ at'[c] = "crashed" /\ file.token \in {None, owed}
      BY <2>15 DEF Crash, Types
    <3>2. at[c] = "set" => ~ Lost
      BY <2>15 DEF Crash, Types
    <3>3. Erasing' \subseteq Erasing
      BY <2>4, <3>1
    <3>4. CASE at[c] # "set"
      <4>1. Kept => Kept'
        BY <2>3, <3>1, <3>4 DEF Kept
      <4>2. QED
        BY <2>2, <3>1, <3>3, <4>1 DEF TokenInv
    <3>5. CASE at[c] = "set"
      <4>1. keyring' = owed' \/ (file'.token # None /\ Erasing' = {})
        BY <3>1, <3>2, <3>3, <3>5 DEF Lost
      <4>2. QED
        BY <3>1, <4>1 DEF TokenInv, Kept
    <3>6. QED
      BY <3>4, <3>5
  <2>16. ASSUME NEW ok \in BOOLEAN, Fetch(c, ok) PROVE TokenInv'
    <3>1. UNCHANGED <<file, keyring, owed>> /\ ~ Removes(c) /\ at[c] = "fetch" /\ at'[c] = "done"
      BY <2>16 DEF Fetch, Removes, Types
    <3>2. QED
      BY <2>7, <3>1
  <2>17. ASSUME NEW ok \in BOOLEAN, RemoveToken(c, ok) PROVE TokenInv'
    <3>1. keyring' = None /\ owed' = None /\ at'[c] = "remove"
      BY <2>17 DEF RemoveToken, Types
    <3>2. Removes(c)'
      BY <3>1 DEF Removes
    <3>3. QED
      BY <3>1, <3>2 DEF TokenInv, Kept
  <2>18. ASSUME NEW ok \in BOOLEAN, RemoveFile(c, ok) PROVE TokenInv'
    <3>1. file'.token = None /\ UNCHANGED <<keyring, owed>> /\ at[c] = "remove"
      BY <2>18, Nothing DEF RemoveFile, Types
    <3>2. QED
      BY <2>6, <2>8, <3>1
  <2>19. ASSUME NEW ok \in BOOLEAN, StoreToken(c, ok) PROVE TokenInv'
    <3>1. keyring' = owed' /\ at'[c] = "truncate" /\ Kind(c) = "login"
      BY <2>19 DEF StoreToken, Types
    <3>2. Removes(c)'
      BY <1>1, <3>1 DEF Removes
    <3>3. QED
      BY <3>1, <3>2 DEF TokenInv, Kept
  <2>20. QED
    BY <1>3, <2>9, <2>10, <2>11, <2>12, <2>13, <2>14, <2>15, <2>16, <2>17, <2>18, <2>19 DEF Files
<1>4. QED
  BY <1>2, <1>3, AsideOrFiles

--------------------------------------------------------------------------------
(* The file.                                                               *)
LEMMA FileStays == 
  ASSUME Types, PlacesInv, FileInv, [Next]_vars, Aside
  PROVE  FileInv'
<1>1. plan' = plan /\ \A c \in Commands : Kind(c)' = Kind(c)
  BY PlanStays
<1>2. UNCHANGED <<file, meddled>>
  BY DEF Aside, fileVars
<1>3. Making' = Making /\ Readers' = Readers /\ Writing' = Writing
  BY <1>1 DEF Aside, Elsewhere, Ended, Making, Readers, Writing
<1>4. \A c \in Making \cup Readers : at'[c] = at[c] /\ cfg'[c] = cfg[c]
  BY DEF Aside, Elsewhere, Ended, Making, Readers
<1>5. OldMachine => OldMachine'
  BY <1>1, <1>2, <1>3, <1>4 DEF OldMachine
<1>6. NewMachine => NewMachine'
  BY <1>1, <1>2, <1>3, <1>4 DEF NewMachine
<1>7. QED
  BY <1>1, <1>2, <1>3, <1>4, <1>5, <1>6 DEF FileInv

(* The steps of a Load that a file with a machine_id, or without, allows,  *)
(* as long as nobody has meddled.                                          *)
LEMMA LoadSteps ==
  ASSUME Types, PlacesInv, FileInv, [Next]_vars, NEW c \in Commands, Files(c), ~ meddled'
  PROVE  /\ ~ meddled
         /\ \/ /\ at[c] = "truncate" /\ at'[c] = "write" /\ Kind(c) = "load"
               /\ cfg'[c] = cfg[c] /\ file' = Empty
            \/ /\ at[c] = "write" /\ Kind(c) = "load"
               /\ file'.machine = cfg[c].machine /\ file'.relay = cfg[c].relay
               /\ IF cfg[c].machine = None
                  THEN at'[c] = "truncate" /\ cfg'[c].relay = cfg[c].relay /\ cfg'[c].machine = c
                  ELSE at'[c] = "fetch" /\ cfg'[c] = cfg[c]
            \/ /\ at[c] = "new" /\ Kind(c) = "load" /\ file' = file
               /\ Writing = {} /\ (file.machine = None => Making = {})
               /\ cfg'[c].relay = file.relay
               /\ \/ at'[c] = "truncate" /\ file.machine = None /\ cfg'[c].machine = c
                  \/ at'[c] = "migrate" /\ file.token # None /\ cfg'[c].machine = file.machine
                  \/ at'[c] = "fetch" /\ file.machine # None /\ cfg'[c].machine = file.machine
            \/ /\ at[c] = "migrate" /\ at'[c] = "set" /\ Kind(c) = "load" /\ file' = file
               /\ cfg'[c] = cfg[c]
            \/ /\ at[c] = "set" /\ Kind(c) = "load" /\ file' = file
               /\ cfg'[c].relay = cfg[c].relay
               /\ \/ at'[c] = "truncate" /\ cfg'[c].machine = cfg[c].machine
                  \/ at'[c] = "truncate" /\ cfg[c].machine = None /\ cfg'[c].machine = c
                  \/ at'[c] = "fetch" /\ cfg[c].machine # None /\ cfg'[c].machine = cfg[c].machine
            \/ /\ at[c] = "fetch" /\ at'[c] = "done" /\ Kind(c) = "load" /\ file' = file
               /\ cfg'[c].relay = cfg[c].relay /\ cfg'[c].machine = cfg[c].machine
            \/ /\ at[c] # "write" /\ at'[c] = "crashed" /\ file' = file
               /\ cfg'[c] = cfg[c]
            \/ /\ Kind(c) \in {"login", "logout"} /\ at'[c] \in {"remove", "truncate", "set"} /\ file' = file
<1> USE DEF fileVars, tokenVars, serverVars, webVars, Goes
<1>1. ~ meddled
  BY DEF Files, Truncate, Write, SaveFails, Read, Crash, RemoveOld, Migrate, Fetch, RemoveToken, RemoveFile, StoreToken, Types
<1>2. /\ cfg[c] \in Configs /\ file \in Configs /\ c \in Ids
      /\ at[c] \in {"migrate", "fetch", "write"} => Kind(c) = "load"
      /\ at[c] = "truncate" => Kind(c) \in {"load", "login"}
  BY <1>1 DEF Types, Ids, PlacesInv, FileInv, Making, Writing
<1>3. \A t \in Tokens :
        /\ [cfg[c] EXCEPT !.token = t].relay = cfg[c].relay
        /\ [cfg[c] EXCEPT !.token = t].machine = cfg[c].machine
  BY <1>2, Nothing, Settings
<1>4. /\ [cfg[c] EXCEPT !.machine = c].relay = cfg[c].relay
      /\ [cfg[c] EXCEPT !.machine = c].machine = c
      /\ [file EXCEPT !.machine = c].relay = file.relay
      /\ [file EXCEPT !.machine = c].machine = c
  BY <1>2, Nothing, Settings
<1>5. ~ SaveFails(c) /\ ~ (\E ok \in BOOLEAN : RemoveFile(c, ok))
  BY DEF SaveFails, RemoveFile
<1>6. CASE Truncate(c)
  BY <1>1, <1>2, <1>6 DEF Truncate, Types
<1>7. CASE Write(c)
  <2>1. at[c] = "write" /\ Kind(c) = "load" /\ file' = [cfg[c] EXCEPT !.token = None]
    BY <1>2, <1>7 DEF Write
  <2>2. CASE cfg[c].machine = None
    <3>1. at' = [at EXCEPT ![c] = "truncate"] /\ cfg' = [cfg EXCEPT ![c] = [cfg[c] EXCEPT !.machine = c]]
      BY <1>7, <2>1, <2>2, SaveEnds DEF Write
    <3>2. QED
      BY <1>1, <1>3, <1>4, <2>1, <2>2, <3>1, Nothing DEF Types
  <2>3. CASE cfg[c].machine # None
    <3>1. at' = [at EXCEPT ![c] = "fetch"] /\ cfg' = cfg
      BY <1>7, <2>1, <2>3, SaveEnds DEF Write
    <3>2. QED
      BY <1>1, <1>3, <2>1, <2>3, <3>1, Nothing DEF Types
  <2>4. QED
    BY <2>2, <2>3
<1>8. CASE Read(c)
  <2>1. at[c] = "new" /\ Kind(c) = "load" /\ file' = file /\ Writing = {} /\ (file.machine = None => Making = {})
    BY <1>8 DEF Read, Types
  <2>2. CASE file.token = None /\ file.machine = None
    <3>1. at'[c] = "truncate" /\ cfg'[c] = [file EXCEPT !.machine = c]
      BY <1>8, <2>2 DEF Read, Types
    <3>2. QED
      BY <1>1, <1>4, <2>1, <2>2, <3>1
  <2>3. CASE ~ (file.token = None /\ file.machine = None)
    <3>1. at'[c] = (IF file.token = None THEN "fetch" ELSE "migrate") /\ cfg'[c] = file
      BY <1>8, <2>3 DEF Read, Types
    <3>2. QED
      BY <1>1, <2>1, <2>3, <3>1
  <2>4. QED
    BY <2>2, <2>3
<1>9. CASE \E ok \in BOOLEAN : Migrate(c, ok)
  <2>1. at[c] = "set" /\ Kind(c) = "load" /\ file' = file
    BY <1>9 DEF Migrate
  <2>2. \/ at'[c] = "truncate" /\ cfg'[c] = cfg[c]
        \/ at'[c] = "truncate" /\ cfg[c].machine = None /\ cfg'[c] = [cfg[c] EXCEPT !.machine = c]
        \/ at'[c] = "fetch" /\ cfg[c].machine # None /\ cfg'[c] = cfg[c]
    BY <1>9 DEF Migrate, Types
  <2>3. QED
    BY <1>1, <1>4, <2>1, <2>2
<1>10. CASE \E ok \in BOOLEAN : Fetch(c, ok)
  <2>1. PICK t \in Tokens : cfg' = [cfg EXCEPT ![c].token = t]
    BY <1>10, Nothing DEF Fetch, Types
  <2>2. cfg'[c] = [cfg[c] EXCEPT !.token = t]
    BY <2>1 DEF Types
  <2>3. at[c] = "fetch" /\ at'[c] = "done" /\ file' = file
    BY <1>10 DEF Fetch, Types
  <2>4. QED
    BY <1>1, <1>2, <1>3, <2>2, <2>3
<1>11. CASE Crash(c)
  BY <1>1, <1>11 DEF Crash, Types
<1>12. CASE \E ok \in BOOLEAN : RemoveToken(c, ok) \/ StoreToken(c, ok)
  <2>1. Kind(c) \in {"login", "logout"}
    BY <1>12 DEF RemoveToken, StoreToken, PlacesInv
  <2>2. at'[c] \in {"remove", "truncate"} /\ file' = file
    BY <1>12 DEF RemoveToken, StoreToken, Types
  <2>3. QED
    BY <1>1, <2>1, <2>2
<1>13. CASE \E ok \in BOOLEAN : RemoveOld(c, ok)
  <2>1. /\ Kind(c) = "login" \/ (at[c] = "migrate" /\ Kind(c) = "load")
        /\ at'[c] = "set" /\ cfg'[c] = cfg[c] /\ file' = file
    BY <1>2, <1>13 DEF RemoveOld, PlacesInv, Types
  <2>2. QED
    BY <1>1, <2>1
<1>14. QED
  BY <1>5, <1>6, <1>7, <1>8, <1>9, <1>10, <1>11, <1>12, <1>13 DEF Files

LEMMA FileKept == Types /\ PlacesInv /\ FileInv /\ [Next]_vars => FileInv'
<1> SUFFICES ASSUME Types, PlacesInv, FileInv, [Next]_vars, ~ meddled',
                    NEW c \in Commands, Files(c)
             PROVE  FileInv'
  BY AsideOrFiles, FileStays DEF FileInv
<1>1. plan' = plan /\ \A d \in Commands : Kind(d)' = Kind(d)
  BY PlanStays
<1>2. \A d \in Commands \ {c} :
        /\ at'[d] = at[d] /\ cfg'[d] = cfg[d]
        /\ d \in Making' <=> d \in Making
        /\ d \in Readers' <=> d \in Readers
        /\ d \in Writing' <=> d \in Writing
  BY <1>1, FileStep DEF Making, Readers, Writing
<1>3. /\ c \in Making <=> Kind(c) = "load" /\ at[c] \in {"migrate", "set", "truncate", "write"}
      /\ c \in Making' <=> Kind(c) = "load" /\ at'[c] \in {"migrate", "set", "truncate", "write"}
      /\ c \in Readers <=> Kind(c) = "load" /\ at[c] \in {"fetch", "done"}
      /\ c \in Readers' <=> Kind(c) = "load" /\ at'[c] \in {"fetch", "done"}
      /\ c \in Writing <=> at[c] = "write"
      /\ c \in Writing' <=> at'[c] = "write"
  BY <1>1 DEF Making, Readers, Writing
<1>4. /\ Making \in SUBSET Commands /\ Making' \in SUBSET Commands
      /\ Readers \in SUBSET Commands /\ Readers' \in SUBSET Commands
      /\ Writing \in SUBSET Commands /\ Writing' \in SUBSET Commands
  BY DEF Making, Readers, Writing
<1>5. ~ meddled
  BY LoadSteps
<1>6. /\ Writing \subseteq Making
      /\ Writing = {} => file.relay = plan.file.relay
      /\ \A d \in Making : cfg[d].relay = plan.file.relay
  BY <1>5 DEF FileInv
<1>7. Writing' \subseteq Making'
  <2>1. at'[c] = "write" => Kind(c) = "load"
    BY LoadSteps
  <2>2. QED
    BY <1>2, <1>3, <1>4, <1>6, <2>1
<1>8. at[c] # "write" /\ Writing' = {} => Writing = {}
  BY <1>2, <1>3, <1>4
<1>9. Writing' = {} => file'.relay = plan.file.relay
  <2>1. CASE at'[c] = "write"
    BY <1>3, <2>1
  <2>2. CASE at[c] = "write" /\ file'.relay = cfg[c].relay /\ Kind(c) = "load"
    BY <1>3, <1>6, <2>2
  <2>3. CASE at[c] # "write" /\ file' = file
    BY <1>6, <1>8, <2>3
  <2>4. at'[c] = "write" \/ (at[c] = "write" /\ file'.relay = cfg[c].relay /\ Kind(c) = "load")
        \/ (at[c] # "write" /\ file' = file)
    BY <1>3, <1>6, LoadSteps
  <2>5. QED
    BY <2>1, <2>2, <2>3, <2>4
<1>10. \A d \in Making' : cfg'[d].relay = plan.file.relay
  <2>1. c \in Making' => \/ c \in Making /\ cfg'[c].relay = cfg[c].relay
                         \/ Writing = {} /\ cfg'[c].relay = file.relay
    BY <1>3, LoadSteps
  <2>2. QED
    BY <1>2, <1>4, <1>6, <2>1
<1>11. ASSUME plan.file.machine # None PROVE OldMachine'
  <2>1. /\ Writing = {} => file.machine # None
        /\ Writing = {} => file.machine = plan.file.machine
        /\ \A d \in Making \cup Readers : cfg[d].machine = plan.file.machine
    BY <1>5, <1>11 DEF FileInv, OldMachine
  <2>2. c \in Making \cup Readers => cfg[c].machine # None
    BY <1>11, <2>1
  <2>3. c \in Making' \cup Readers' =>
          \/ c \in Making \cup Readers /\ cfg'[c].machine = cfg[c].machine
          \/ Writing = {} /\ cfg'[c].machine = file.machine
    BY <1>3, <2>1, <2>2, LoadSteps
  <2>4. \A d \in Making' \cup Readers' : cfg'[d].machine = plan.file.machine
    BY <1>2, <1>4, <2>1, <2>3
  <2>5. Writing' = {} => file'.machine = plan.file.machine
    <3>1. CASE at[c] = "write" /\ file'.machine = cfg[c].machine /\ Kind(c) = "load"
      BY <1>3, <2>1, <3>1
    <3>2. CASE at[c] # "write" /\ file' = file
      BY <1>8, <2>1, <3>2
    <3>3. \/ at'[c] = "write"
          \/ at[c] = "write" /\ file'.machine = cfg[c].machine /\ Kind(c) = "load"
          \/ at[c] # "write" /\ file' = file
      BY <1>3, <1>6, LoadSteps
    <3>4. QED
      BY <1>3, <3>1, <3>2, <3>3
  <2>6. QED
    BY <1>1, <2>4, <2>5 DEF OldMachine
<1>12. ASSUME plan.file.machine = None PROVE NewMachine'
  <2>1. /\ \A d, e \in Making : d = e
        /\ \A d \in Making : file.machine = None /\ Readers = {}
        /\ \A d \in Making : at[d] \in {"migrate", "set"} => cfg[d].machine = None
        /\ \A d \in Readers : cfg[d].machine = file.machine
    BY <1>5, <1>12 DEF FileInv, NewMachine
  <2>2. \A d \in Readers : cfg[d].machine # None
    BY DEF PlacesInv, Readers
  (* A Load that holds the file, or comes to do so.                        *)
  <2>4. ASSUME c \in Making', file'.machine = None, Making \subseteq {c}, Readers = {},
               at'[c] \in {"migrate", "set"} => cfg'[c].machine = None, c \notin Readers'
        PROVE  NewMachine'
    <3>1. Making' = {c} /\ Readers' = {}
      BY <1>2, <1>4, <2>4
    <3>2. QED
      BY <2>4, <3>1 DEF NewMachine
  (* One that is through, or ends before.                                  *)
  <2>5. ASSUME c \notin Making', Making \subseteq {c}, \A d \in Readers \ {c} : cfg[d].machine = file'.machine,
               c \in Readers' => cfg'[c].machine = file'.machine
        PROVE  NewMachine'
    <3>1. Making' = {}
      BY <1>2, <1>4, <2>5
    <3>2. \A d \in Readers' : cfg'[d].machine = file'.machine
      BY <1>2, <1>4, <2>5
    <3>3. QED
      BY <3>1, <3>2 DEF NewMachine
  (* One that is no maker before or after.                                 *)
  <2>6. ASSUME c \notin Making', c \notin Making, file' = file,
               c \in Readers' => c \in Readers /\ cfg'[c].machine = cfg[c].machine
        PROVE  NewMachine'
    <3>1. Making' = Making /\ Readers' \subseteq Readers
      BY <1>2, <1>4, <2>6
    <3>2. \A d \in Making : at'[d] = at[d] /\ cfg'[d] = cfg[d]
      BY <1>2, <1>4, <2>6
    <3>3. \A d \in Readers' : d \in Readers /\ cfg'[d].machine = cfg[d].machine
      BY <1>2, <1>4, <2>6
    <3>4. \A d \in Readers' : cfg'[d].machine = file'.machine
      BY <2>1, <2>6, <3>3
    <3>5. QED
      BY <2>1, <2>6, <3>1, <3>2, <3>4 DEF NewMachine
  <2>7. c \in Making => Making \subseteq {c} /\ file.machine = None /\ Readers = {}
    BY <2>1
  <2>8. Making = {} \/ file.machine # None => Making = {}
    BY <2>1
  <2>9. CASE at[c] = "truncate" /\ at'[c] = "write" /\ Kind(c) = "load" /\ file' = Empty
    BY <1>3, <2>4, <2>7, <2>9, Nothing
  <2>10. CASE /\ at[c] = "write" /\ Kind(c) = "load" /\ file'.machine = cfg[c].machine
              /\ IF cfg[c].machine = None
                 THEN at'[c] = "truncate" /\ cfg'[c].machine = c
                 ELSE at'[c] = "fetch" /\ cfg'[c] = cfg[c]
    <3>1. CASE cfg[c].machine = None
      BY <1>3, <2>4, <2>7, <2>10, <3>1
    <3>2. CASE cfg[c].machine # None
      BY <1>3, <2>5, <2>7, <2>10, <3>2
    <3>3. QED
      BY <3>1, <3>2
  <2>11. CASE /\ at[c] = "new" /\ Kind(c) = "load" /\ file' = file
              /\ (file.machine = None => Making = {})
              /\ \/ at'[c] = "truncate" /\ file.machine = None /\ cfg'[c].machine = c
                 \/ at'[c] = "migrate" /\ file.token # None /\ cfg'[c].machine = file.machine
                 \/ at'[c] = "fetch" /\ file.machine # None /\ cfg'[c].machine = file.machine
    <3>1. Making = {}
      BY <2>8, <2>11
    <3>2. file.machine = None => Readers = {}
      BY <2>1, <2>2
    <3>3. file.token # None => file.machine = None
      BY <1>12 DEF PlacesInv
    <3>4. CASE at'[c] = "fetch"
      BY <1>3, <2>1, <2>5, <2>11, <3>1, <3>4
    <3>5. CASE at'[c] \in {"truncate", "migrate"}
      BY <1>3, <2>4, <2>11, <3>1, <3>2, <3>3, <3>5
    <3>6. QED
      BY <2>11, <3>4, <3>5
  <2>12. CASE /\ at[c] = "set" /\ Kind(c) = "load" /\ file' = file
              /\ \/ at'[c] = "truncate"
                 \/ at'[c] = "fetch" /\ cfg[c].machine # None
    <3>1. at'[c] = "truncate"
      BY <1>3, <2>1, <2>12
    <3>2. QED
      BY <1>3, <2>4, <2>7, <2>12, <3>1
  <2>13. CASE /\ at[c] = "fetch" /\ at'[c] = "done" /\ Kind(c) = "load" /\ file' = file
              /\ cfg'[c].machine = cfg[c].machine
    BY <1>3, <2>6, <2>13
  <2>14. CASE at'[c] = "crashed" /\ file' = file
    <3>1. c \notin Making' /\ c \notin Readers'
      BY <1>3, <2>14
    <3>2. QED
      BY <2>5, <2>6, <2>7, <2>14, <3>1
  <2>15. CASE Kind(c) \in {"login", "logout"} /\ file' = file
    BY <1>3, <2>6, <2>15
  <2>16. CASE at[c] = "migrate" /\ at'[c] = "set" /\ Kind(c) = "load" /\ file' = file /\ cfg'[c] = cfg[c]
    BY <1>3, <2>1, <2>4, <2>7, <2>16
  <2>17. QED
    BY <2>9, <2>10, <2>11, <2>12, <2>13, <2>14, <2>15, <2>16, LoadSteps
<1>13. QED
  BY <1>1, <1>7, <1>9, <1>10, <1>11, <1>12 DEF FileInv

--------------------------------------------------------------------------------
(* Types, places, the token and the file of every reachable state.         *)
THEOREM AccountInvariant == Spec => []AccountInv
<1>1. AccountInv /\ [Next]_vars => AccountInv'
  <2> SUFFICES ASSUME AccountInv, [Next]_vars PROVE AccountInv'
    OBVIOUS
  <2>1. Types /\ Alone /\ PlacesInv /\ TokenInv /\ FileInv
    BY DEF AccountInv
  <2>2. Types' /\ Alone'
    BY <2>1, TypesStep, AloneStep
  <2>3. PlacesInv' /\ TokenInv' /\ FileInv'
    BY <2>1, PlacesStep, TokenStep, FileKept
  <2>4. QED
    BY <2>2, <2>3 DEF AccountInv
<1>2. QED
  BY <1>1, InitAccount, PTL DEF Spec

(* Every variable keeps its type, a port has one callback server at a      *)
(* time, and a Load comes back with a machine_id.                          *)
THEOREM AccountTypes == Spec => []TypeOK
<1>1. AccountInv => TypeOK
  BY TypesSplit DEF AccountInv
<1>2. QED
  BY <1>1, AccountInvariant, PTL

(* Whatever commands overlap, fail or are killed: what is stored when none *)
(* is under way is the token, the machine_id and the relay_url that it     *)
(* should be, but for the cases that SettingsAreKept names.                *)
THEOREM SettingsSurvive == Spec => []SettingsAreKept
<1>1. AccountInv => SettingsAreKept
  <2> SUFFICES ASSUME AccountInv, Quiet PROVE
        /\ disowned \/ Stored = owed
        /\ meddled \/ /\ file.relay = plan.file.relay
                      /\ plan.file.machine # None => file.machine = plan.file.machine
                      /\ \A c \in Loaded : cfg[c].machine = file.machine
    BY DEF SettingsAreKept
  <2>1. disowned \/ Stored = owed
    <3>1. \A c \in Commands : ~ Removes(c) /\ at[c] # "set"
      BY DEF Quiet, Ended, Removes
    <3>2. QED
      BY <3>1 DEF AccountInv, TokenInv, Kept, Stored
  <2>2. ASSUME ~ meddled
        PROVE  /\ file.relay = plan.file.relay
               /\ plan.file.machine # None => file.machine = plan.file.machine
               /\ \A c \in Loaded : cfg[c].machine = file.machine
    <3>1. Writing = {} /\ Loaded \subseteq Readers
      BY DEF Quiet, Ended, Writing, Loaded, Readers
    <3>2. CASE plan.file.machine = None
      BY <2>2, <3>1, <3>2 DEF AccountInv, FileInv, NewMachine
    <3>3. CASE plan.file.machine # None
      BY <2>2, <3>1, <3>3 DEF AccountInv, FileInv, OldMachine
    <3>4. QED
      BY <3>2, <3>3
  <2>3. QED
    BY <2>1, <2>2
<1>2. QED
  BY <1>1, AccountInvariant, PTL
================================================================================
