----------------------------- MODULE ForwardLogger -----------------------------
(***************************************************************************)
(* The loop of hookie listen and the goroutines that forward its events:   *)
(* they print on one terminal, in an order that two mutexes keep.          *)
(* logMutex covers a print; the mutex of forwardingLoggerState covers the  *)
(* results that have to wait for those of earlier events.  runListen holds *)
(* logMutex while it flushes, runAnonymousListen does not.                 *)
(*                                                                         *)
(* Events are numbered as eventCounter does.  What is sent to the endpoint *)
(* and what is printed of it is left out, the URL of an event is there or  *)
(* not, and the result of a forward is that it has one.  The end of the    *)
(* loop is the end of the process.                                         *)
(***************************************************************************)
EXTENDS Naturals, Sequences, FiniteSets, SequencesExt

CONSTANTS
  MaxEvents,    (* bound on the events                                      *)
  ResultsCap,   (* of the channel forwardingResults: 1000                   *)
  Sessions      (* who listens, and which events have a URL to go to        *)

Ids == 1..MaxEvents

ASSUME LoggerAssumption ==
  /\ MaxEvents \in Nat /\ ResultsCap \in Nat
  /\ Sessions \subseteq [anonymous : BOOLEAN, forwarded : SUBSET Ids, gui : BOOLEAN]

VARIABLES
  session,
  pc,         (* where the loop is                                          *)
  eventID,    (* eventCounter                                               *)
  logMutex,   (* who holds it: main, logger or nobody                       *)
  stateMutex, (* who holds forwardingLoggerState.mutex                      *)
  nextExpectedID,
  pendingResults,
  results,    (* the channel forwardingResults                              *)
  logger,     (* where its goroutine is                                     *)
  result,     (* the result it has received                                 *)
  forward,    (* of each event: none, sending, full or done                 *)
  output      (* the terminal: events, results, and those printed directly  *)

mutexVars == <<logMutex, stateMutex>>
stateVars == <<nextExpectedID, pendingResults>>
loggerVars == <<logger, result>>
loggingVars == <<session, pc, eventID, mutexVars, stateVars, results, loggerVars, forward, output>>

LoggerInit ==
  /\ session \in Sessions
  /\ pc = "recv" /\ eventID = 0
  /\ logMutex = "nobody" /\ stateMutex = "nobody"
  /\ nextExpectedID = 1 /\ pendingResults = {}
  /\ results = <<>>
  /\ logger = "idle" /\ result = 0
  /\ forward = [i \in Ids |-> "none"]
  /\ output = <<>>

Event(i)  == [what |-> "event", id |-> i]
Result(i) == [what |-> "result", id |-> i]
Direct(i) == [what |-> "direct", id |-> i]

Running == pc # "end"
Free(mutex) == mutex = "nobody"
Prints(items) == output' = output \o items

--------------------------------------------------------------------------------
(* Flushing: the results from nextExpectedID to the first that is missing. *)
Ready == {i \in Ids : nextExpectedID <= i /\ nextExpectedID..i \subseteq pendingResults}

(* flushPendingResultsUnlocked: in one go, with logMutex held.             *)
FlushAll(items) ==
  /\ Free(stateMutex)
  /\ nextExpectedID' = nextExpectedID + Cardinality(Ready)
  /\ pendingResults' = pendingResults \ Ready
  /\ Prints([k \in 1..Cardinality(Ready) |-> Result(nextExpectedID + k - 1)] \o items)

\* Mutant: a result is printed when it comes, whatever is missing before it.
PrintAny ==
  \E i \in pendingResults :
    /\ Free(logMutex)
    /\ Prints(<<Result(i)>>)
    /\ pendingResults' = pendingResults \ {i}
    /\ nextExpectedID' = i + 1

(* flushPendingResults: logMutex is taken for each of them.                *)
PrintNext ==
  /\ nextExpectedID \in pendingResults /\ Free(logMutex)
  /\ Prints(<<Result(nextExpectedID)>>)
  /\ pendingResults' = pendingResults \ {nextExpectedID}
  /\ nextExpectedID' = nextExpectedID + 1

--------------------------------------------------------------------------------
(* The loop.  Recv: the next event, or an error, a disconnect event or the *)
(* end of the context.                                                     *)
\* Mutant: the anonymous loop takes logMutex before it flushes, too.
ReceiveAlike ==
  /\ pc = "recv" /\ eventID < MaxEvents
  /\ eventID' = eventID + 1
  /\ pc' = "lock"
  /\ UNCHANGED <<session, mutexVars, stateVars, results, loggerVars, forward, output>>

Receive ==
  /\ pc = "recv" /\ eventID < MaxEvents
  /\ eventID' = eventID + 1
  /\ pc' = IF session.anonymous THEN "before" ELSE "lock"
  /\ UNCHANGED <<session, mutexVars, stateVars, results, loggerVars, forward, output>>

Exit ==
  /\ pc = "recv"
  /\ pc' = "end"
  /\ UNCHANGED <<session, eventID, mutexVars, stateVars, results, loggerVars, forward, output>>

Lock ==
  /\ pc = "lock" /\ Free(logMutex)
  /\ logMutex' = "main" /\ pc' = "flush"
  /\ UNCHANGED <<session, eventID, stateMutex, stateVars, results, loggerVars, forward, output>>

FlushAndPrint ==
  /\ pc = "flush"
  /\ FlushAll(<<Event(eventID)>>)
  /\ pc' = "flushAgain"
  /\ UNCHANGED <<session, eventID, mutexVars, results, loggerVars, forward>>

FlushAgain ==
  /\ pc = "flushAgain"
  /\ FlushAll(<<>>)
  /\ logMutex' = "nobody" /\ pc' = "spawn"
  /\ UNCHANGED <<session, eventID, stateMutex, results, loggerVars, forward>>

(* The anonymous loop flushes before it takes logMutex and after it.       *)
LockState(from, to) ==
  /\ pc = from /\ Free(stateMutex)
  /\ stateMutex' = "main" /\ pc' = to
  /\ UNCHANGED <<session, eventID, logMutex, stateVars, results, loggerVars, forward, output>>

MainPrintsNext ==
  /\ pc \in {"flushing", "flushingAgain"}
  /\ PrintNext
  /\ UNCHANGED <<session, pc, eventID, mutexVars, results, loggerVars, forward>>

UnlockState(from, to) ==
  /\ pc = from /\ nextExpectedID \notin pendingResults
  /\ stateMutex' = "nobody" /\ pc' = to
  /\ UNCHANGED <<session, eventID, logMutex, stateVars, results, loggerVars, forward, output>>

PrintEvent ==
  /\ pc = "print" /\ Free(logMutex)
  /\ Prints(<<Event(eventID)>>)
  /\ pc' = "after"
  /\ UNCHANGED <<session, eventID, mutexVars, stateVars, results, loggerVars, forward>>

(* go forwardEvent, and Ready; without the relay the loop ends.            *)
Spawn(ok) ==
  /\ pc = "spawn"
  /\ forward' = IF eventID \in session.forwarded THEN [forward EXCEPT ![eventID] = "sending"] ELSE forward
  /\ pc' = IF ok THEN "recv" ELSE "end"
  /\ UNCHANGED <<session, eventID, mutexVars, stateVars, results, loggerVars, output>>

MainLogs ==
  \/ Receive \/ Lock \/ FlushAndPrint \/ FlushAgain
  \/ LockState("before", "flushing") \/ UnlockState("flushing", "print")
  \/ PrintEvent
  \/ LockState("after", "flushingAgain") \/ UnlockState("flushingAgain", "spawn")
  \/ MainPrintsNext

--------------------------------------------------------------------------------
(* forwardEvent: the result goes to the channel, or where that is full to  *)
(* the terminal.                                                           *)
Forwarded(i) ==
  /\ Running /\ forward[i] = "sending"
  /\ IF Len(results) < ResultsCap
     THEN results' = Append(results, i) /\ forward' = [forward EXCEPT ![i] = "done"]
     ELSE forward' = [forward EXCEPT ![i] = "full"] /\ UNCHANGED results
  /\ UNCHANGED <<session, pc, eventID, mutexVars, stateVars, loggerVars, output>>

PrintDirectly(i) ==
  /\ Running /\ forward[i] = "full" /\ Free(logMutex)
  /\ Prints(<<Direct(i)>>)
  /\ forward' = [forward EXCEPT ![i] = "done"]
  /\ UNCHANGED <<session, pc, eventID, mutexVars, stateVars, results, loggerVars>>

(* The goroutine of startForwardingLogger.                                 *)
LoggerReceives ==
  /\ Running /\ logger = "idle" /\ results # <<>>
  /\ result' = Head(results) /\ results' = Tail(results)
  /\ logger' = "store"
  /\ UNCHANGED <<session, pc, eventID, mutexVars, stateVars, forward, output>>

\* Mutant: the flush is left to the loop.
LoggerStoresOnly ==
  /\ Running /\ logger = "store" /\ Free(stateMutex)
  /\ pendingResults' = pendingResults \cup {result}
  /\ result' = 0 /\ logger' = "idle"
  /\ UNCHANGED <<session, pc, eventID, mutexVars, nextExpectedID, results, forward, output>>

LoggerStores ==
  /\ Running /\ logger = "store" /\ Free(stateMutex)
  /\ pendingResults' = pendingResults \cup {result}
  /\ result' = 0 /\ logger' = "lock"
  /\ UNCHANGED <<session, pc, eventID, mutexVars, nextExpectedID, results, forward, output>>

LoggerLocks ==
  /\ Running /\ logger = "lock" /\ Free(stateMutex)
  /\ stateMutex' = "logger" /\ logger' = "flushing"
  /\ UNCHANGED <<session, pc, eventID, logMutex, stateVars, results, result, forward, output>>

LoggerPrintsNext ==
  /\ Running /\ logger = "flushing"
  /\ PrintNext
  /\ UNCHANGED <<session, pc, eventID, mutexVars, results, loggerVars, forward>>

LoggerUnlocks ==
  /\ Running /\ logger = "flushing" /\ nextExpectedID \notin pendingResults
  /\ stateMutex' = "nobody" /\ logger' = "idle"
  /\ UNCHANGED <<session, pc, eventID, logMutex, stateVars, results, result, forward, output>>

LoggerStep ==
  \/ LoggerReceives \/ LoggerStores \/ LoggerLocks \/ LoggerPrintsNext \/ LoggerUnlocks

--------------------------------------------------------------------------------
LoggerTypeOK ==
  /\ session \in Sessions
  /\ pc \in {"recv", "lock", "flush", "flushAgain", "before", "flushing", "print", "after",
             "flushingAgain", "spawn", "end"}
  /\ eventID \in 0..MaxEvents
  /\ logMutex \in {"nobody", "main"} /\ stateMutex \in {"nobody", "main", "logger"}
  /\ nextExpectedID \in 1..MaxEvents + 1 /\ pendingResults \subseteq Ids
  /\ results \in Seq(Ids) /\ Len(results) <= ResultsCap
  /\ logger \in {"idle", "store", "lock", "flushing"} /\ result \in Ids \cup {0}
  /\ forward \in [Ids -> {"none", "sending", "full", "done"}]
  /\ output \in Seq([what : {"event", "result", "direct"}, id : Ids])

(* Results that the logger keeps in order come out as 1, 2, 3, ..., none   *)
(* twice and none left out, and no result of an event is on the terminal   *)
(* before the event.                                                       *)
ResultsAt == {k \in 1..Len(output) : output[k].what = "result"}

ResultsInOrder ==
  /\ {output[k].id : k \in ResultsAt} = 1..nextExpectedID - 1
  /\ \A h, k \in ResultsAt : h < k => output[h].id < output[k].id
  /\ \A k \in 1..Len(output) :
       output[k].what # "event" => \E h \in 1..k - 1 : output[h] = Event(output[k].id)

(* The loop waits for the logger's mutex and the logger for the loop's.    *)
LockCycle ==
  /\ logMutex = "main" /\ stateMutex = "logger"
  /\ pc \in {"flush", "flushAgain"} /\ logger = "flushing" /\ nextExpectedID \in pendingResults

(* The loop gets through every event, and the relay its Ready: with a      *)
(* login unless the two have come to wait for each other, and without one  *)
(* always.                                                                 *)
LoopComesBack == pc # "recv" ~> pc \in {"recv", "end"} \/ (LockCycle /\ ~session.anonymous)

(* A result is printed when all the events up to its own are forwarded,    *)
(* unless the loop and the logger wait for each other, the channel has     *)
(* been full, or the client ends.                                          *)
Printed(i) == \E k \in 1..Len(output) : output[k] = Result(i)
HasResult(i) == forward[i] \in {"sending", "done"}

ResultsArePrinted ==
  \A i \in Ids :
    HasResult(i) /\ 1..i \subseteq session.forwarded
      ~> \/ Printed(i) \/ LockCycle \/ ~Running
         \/ \E j \in 1..i : forward[j] = "full" \/ (\E k \in 1..Len(output) : output[k] = Direct(j))
================================================================================
