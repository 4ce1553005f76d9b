----------------------------- MODULE WatchLoop -----------------------------
(***************************************************************************)
(* The life of the daemon's main thread from daemonizing to the end of     *)
(* Watcher_watchlogs (src/src/watcher.c), and the signals that end it.     *)
(* sighdl may run between any two steps of the thread and talks to         *)
(* watchloop through the two globals running and lastSigNum; a signal that *)
(* arrives while the thread sleeps in read() also interrupts the read.     *)
(* What an inotify event leads to is left to the module Watcher: here the  *)
(* queue is only a number of events.                                       *)
(***************************************************************************)
EXTENDS Naturals

CONSTANTS
  MaxQueue,      \* events that may be queued at the same time
  SignalPlaces   \* the places of the main thread where signals may arrive

Stopping == {"TERM", "INT"}
Handled  == Stopping \cup {"HUP", "USR1"}

\* In the order of the code: Watcher_init up to initSignals, the two
\* statements at its end, the test of running, the call of read(), sleeping
\* in it, its chunk of events, the handling of its failure, Watcher_done.
InLoop == {"test", "read", "asleep", "events", "failed", "report"}
Places == {"init", "signals", "started"} \cup InLoop
            \cup {"reset", "ignore", "done", "killed"}

ASSUME WatchLoopAssumption ==
  /\ MaxQueue \in Nat \ {0}
  /\ SignalPlaces \subseteq Places

VARIABLES
  pc,           \* where the main thread is
  disposition,  \* of the handled signals: "default", "ignore" or "handle"
  running,      \* flag indicating running watcher
  lastSigNum,   \* the signal last received, or "none"
  sig,          \* the signal about to be logged, or "none"
  queue,        \* events inotify has queued
  chunk,        \* events of the chunk that are left to handle
  asked         \* a stopping signal was received inside Watcher_watchlogs

vars == <<pc, disposition, running, lastSigNum, sig, queue, chunk, asked>>

\* Daemon_daemonize has the signals ignored; with --no-detach nobody has.
Init ==
  /\ pc = "init"
  /\ disposition \in {"default", "ignore"}
  /\ running = FALSE
  /\ lastSigNum = "none"
  /\ sig = "none"
  /\ queue = 0
  /\ chunk = 0
  /\ asked = FALSE

Goes(from, to) == pc = from /\ pc' = to

-----------------------------------------------------------------------------
(* The environment.                                                        *)

\* Something happens to a watched file or directory.  An event ends the sleep
\* in read(), see Wake.
Event ==
  /\ pc \notin {"init", "done", "killed"}
  /\ queue < MaxQueue
  /\ queue' = queue + 1
  /\ UNCHANGED <<pc, disposition, running, lastSigNum, sig, chunk, asked>>

sighdl(s) ==
  /\ disposition = "handle"
  /\ lastSigNum' = s
  /\ running' = (running /\ s \notin Stopping)
  /\ asked' = (asked \/ s \in Stopping)

\* A sleeping read() then returns with EINTR.
Handle(s) ==
  /\ sighdl(s)
  /\ pc' = IF pc = "asleep" THEN "failed" ELSE pc
  /\ UNCHANGED <<disposition, sig, queue, chunk>>

\* Without a handler the process ends, unless the signal is ignored.
Die ==
  /\ disposition = "default"
  /\ pc' = "killed"
  /\ UNCHANGED <<disposition, running, lastSigNum, sig, queue, chunk, asked>>

Signal(s) ==
  /\ pc \in SignalPlaces
  /\ pc \notin {"done", "killed"}
  /\ Handle(s) \/ Die

-----------------------------------------------------------------------------
(* Watcher_init.                                                           *)

\* inotify_init fails, or there is nothing to watch.
InitFails ==
  /\ Goes("init", "done")
  /\ UNCHANGED <<disposition, running, lastSigNum, sig, queue, chunk, asked>>

InitWatches ==
  /\ Goes("init", "signals")
  /\ UNCHANGED <<disposition, running, lastSigNum, sig, queue, chunk, asked>>

initSignals ==
  /\ Goes("signals", "started")
  /\ disposition' = "handle"
  /\ UNCHANGED <<running, lastSigNum, sig, queue, chunk, asked>>

SetRunning ==
  /\ Goes("started", "test")
  /\ running' = TRUE
  /\ UNCHANGED <<disposition, lastSigNum, sig, queue, chunk, asked>>

-----------------------------------------------------------------------------
(* watchloop.                                                              *)

TestRunning ==
  /\ pc = "test"
  /\ pc' = IF running THEN "read" ELSE "reset"
  /\ UNCHANGED <<disposition, running, lastSigNum, sig, queue, chunk, asked>>

\* read() takes the events there are ...
Read ==
  /\ Goes("read", "events")
  /\ queue > 0
  /\ chunk' = queue
  /\ queue' = 0
  /\ UNCHANGED <<disposition, running, lastSigNum, sig, asked>>

\* ... or sleeps until there is one.
Sleep ==
  /\ Goes("read", "asleep")
  /\ queue = 0
  /\ UNCHANGED <<disposition, running, lastSigNum, sig, queue, chunk, asked>>

Wake ==
  /\ Goes("asleep", "read")
  /\ queue > 0
  /\ UNCHANGED <<disposition, running, lastSigNum, sig, queue, chunk, asked>>

\* An error of its own ends the loop.
ReadFails ==
  /\ Goes("read", "reset")
  /\ UNCHANGED <<disposition, running, lastSigNum, sig, queue, chunk, asked>>

\* Faulty variant for TLC: one turn too many, pos <= chunk.
HandleEventTooOften ==
  /\ pc = "events"
  /\ chunk' = IF chunk = 0 THEN 0 ELSE chunk - 1
  /\ pc' = IF chunk = 0 THEN "read" ELSE "events"
  /\ UNCHANGED <<disposition, running, lastSigNum, sig, queue, asked>>

\* One event of the chunk; after the last one the inner loop reads again,
\* whatever running says.
HandleEvent ==
  /\ pc = "events"
  /\ chunk' = chunk - 1
  /\ pc' = IF chunk' = 0 THEN "read" ELSE "events"
  /\ UNCHANGED <<disposition, running, lastSigNum, sig, queue, asked>>

\* After EINTR: fetch and reset lastSigNum.
FetchSignal ==
  /\ Goes("failed", "report")
  /\ sig' = lastSigNum
  /\ lastSigNum' = "none"
  /\ UNCHANGED <<disposition, running, queue, chunk, asked>>

\* Faulty variant for TLC: an ignored signal starts the loop anew.
ReportRestarting ==
  /\ Goes("report", "test")
  /\ running' = TRUE
  /\ sig' = "none"
  /\ UNCHANGED <<disposition, lastSigNum, queue, chunk, asked>>

\* "Ignoring signal" or "stopping daemon", then back to the test.
ReportSignal ==
  /\ Goes("report", "test")
  /\ sig' = "none"
  /\ UNCHANGED <<disposition, running, lastSigNum, queue, chunk, asked>>

-----------------------------------------------------------------------------
(* Watcher_done.                                                           *)

ResetRunning ==
  /\ Goes("reset", "ignore")
  /\ running' = FALSE
  /\ UNCHANGED <<disposition, lastSigNum, sig, queue, chunk, asked>>

\* Faulty variant for TLC: the handlers stay.
LeaveHandlers ==
  /\ Goes("ignore", "done")
  /\ queue' = 0
  /\ UNCHANGED <<disposition, running, lastSigNum, sig, chunk, asked>>

doneSignals ==
  /\ Goes("ignore", "done")
  /\ disposition' = "ignore"
  /\ queue' = 0
  /\ UNCHANGED <<running, lastSigNum, sig, chunk, asked>>

Terminated == pc \in {"done", "killed"} /\ UNCHANGED vars

-----------------------------------------------------------------------------
MainThread ==
  \/ InitFails \/ InitWatches \/ initSignals \/ SetRunning
  \/ TestRunning \/ Read \/ Sleep \/ Wake \/ ReadFails \/ HandleEvent
  \/ FetchSignal \/ ReportSignal
  \/ ResetRunning \/ doneSignals

Next == Event \/ (\E s \in Handled : Signal(s)) \/ MainThread \/ Terminated

\* The main thread runs whenever it can; nothing makes a signal or an event
\* arrive.
Spec == Init /\ [][Next]_vars /\ WF_vars(MainThread)

-----------------------------------------------------------------------------
(* Properties.                                                             *)

\* The variables stay in their ranges; in particular a chunk is never empty
\* while its events are handled, and the action phase starts with the signals
\* ignored again, so that no wait in it is interrupted.
TypeOK ==
  /\ pc \in Places
  /\ disposition \in {"default", "ignore", "handle"}
  /\ running \in BOOLEAN /\ asked \in BOOLEAN
  /\ {lastSigNum, sig} \subseteq Handled \cup {"none"}
  /\ queue \in 0..MaxQueue
  /\ chunk \in IF pc = "events" THEN 1..MaxQueue ELSE {0}

\* watcher.c: whatever follows Watcher_watchlogs, that is
\* Action_waitForPending, runs with the handlers gone and running reset.
WaitsUndisturbed ==
  pc = "done" => disposition # "handle" /\ ~running

\* Once the loop was told to stop, nothing makes it run again.
NeverRestarts == [][(pc \in InLoop /\ ~running) => ~(running')]_vars

\* watcher.h: Watcher_watchlogs "returns upon receipt of a SIGTERM or SIGINT".
StopHonoured == asked ~> pc = "done"

\* A stop is not missed for good: once the loop gets to its test, or read() is
\* interrupted by any signal, be it SIGHUP, a stop that was handled takes
\* effect, whatever signals and events keep arriving.
StopNoticed == pc \in {"test", "failed", "report"} /\ ~running ~> pc = "done"
=============================================================================
