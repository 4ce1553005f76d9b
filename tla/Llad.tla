-------------------------------- MODULE Llad --------------------------------
(***************************************************************************)
(* The daemon as one process: svcmain (src/src/llad.c) with the loop of    *)
(* WatchLoop, whose scanning of log files launches executions of Action,   *)
(* and the wait for them when the loop has ended.  There is one main       *)
(* thread: while it launches an execution the loop stands still.  Signals  *)
(* may be delivered to the main thread or to a controlling thread.         *)
(***************************************************************************)
EXTENDS WatchLoop, FiniteSets

CONSTANTS Threads, Main, Nobody, WaitOutput, PipeWait, TermWait, WholeLines

ASSUME LladAssumption ==
  /\ IsFiniteSet(Threads)
  /\ Main \notin Threads /\ Nobody \notin Threads /\ Main # Nobody
  /\ WaitOutput \in Nat /\ PipeWait \in Nat /\ TermWait \in Nat
  /\ WholeLines \in BOOLEAN

VARIABLES
  watched,    \* the result of Watcher_watchlogs, FALSE until it has succeeded
  thread,     \* where each controlling thread is (pc in Action)
  main, verdict, numThreads, numThreadsLock, threadsLock, forceExit,
  counter, child, signalled, pipe, writeEnd, holders

A == INSTANCE Action WITH pc <- thread, Interruptible <- FALSE

execution  == <<verdict, numThreads, numThreadsLock, threadsLock, forceExit,
                thread, counter, child, signalled, pipe, writeEnd, holders>>
actionVars == <<main, execution>>
lladVars == <<vars, watched, actionVars>>

LladInit == Init /\ watched = FALSE /\ A!Init

-----------------------------------------------------------------------------
(* Signals and events.                                                     *)

NewEvent == Event /\ UNCHANGED <<watched, actionVars>>

\* A signal without a handler ends the process (pc is "killed").
SignalToMain(s) ==
  /\ main # "exited"
  /\ Signal(s)
  /\ UNCHANGED <<watched, actionVars>>

\* A controlling thread runs the handler, unless it is in readLine: main
\* goes on sleeping in read(), but the last waitpid() of the thread ends.
SignalToThread(s, t) ==
  /\ main # "exited"
  /\ thread[t] \in A!CountedPlaces \ (A!Reading \cup {"counted"})
  /\ sighdl(s)
  /\ thread' = [thread EXCEPT ![t] = IF @ = "reap3" THEN "finish" ELSE @]
  /\ UNCHANGED <<pc, disposition, sig, queue, chunk, watched, main, verdict,
                 numThreads, numThreadsLock, threadsLock, forceExit, counter,
                 child, signalled, pipe, writeEnd, holders>>

-----------------------------------------------------------------------------
(* svcmain.                                                                *)

\* Watcher_watchlogs.
Loop ==
  /\ main = "watch"
  /\ MainThread
  /\ watched' = (watched \/ pc = "ignore")
  /\ UNCHANGED actionVars

\* A new line of the log file that the event is about matches a pattern.
LineMatches(t) ==
  /\ pc = "events"
  /\ A!MatchLine(t)
  /\ UNCHANGED <<vars, watched>>

Launching ==
  /\ \/ A!LockForLaunch \/ A!UnlockAfterLaunch
     \/ \E t \in Threads : A!CountThread(t) \/ A!CreateThread(t) \/ A!CreateFails(t)
  /\ UNCHANGED <<vars, watched>>

Controlling(t) == A!Control(t) /\ UNCHANGED <<vars, watched>>
CommandActs(t) == A!Command(t) /\ UNCHANGED <<vars, watched>>

\* Faulty variant for TLC: the wait is skipped.
NoWait ==
  /\ pc = "done"
  /\ A!MainGoes("watch", "returned")
  /\ UNCHANGED <<vars, watched, execution>>

\* "only wait if Watcher ran successfully, otherwise there can be no actions
\* launched."
WaitForPending ==
  /\ pc = "done"
  /\ IF watched
     THEN A!StopWatching
     ELSE /\ A!MainGoes("watch", "returned")
          /\ UNCHANGED execution
  /\ UNCHANGED <<vars, watched>>

\* Faulty variant for TLC: the second wait has no timeout.
EndingPatiently ==
  /\ A!WaitSucceeds \/ A!MustWait \/ A!ForceExit \/ A!ConfigDone \/ A!ProcessEnds
  /\ UNCHANGED <<vars, watched>>

Ending ==
  /\ \/ A!WaitSucceeds \/ A!MustWait \/ A!ForceExit \/ A!GiveUp
     \/ A!ConfigDone \/ A!ProcessEnds
  /\ UNCHANGED <<vars, watched>>

Exited == (main = "exited" \/ pc = "killed") /\ UNCHANGED lladVars

LladNext ==
  \/ NewEvent
  \/ \E s \in Handled : SignalToMain(s) \/ \E t \in Threads : SignalToThread(s, t)
  \/ Loop \/ Launching \/ WaitForPending \/ Ending
  \/ \E t \in Threads : LineMatches(t) \/ Controlling(t) \/ CommandActs(t)
  \/ Exited

\* The main thread runs, and its timed waits expire.  Nothing makes a command
\* or a controlling thread get on.
LladSpec ==
  /\ LladInit /\ [][LladNext]_lladVars
  /\ WF_lladVars(Loop) /\ WF_lladVars(WaitForPending) /\ WF_lladVars(Ending)

-----------------------------------------------------------------------------
\* llad.c: when the daemon ends in order, without giving up, nothing that it
\* executed is left: every execution was waited for, or (with a handled
\* signal at the wrong time) at least killed; and without a successful
\* Watcher there was none.
NothingLeftBehind ==
  main \in {"returned", "unconfigured", "exited"} /\ verdict # "gaveup" => \A t \in Threads :
         child[t] \in {"none", "reaped"} \/ signalled[t] = "KILL"

\* README: llad can be stopped.  As soon as the loop tests running, a stop
\* that was handled ends the process, even if a controlling thread is stuck
\* for good and whatever commands ignore.
StopEnds == pc = "test" /\ ~running ~> main = "exited"

\* What Action says of the execution of actions, with signals that may reach
\* a controlling thread, holds in the whole daemon: the loop and the signals
\* do nothing else to it.  Without a successful Watcher the daemon ends as if
\* it had gone on watching and never launched anything.
mainSeen == IF pc = "done" /\ ~watched THEN "watch" ELSE main
Executions == INSTANCE Action
  WITH main <- mainSeen, pc <- thread, Interruptible <- TRUE
ImplementsAction == Executions!Init /\ [][Executions!Next]_(Executions!vars)

=============================================================================
