----------------------------- MODULE LladProofs -----------------------------
(***************************************************************************)
(* Proofs about WatchLoop, for any number of events that may be queued and *)
(* signals at any of its places: the action phase is undisturbed by        *)
(* signals, and a stop is for good.                                        *)
(*                                                                         *)
(* And about Llad, for any number of executions, signals at any place      *)
(* and any patience: the loop of WatchLoop and the executions of Action do *)
(* not disturb each other, so that what was proved about each of them      *)
(* holds in the whole daemon; and when the daemon ends without giving up,  *)
(* nothing that it executed is left behind.                                *)
(***************************************************************************)
EXTENDS Llad, FiniteSetTheorems, TLAPS

\* The theorems about Action, for the executions as the daemon has them; its
\* clock, which only Timing has, stands still.
P == INSTANCE ActionProofs
  WITH main <- mainSeen, pc <- thread, Interruptible <- TRUE,
       Clocks <- {FALSE}, clock <- FALSE, asleep <- {}, elapsed <- 0

-----------------------------------------------------------------------------
(* The loop, by itself.                                                    *)

\* The inductive invariant: signals are handled between initSignals and
\* doneSignals, and running is set only inside the loop.
IInv ==
  /\ TypeOK
  /\ disposition = "handle" <=> pc \notin {"init", "signals", "done", "killed"}
  /\ pc \in {"init", "signals", "started", "ignore", "done"} => ~running

\* A handler that runs, wherever the main thread is, leaves it there or makes
\* its read() fail.
LEMMA HandlerStep ==
  ASSUME IInv, NEW s \in Handled, sighdl(s),
         pc' = pc \/ (pc = "asleep" /\ pc' = "failed"),
         UNCHANGED <<disposition, sig, queue, chunk>>
  PROVE  IInv'
<1>1. pc' \in Places
  BY DEF IInv, TypeOK, Places, InLoop
<1>2. running' => running
  BY DEF sighdl
<1>3. running' \in BOOLEAN /\ asked' \in BOOLEAN
  BY DEF sighdl
<1>4. {lastSigNum', sig'} \subseteq Handled \cup {"none"}
  BY DEF sighdl, IInv, TypeOK
<1>. QED
  BY <1>1, <1>2, <1>3, <1>4 DEF IInv, TypeOK

\* What happens around the process.
LEMMA OutsideStep ==
  ASSUME IInv, Event \/ \E s \in Handled : Signal(s)
  PROVE  IInv'
<1>1. CASE Event
  BY <1>1, WatchLoopAssumption DEF Event, IInv, TypeOK, WatchLoopAssumption
<1>2. ASSUME NEW s \in Handled, Signal(s)
      PROVE  IInv'
  <2>1. CASE Handle(s)
    <3>1. pc' = pc \/ (pc = "asleep" /\ pc' = "failed")
      BY <2>1 DEF Handle
    <3>. QED
      BY <2>1, <3>1, HandlerStep DEF Handle
  <2>2. CASE Die
    <3>1. pc' = "killed" /\ chunk' = chunk /\ disposition = "default"
      BY <2>2 DEF Die
    <3>2. chunk = 0
      BY <3>1 DEF IInv, TypeOK, Places, InLoop
    <3>. QED
      BY <2>2, <3>1, <3>2 DEF Die, IInv, TypeOK, Places
  <2>. QED
    BY <1>2, <2>1, <2>2 DEF Signal
<1>. QED
  BY <1>1, <1>2

\* The main thread.
LEMMA MainStep ==
  ASSUME IInv, MainThread
  PROVE  IInv'
<1>. USE DEF IInv, TypeOK, Places, InLoop, Goes
<1>1. CASE InitFails \/ InitWatches \/ initSignals \/ SetRunning
  <2>1. CASE InitFails \/ InitWatches
    BY <2>1 DEF InitFails, InitWatches
  <2>2. CASE initSignals
    BY <2>2 DEF initSignals
  <2>3. CASE SetRunning
    BY <2>3 DEF SetRunning
  <2>. QED
    BY <1>1, <2>1, <2>2, <2>3
<1>2. CASE TestRunning
  BY <1>2 DEF TestRunning
<1>3. CASE Read
  <2>1. queue' \in 0..MaxQueue /\ chunk' \in 1..MaxQueue
    BY <1>3, WatchLoopAssumption DEF Read, WatchLoopAssumption
  <2>. QED
    BY <1>3, <2>1 DEF Read
<1>4. CASE Sleep \/ Wake \/ ReadFails
  BY <1>4 DEF Sleep, Wake, ReadFails
<1>5. CASE HandleEvent
  BY <1>5, WatchLoopAssumption DEF HandleEvent, WatchLoopAssumption
<1>6. CASE FetchSignal \/ ReportSignal
  BY <1>6 DEF FetchSignal, ReportSignal
<1>7. CASE ResetRunning \/ doneSignals
  <2>1. CASE ResetRunning
    BY <2>1 DEF ResetRunning
  <2>2. CASE doneSignals
    <3>1. queue' \in 0..MaxQueue
      BY <2>2, WatchLoopAssumption DEF doneSignals, WatchLoopAssumption
    <3>. QED
      BY <2>2, <3>1 DEF doneSignals
  <2>. QED
    BY <1>7, <2>1, <2>2
<1>. QED
  BY <1>1, <1>2, <1>3, <1>4, <1>5, <1>6, <1>7 DEF MainThread

\* The daemon starts with signals unhandled and running unset.
LEMMA InvStarts ==
  ASSUME Init
  PROVE  IInv
<1>1. queue \in 0..MaxQueue /\ chunk = 0
  BY WatchLoopAssumption DEF Init, WatchLoopAssumption
<1>. QED
  BY <1>1 DEF Init, IInv, TypeOK, Places

\* IInv holds in every reachable state.
THEOREM Invariance == Spec => []IInv
<1>1. Init => IInv
  BY InvStarts
<1>2. IInv /\ [Next]_vars => IInv'
  <2>. SUFFICES ASSUME IInv, [Next]_vars PROVE IInv'
    OBVIOUS
  <2>1. CASE Terminated \/ UNCHANGED vars
    BY <2>1 DEF Terminated, vars, IInv, TypeOK
  <2>. QED
    BY <2>1, OutsideStep, MainStep DEF Next
<1>. QED
  BY <1>1, <1>2, PTL DEF Spec

\* The variables stay in their ranges, and no chunk of events is empty.
THEOREM TypeCorrect == Spec => []TypeOK
<1>1. IInv => TypeOK
  BY DEF IInv
<1>. QED
  BY <1>1, Invariance, PTL

\* Whatever signals arrive: when Watcher_watchlogs has returned no handler is
\* left, so that no signal gets into the waits that follow.
THEOREM Undisturbed == Spec => []WaitsUndisturbed
<1>1. IInv => WaitsUndisturbed
  BY DEF IInv, WaitsUndisturbed
<1>. QED
  BY <1>1, Invariance, PTL

\* Whatever signals and events arrive: a loop that was told to stop does not
\* run again.
THEOREM NoRestart == Spec => NeverRestarts
<1>1. ASSUME [Next]_vars, pc \in InLoop, ~running
      PROVE  ~(running')
  <2>1. CASE UNCHANGED vars
    BY <1>1, <2>1 DEF vars
  <2>2. CASE Event \/ \E s \in Handled : Signal(s)
    BY <1>1, <2>2 DEF Event, Signal, Handle, sighdl, Die
  <2>3. CASE MainThread
    BY <1>1, <2>3
       DEF MainThread, Goes, InLoop, InitFails, InitWatches, initSignals,
           SetRunning, TestRunning, Read, Sleep, Wake, ReadFails, HandleEvent,
           FetchSignal, ReportSignal, ResetRunning, doneSignals
  <2>4. CASE Terminated
    BY <1>1, <2>4 DEF Terminated, vars
  <2>. QED
    BY <1>1, <2>1, <2>2, <2>3, <2>4 DEF Next
<1>. QED
  BY <1>1, PTL DEF Spec, NeverRestarts

-----------------------------------------------------------------------------
(* Steps of Action are steps of Action, whoever takes them.                *)

\* Nothing makes the main thread look different from what it is.
Seen == mainSeen = main /\ mainSeen' = main'

\* A launch.
LEMMA LaunchStep ==
  ASSUME Seen,
         \/ A!LockForLaunch \/ A!UnlockAfterLaunch
         \/ \E t \in Threads : A!MatchLine(t) \/ A!CountThread(t)
                                 \/ A!CreateThread(t) \/ A!CreateFails(t)
  PROVE  Executions!Next /\ P!Next
  BY DEF Seen, A!LockForLaunch, A!UnlockAfterLaunch, A!MatchLine, A!CountThread,
         A!CreateThread, A!CreateFails, A!MainGoes, A!Goto, A!accounting,
         A!commands, Executions!Next, Executions!Launch,
         Executions!LockForLaunch, Executions!UnlockAfterLaunch,
         Executions!MatchLine, Executions!CountThread, Executions!CreateThread,
         Executions!CreateFails, Executions!MainGoes, Executions!Goto,
         Executions!accounting, Executions!commands, P!Next, P!Launch,
         P!LockForLaunch, P!UnlockAfterLaunch, P!MatchLine, P!CountThread,
         P!CreateThread, P!CreateFails, P!MainGoes, P!Goto, P!accounting,
         P!commands

\* A controlling thread.
LEMMA ThreadStep ==
  ASSUME Seen, NEW t \in Threads, A!Control(t)
  PROVE  Executions!Control(t) /\ P!Control(t)
<1>. USE DEF Seen, A!At, Executions!At, A!Running, Executions!Running, A!Goto,
             Executions!Goto, A!mainVars, Executions!mainVars, A!accounting,
             Executions!accounting, A!commands, Executions!commands, P!At,
             P!Running, P!Goto, P!mainVars, P!accounting, P!commands
<1>1. CASE A!OpenPipe(t) \/ A!Fork(t) \/ A!ForkFails(t) \/ A!OpenStream(t)
  BY <1>1 DEF A!OpenPipe, A!Fork, A!ForkFails, A!OpenStream, A!ReadNext,
              A!StopReading, Executions!Control, Executions!OpenPipe,
              Executions!Fork, Executions!ForkFails, Executions!OpenStream,
              Executions!ReadNext, Executions!StopReading, P!Control,
              P!OpenPipe, P!Fork, P!ForkFails, P!OpenStream, P!ReadNext,
              P!StopReading
<1>2. CASE A!ReadTimesOut(t) \/ A!TakeForceExit(t) \/ A!PassForceExit(t)
             \/ A!BeginSelect(t)
  BY <1>2 DEF A!ReadTimesOut, A!TakeForceExit, A!PassForceExit, A!BeginSelect,
              A!StopReading, Executions!Control, Executions!ReadTimesOut,
              Executions!TakeForceExit, Executions!PassForceExit,
              Executions!BeginSelect, Executions!StopReading, P!Control,
              P!ReadTimesOut, P!TakeForceExit, P!PassForceExit, P!BeginSelect,
              P!StopReading
<1>3. CASE A!Select(t) \/ A!SelectFails(t) \/ A!GetLine(t) \/ A!GetEof(t)
  BY <1>3 DEF A!Select, A!SelectFails, A!GetLine, A!GetEof, A!Readable, A!AtEof,
              A!ReadNext, A!StopReading, Executions!Control, Executions!Select,
              Executions!SelectFails, Executions!GetLine, Executions!GetEof,
              Executions!Readable, Executions!AtEof, Executions!ReadNext,
              Executions!StopReading, P!Control, P!Select, P!SelectFails,
              P!GetLine, P!GetEof, P!Readable, P!AtEof, P!ReadNext,
              P!StopReading
<1>4. CASE A!Poll(t) \/ A!SendTerm(t) \/ A!SendKill(t) \/ A!ReapKilled(t)
             \/ A!ReapInterrupted(t)
  BY <1>4 DEF A!Poll, A!SendTerm, A!SendKill, A!ReapKilled, A!ReapInterrupted,
              Executions!Control, Executions!Poll, Executions!SendTerm,
              Executions!SendKill, Executions!ReapKilled, P!Control, P!Poll,
              P!SendTerm, P!SendKill, P!ReapKilled
<1>5. CASE A!LockForExit(t) \/ A!CountDown(t) \/ A!PostThreadsLock(t)
             \/ A!UnlockAndEnd(t)
  BY <1>5 DEF A!LockForExit, A!CountDown, A!PostThreadsLock, A!UnlockAndEnd,
              Executions!Control, Executions!LockForExit, Executions!CountDown,
              Executions!PostThreadsLock, Executions!UnlockAndEnd, P!Control,
              P!LockForExit, P!CountDown, P!PostThreadsLock, P!UnlockAndEnd
<1>. QED
  BY <1>1, <1>2, <1>3, <1>4, <1>5 DEF A!Control

\* A command.
LEMMA CommandStep ==
  ASSUME Seen, NEW t \in Threads, A!Command(t)
  PROVE  Executions!Command(t) /\ P!Command(t)
  BY DEF Seen, A!Command, A!Exec, A!ExecFails, A!Write, A!Exit, A!CloseAll,
         A!Running, A!WithoutFamily, A!Reading, A!mainVars, A!accounting,
         Executions!Command, Executions!Exec, Executions!ExecFails,
         Executions!Write, Executions!Exit, Executions!CloseAll,
         Executions!Running, Executions!WithoutFamily, Executions!Reading,
         Executions!mainVars, Executions!accounting, P!Command, P!Exec,
         P!ExecFails, P!Write, P!Exit, P!CloseAll, P!Running, P!WithoutFamily,
         P!Reading, P!mainVars, P!accounting

\* The end.
LEMMA EndStep ==
  ASSUME Seen,
         \/ A!StopWatching \/ A!WaitSucceeds \/ A!MustWait \/ A!ForceExit
         \/ A!GiveUp \/ A!ConfigDone \/ A!ProcessEnds
  PROVE  Executions!Shutdown /\ P!Shutdown
  BY DEF Seen, A!StopWatching, A!WaitSucceeds, A!MustWait, A!ForceExit,
         A!GiveUp, A!ConfigDone, A!ProcessEnds, A!MainGoes, A!Return, A!Waiting,
         A!accounting, A!commands, Executions!Shutdown, Executions!StopWatching,
         Executions!WaitSucceeds, Executions!MustWait, Executions!ForceExit,
         Executions!GiveUp, Executions!ConfigDone, Executions!ProcessEnds,
         Executions!MainGoes, Executions!Return, Executions!Waiting,
         Executions!accounting, Executions!commands, P!Shutdown, P!StopWatching,
         P!WaitSucceeds, P!MustWait, P!ForceExit, P!GiveUp, P!ConfigDone,
         P!ProcessEnds, P!MainGoes, P!Return, P!Waiting, P!accounting,
         P!commands

-----------------------------------------------------------------------------
(* How the loop and the executions depend on each other.                   *)

\* No watcher was successful, so far or for good.
Idle == pc = "init" \/ (pc = "done" /\ ~watched)

\* The loop stands still while it launches; it is over when the daemon waits;
\* and nothing was launched without it.
Linked ==
  /\ watched \in BOOLEAN
  /\ thread \in [Threads -> A!ThreadPlaces]
  /\ pc # "done" => main \in A!Watching /\ ~watched
  /\ main \in A!Watching \ {"watch"} => pc = "events"
  /\ Idle => /\ main \notin A!Waiting
             /\ \A t \in Threads : thread[t] = "unused" /\ child[t] = "none"

\* The inductive invariant of the whole daemon.
LladInv == IInv /\ Linked /\ P!IInv

\* A step that changes nothing for Action.
Unseen == UNCHANGED <<mainSeen, execution>>

\* Each step of the daemon is one of Action, or none.
StepOfAction ==
  \/ Executions!Next /\ P!Next
  \/ Unseen

\* Unless the daemon is idle at its end, what Action sees is the main thread.
LEMMA SeenUnlessIdle ==
  ASSUME UNCHANGED <<pc, watched>>, ~(pc = "done" /\ ~watched)
  PROVE  Seen
  BY DEF Seen, mainSeen

\* Signals and events.
LEMMA OutsideActs ==
  ASSUME LladInv,
         \/ NewEvent
         \/ \E s \in Handled :
              SignalToMain(s) \/ \E t \in Threads : SignalToThread(s, t)
  PROVE  StepOfAction
<1>1. CASE NewEvent
  BY <1>1 DEF NewEvent, Event, StepOfAction, Unseen, mainSeen, actionVars
<1>2. ASSUME NEW s \in Handled, SignalToMain(s)
      PROVE  StepOfAction
  BY <1>2 DEF SignalToMain, Signal, Handle, sighdl, Die, StepOfAction, Unseen,
              mainSeen, actionVars
<1>3. ASSUME NEW s \in Handled, NEW t \in Threads, SignalToThread(s, t)
      PROVE  StepOfAction
  <2>1. pc # "done" /\ main \in A!Watching
    BY <1>3 DEF SignalToThread, sighdl, LladInv, IInv, Linked
  <2>2. Seen
    BY <1>3, <2>1 DEF SignalToThread, Seen, mainSeen
  <2>3. CASE thread[t] = "reap3"
    <3>1. /\ Executions!ReapInterrupted(t) /\ P!ReapInterrupted(t)
      BY <1>3, <2>1, <2>2, <2>3
         DEF SignalToThread, Seen, A!Watching,
             Executions!ReapInterrupted, Executions!At, Executions!Running,
             Executions!Goto, Executions!Watching, Executions!mainVars,
             Executions!accounting, Executions!commands,
             P!ReapInterrupted, P!At, P!Running, P!Goto, P!Watching,
             P!mainVars, P!accounting, P!commands
    <3>. QED
      BY <3>1 DEF StepOfAction, Executions!Next, Executions!Control, P!Next,
                  P!Control
  <2>4. CASE thread[t] # "reap3"
    BY <1>3, <2>2, <2>4
       DEF SignalToThread, StepOfAction, Unseen, Seen, execution, LladInv,
           Linked
  <2>. QED
    BY <2>3, <2>4
<1>. QED
  BY <1>1, <1>2, <1>3

\* The loop.
LEMMA LoopActs ==
  ASSUME LladInv, Loop
  PROVE  StepOfAction
<1>1. /\ main = "watch" /\ main' = main
      /\ watched' = (watched \/ pc = "ignore")
      /\ UNCHANGED execution
  BY DEF Loop, actionVars
<1>2. pc # "done" /\ (pc' = "done" => pc = "ignore" \/ pc = "init")
  BY DEF Loop, MainThread, Goes, InitFails, InitWatches, initSignals,
         SetRunning, TestRunning, Read, Sleep, Wake, ReadFails, HandleEvent,
         FetchSignal, ReportSignal, ResetRunning, doneSignals
<1>3. mainSeen = main /\ mainSeen' = main'
  BY <1>1, <1>2 DEF mainSeen
<1>. QED
  BY <1>1, <1>3 DEF StepOfAction, Unseen

\* Only threads that were launched do anything.
LEMMA NotIdle ==
  ASSUME LladInv, NEW t \in Threads, Controlling(t) \/ CommandActs(t)
  PROVE  ~Idle
<1>. SUFFICES ASSUME thread[t] = "unused", child[t] = "none" PROVE FALSE
  BY DEF LladInv, Linked
<1>1. CASE Controlling(t)
  BY <1>1 DEF Controlling, A!Control, A!At, A!OpenPipe, A!Fork,
              A!ForkFails, A!OpenStream, A!ReadTimesOut, A!TakeForceExit,
              A!PassForceExit, A!BeginSelect, A!Select, A!SelectFails,
              A!GetLine, A!GetEof, A!Poll, A!SendTerm, A!SendKill,
              A!ReapKilled, A!ReapInterrupted, A!LockForExit,
              A!CountDown, A!PostThreadsLock, A!UnlockAndEnd
<1>2. CASE CommandActs(t)
  BY <1>2 DEF CommandActs, A!Command, A!Exec, A!ExecFails, A!Write,
              A!Exit, A!CloseAll
<1>. QED
  BY <1>1, <1>2

\* Launching and executing.
LEMMA ExecutionActs ==
  ASSUME LladInv,
         Launching \/ \E t \in Threads : LineMatches(t) \/ Controlling(t)
                                             \/ CommandActs(t)
  PROVE  StepOfAction
<1>1. CASE Launching \/ \E t \in Threads : LineMatches(t)
  <2>1. pc # "done" /\ UNCHANGED <<pc, watched>>
    BY <1>1
       DEF Launching, LineMatches, LladInv, Linked, vars, A!Watching,
           A!LockForLaunch, A!UnlockAfterLaunch, A!CountThread,
           A!CreateThread, A!CreateFails, A!MainGoes
  <2>2. Seen
    BY <2>1, SeenUnlessIdle
  <2>. QED
    BY <1>1, <2>2, LaunchStep DEF Launching, LineMatches, StepOfAction
<1>2. ASSUME NEW t \in Threads, Controlling(t) \/ CommandActs(t)
      PROVE  StepOfAction
  <2>1. UNCHANGED <<pc, watched>>
    BY <1>2 DEF Controlling, CommandActs, vars
  <2>2. ~Idle
    BY <1>2, NotIdle
  <2>3. Seen
    BY <2>1, <2>2, SeenUnlessIdle DEF Idle
  <2>. QED
    BY <1>2, <2>3, ThreadStep, CommandStep
       DEF Controlling, CommandActs, StepOfAction, Executions!Next, P!Next
<1>. QED
  BY <1>1, <1>2

\* The end of the daemon.
LEMMA EndActs ==
  ASSUME LladInv, WaitForPending \/ Ending
  PROVE  StepOfAction
<1>1. pc = "done" /\ UNCHANGED <<pc, watched>>
  <2>1. CASE WaitForPending
    BY <2>1 DEF WaitForPending, vars
  <2>2. CASE Ending
    BY <2>2 DEF Ending, vars, LladInv, Linked, A!Watching, A!WaitSucceeds,
                A!MustWait, A!ForceExit, A!GiveUp, A!ConfigDone,
                A!ProcessEnds, A!MainGoes, A!Waiting
  <2>. QED
    BY <2>1, <2>2
<1>2. CASE watched
  <2>1. Seen
    BY <1>1, <1>2, SeenUnlessIdle
  <2>. QED
    BY <1>2, <2>1, EndStep
       DEF WaitForPending, Ending, StepOfAction, Executions!Next, P!Next
<1>3. CASE ~watched
  <2>1. main \notin A!Waiting
    BY <1>1, <1>3 DEF LladInv, Linked, Idle
  <2>2. UNCHANGED execution
    BY <1>3, <2>1 DEF WaitForPending, Ending, A!WaitSucceeds, A!MustWait,
                      A!ForceExit, A!GiveUp, A!ConfigDone, A!ProcessEnds,
                      A!Waiting, A!accounting, A!commands, execution
  <2>. QED
    BY <1>1, <1>3, <2>2 DEF StepOfAction, Unseen, mainSeen
<1>. QED
  BY <1>2, <1>3

-----------------------------------------------------------------------------
(* The invariant.                                                          *)

\* The loop goes its way.
LEMMA LoopKeeps ==
  ASSUME LladInv, [LladNext]_lladVars
  PROVE  IInv'
<1>1. CASE NewEvent \/ \E s \in Handled : SignalToMain(s)
  BY <1>1, OutsideStep DEF NewEvent, SignalToMain, LladInv
<1>2. ASSUME NEW s \in Handled, NEW t \in Threads, SignalToThread(s, t)
      PROVE  IInv'
  BY <1>2, HandlerStep DEF SignalToThread, LladInv
<1>3. CASE Loop
  BY <1>3, MainStep DEF Loop, LladInv
<1>4. CASE UNCHANGED vars
  BY <1>4 DEF LladInv, IInv, TypeOK, vars
<1>. QED
  BY <1>1, <1>2, <1>3, <1>4
     DEF LladNext, Launching, WaitForPending, Ending, LineMatches,
         Controlling, CommandActs, Exited, lladVars

\* Loop and executions stay linked: signals and the loop itself.
LEMMA LinkedOutside ==
  ASSUME LladInv,
         \/ NewEvent \/ Loop
         \/ \E s \in Handled :
              SignalToMain(s) \/ \E t \in Threads : SignalToThread(s, t)
  PROVE  Linked'
<1>1. CASE NewEvent
  BY <1>1 DEF NewEvent, Event, LladInv, Linked, Idle, actionVars, execution
<1>2. ASSUME NEW s \in Handled, SignalToMain(s)
      PROVE  Linked'
  <2>1. UNCHANGED <<watched, main, thread, child>>
    BY <1>2 DEF SignalToMain, actionVars, execution
  <2>2. /\ pc # "done" /\ pc' \in {pc, "failed", "killed"}
        /\ pc = "events" => pc' = pc
    BY <1>2 DEF SignalToMain, Signal, Handle, sighdl, Die, LladInv, IInv
  <2>. QED
    BY <2>1, <2>2 DEF LladInv, Linked, Idle
<1>3. ASSUME NEW s \in Handled, NEW t \in Threads, SignalToThread(s, t)
      PROVE  Linked'
  <2>1. ~Idle /\ UNCHANGED <<pc, watched, main>>
    BY <1>3 DEF SignalToThread, sighdl, LladInv, IInv, Idle
  <2>2. thread' \in [Threads -> A!ThreadPlaces]
    BY <1>3 DEF SignalToThread, LladInv, Linked, A!ThreadPlaces,
                A!CountedPlaces
  <2>. QED
    BY <2>1, <2>2 DEF LladInv, Linked, Idle
<1>4. CASE Loop
  <2>1. /\ main = "watch" /\ UNCHANGED <<main, thread, child>>
        /\ watched' = (watched \/ pc = "ignore")
    BY <1>4 DEF Loop, actionVars, execution
  <2>2. /\ pc # "done" /\ pc' # "init"
        /\ pc' = "done" => pc \in {"ignore", "init"}
        /\ pc = "ignore" => pc' = "done"
    BY <1>4
       DEF Loop, MainThread, Goes, InitFails, InitWatches, initSignals,
           SetRunning, TestRunning, Read, Sleep, Wake, ReadFails,
           HandleEvent, FetchSignal, ReportSignal, ResetRunning, doneSignals
  <2>. QED
    BY <2>1, <2>2 DEF LladInv, Linked, Idle, A!Watching, A!Waiting
<1>. QED
  BY <1>1, <1>2, <1>3, <1>4

\* ... and the executions.
LEMMA LinkedInside ==
  ASSUME LladInv,
         \/ Launching \/ WaitForPending \/ Ending
         \/ \E t \in Threads : LineMatches(t) \/ Controlling(t)
                                  \/ CommandActs(t),
         thread' \in [Threads -> A!ThreadPlaces]
  PROVE  Linked'
<1>1. CASE Launching \/ \E t \in Threads : LineMatches(t)
  <2>1. /\ pc = "events" /\ UNCHANGED <<pc, watched>>
        /\ main' \in A!Watching
    BY <1>1
       DEF Launching, LineMatches, LladInv, Linked, vars, A!Watching,
           A!LockForLaunch, A!UnlockAfterLaunch, A!CountThread, A!MatchLine,
           A!CreateThread, A!CreateFails, A!MainGoes
  <2>. QED
    BY <2>1 DEF LladInv, Linked, Idle
<1>2. ASSUME NEW t \in Threads, Controlling(t) \/ CommandActs(t)
      PROVE  Linked'
  <2>1. UNCHANGED <<pc, watched>>
    BY <1>2 DEF Controlling, CommandActs, vars
  <2>2. main' = main
    BY <1>2 DEF Controlling, CommandActs, A!Control, A!OpenPipe, A!Fork,
                A!ForkFails, A!OpenStream, A!ReadTimesOut, A!TakeForceExit,
                A!PassForceExit, A!BeginSelect, A!Select, A!SelectFails,
                A!GetLine, A!GetEof, A!Poll, A!SendTerm, A!SendKill,
                A!ReapKilled, A!ReapInterrupted, A!LockForExit,
                A!CountDown, A!PostThreadsLock, A!UnlockAndEnd,
                A!Command, A!Exec, A!ExecFails, A!Write, A!Exit, A!CloseAll,
                A!mainVars
  <2>3. ~Idle
    BY <1>2, NotIdle
  <2>. QED
    BY <2>1, <2>2, <2>3 DEF LladInv, Linked, Idle
<1>3. CASE WaitForPending
  <2>1. pc = "done" /\ UNCHANGED <<pc, watched, thread, child>>
        /\ main = "watch"
        /\ main' = IF watched THEN "pending" ELSE "returned"
    BY <1>3 DEF WaitForPending, vars, execution, A!StopWatching, A!MainGoes,
                A!commands
  <2>. QED
    BY <2>1 DEF LladInv, Linked, Idle, A!Watching, A!Waiting
<1>4. CASE Ending
  <2>1. /\ UNCHANGED <<pc, watched, thread, child>>
        /\ main \notin A!Watching /\ main' \notin A!Watching
        /\ main \notin A!Waiting => main' \notin A!Waiting
    BY <1>4 DEF Ending, vars, A!Watching, A!Waiting, A!WaitSucceeds,
                A!MustWait, A!ForceExit, A!GiveUp, A!ConfigDone,
                A!ProcessEnds, A!MainGoes, A!Return, A!commands
  <2>. QED
    BY <2>1 DEF LladInv, Linked, Idle
<1>. QED
  BY <1>1, <1>2, <1>3, <1>4

\* What Action assumes of its constants.
LEMMA FiniteForAction == P!IsFiniteSet(Threads)
BY LladAssumption DEF LladAssumption, IsFiniteSet, P!IsFiniteSet

\* LladInv holds at first.
LEMMA LladStarts ==
  ASSUME LladInit
  PROVE  LladInv /\ Executions!Init
<1>1. mainSeen = main
  BY DEF LladInit, Init, mainSeen
<1>2. P!Init /\ Executions!Init
  BY <1>1 DEF LladInit, A!Init, P!Init, Executions!Init
<1>3. P!IInv
  BY <1>2, FiniteForAction, LladAssumption, P!IInvInit DEF LladAssumption
<1>4. IInv
  BY InvStarts DEF LladInit
<1>5. Linked
  BY DEF LladInit, Init, A!Init, Linked, A!Watching, A!Waiting,
         A!ThreadPlaces
<1>. QED
  BY <1>2, <1>3, <1>4, <1>5 DEF LladInv

\* Every step of the daemon is one of Action, or none, ...
LEMMA LladActs ==
  ASSUME LladInv, [LladNext]_lladVars
  PROVE  StepOfAction
<1>1. CASE Exited \/ UNCHANGED lladVars
  BY <1>1 DEF Exited, lladVars, vars, actionVars, StepOfAction, Unseen,
              mainSeen
<1>. QED
  BY <1>1, OutsideActs, LoopActs, ExecutionActs, EndActs DEF LladNext

\* ... and keeps LladInv.
LEMMA LladKeeps ==
  ASSUME LladInv, [LladNext]_lladVars
  PROVE  LladInv'
<1>1. [P!Next]_(P!vars)
  BY LladActs DEF StepOfAction, Unseen, execution, P!vars
<1>2. P!IInv'
  BY <1>1, FiniteForAction, LladAssumption, P!IInvStep
     DEF LladInv, LladAssumption
<1>3. thread' \in [Threads -> A!ThreadPlaces]
  BY <1>2 DEF P!IInv, P!TypeOK, P!ThreadPlaces, P!CountedPlaces,
              P!UsingConfig, P!Reading, A!ThreadPlaces, A!CountedPlaces,
              A!UsingConfig, A!Reading
<1>4. ASSUME Exited \/ UNCHANGED lladVars
      PROVE  Linked'
  BY <1>4 DEF Exited, lladVars, vars, actionVars, execution, LladInv, Linked,
              Idle
<1>5. Linked'
  BY <1>3, <1>4, LinkedOutside, LinkedInside DEF LladNext, LladInv
<1>. QED
  BY <1>2, <1>5, LoopKeeps DEF LladInv

-----------------------------------------------------------------------------
(* What holds in the whole daemon.                                         *)

\* LladInv holds in every reachable state.
THEOREM Whole == LladSpec => []LladInv
<1>1. LladInit => LladInv
  BY LladStarts
<1>2. LladInv /\ [LladNext]_lladVars => LladInv'
  BY LladKeeps
<1>. QED
  BY <1>1, <1>2, PTL DEF LladSpec

\* The daemon implements Action, with signals that may be delivered to any
\* thread: neither the loop nor a signal does anything to the executions that
\* Action does not have.
THEOREM DaemonImplementsAction == LladSpec => ImplementsAction
<1>1. LladInit => Executions!Init
  BY LladStarts
<1>2. LladInv /\ [LladNext]_lladVars => [Executions!Next]_(Executions!vars)
  BY LladActs DEF StepOfAction, Unseen, execution, Executions!vars
<1>. QED
  BY <1>1, <1>2, Whole, PTL DEF LladSpec, ImplementsAction

\* When the daemon ends without giving up, every command it executed was
\* waited for, or at least killed.
THEOREM NothingLeft == LladSpec => []NothingLeftBehind
<1>1. ASSUME LladInv, main \in {"returned", "unconfigured", "exited"},
             verdict # "gaveup", NEW t \in Threads
      PROVE  child[t] \in {"none", "reaped"} \/ signalled[t] = "KILL"
  <2>1. pc = "done"
    BY <1>1 DEF LladInv, Linked, A!Watching
  <2>2. CASE ~watched
    BY <1>1, <2>1, <2>2 DEF LladInv, Linked, Idle
  <2>3. CASE watched
    <3>1. mainSeen = main
      BY <2>3 DEF mainSeen
    <3>2. verdict = "finished"
      BY <1>1, <3>1 DEF LladInv, P!IInv, P!TypeOK, P!LastPosts, P!Watching,
                        P!Waiting
    <3>3. thread[t] \notin P!CountedPlaces
      BY <1>1, <3>2 DEF LladInv, P!IInv, P!LastPosts, P!Counted
    <3>4. thread[t] \in P!ThreadPlaces
      BY <1>1 DEF LladInv, P!IInv, P!TypeOK
    <3>. QED
      BY <1>1, <3>3, <3>4
         DEF LladInv, P!IInv, P!ChildAgrees, P!EndedMeansReaped,
             P!ThreadPlaces, P!CountedPlaces
  <2>. QED
    BY <2>2, <2>3
<1>2. LladInv => NothingLeftBehind
  BY <1>1 DEF NothingLeftBehind
<1>. QED
  BY <1>2, Whole, PTL

\* What the loop promises it keeps when a signal is delivered to another
\* thread.
THEOREM StillUndisturbed == LladSpec => []WaitsUndisturbed
<1>1. LladInv => WaitsUndisturbed
  BY DEF LladInv, IInv, WaitsUndisturbed
<1>. QED
  BY <1>1, Whole, PTL
=============================================================================
