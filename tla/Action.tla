------------------------------- MODULE Action -------------------------------
(***************************************************************************)
(* src/src/action.c: the execution of actions.  For every matching line    *)
(* the main thread starts a detached controlling thread; that thread opens *)
(* a pipe, forks the command, logs what the command writes, and ends it    *)
(* with SIGTERM and SIGKILL when it stays.  A counter under a mutex and    *)
(* two semaphores let Action_waitForPending wait for all of them when the  *)
(* daemon stops.                                                           *)
(*                                                                         *)
(* One member of Threads stands for one controlling thread, the command it *)
(* forks and the pipe between them.  A pipe holds at most one piece of     *)
(* output, whole or not: the reader takes one per call anyway.             *)
(***************************************************************************)
EXTENDS Naturals, FiniteSets

CONSTANTS
  Threads,        \* the controlling threads that may ever be started
  Main, Nobody,   \* the other possible holders of numThreadsLock
  WaitOutput,     \* --wait: one-second tries without output before closing
  PipeWait,       \* --wpipe: tries for a command to end after the pipe closed
  TermWait,       \* --wterm: tries for a command to end after SIGTERM
  WholeLines,     \* TRUE: commands never stop in the middle of a line
  Interruptible   \* TRUE: a handled signal may be delivered to any thread

ASSUME ActionAssumption ==
  /\ IsFiniteSet(Threads)
  /\ Main \notin Threads /\ Nobody \notin Threads /\ Main # Nobody
  /\ WaitOutput \in Nat /\ PipeWait \in Nat /\ TermWait \in Nat
  /\ WholeLines \in BOOLEAN /\ Interruptible \in BOOLEAN

VARIABLES
  main,           \* where the main thread is
  verdict,        \* what Action_waitForPending returned
  numThreads,     \* current number of running threads
  numThreadsLock, \* holder of the mutex for numThreads
  threadsLock,    \* semaphore: 0 while threads are running
  forceExit,      \* semaphore: 1 once shutdown is forced
  pc,             \* where each controlling thread is
  counter,        \* its countdown of one-second tries
  child,          \* its command, seen by the kernel
  signalled,      \* the last signal it sent to that command
  pipe,           \* what is in its pipe
  writeEnd,       \* the threads whose write end is open in the daemon
  holders         \* per pipe, the commands that hold its write end

accounting == <<numThreads, numThreadsLock, threadsLock>>
mainVars   == <<main, verdict>>
commands   == <<child, signalled, pipe, writeEnd, holders>>
vars == <<main, verdict, numThreads, numThreadsLock, threadsLock, forceExit,
          pc, counter, child, signalled, pipe, writeEnd, holders>>

-----------------------------------------------------------------------------
(* Places in the code.                                                     *)

\* The main thread inside watchloop, in action_matchAndExecChain or not.
Watching == {"watch", "lock", "count", "create", "unlock"}

\* The main thread inside Action_waitForPending.
Waiting == {"pending", "timed1", "timed2"}

MainPlaces == Watching \cup Waiting \cup {"returned", "unconfigured", "exited"}

\* The controlling thread may still read from its pipe.
Reading == {"opened", "read", "pass", "select", "gets"}

\* It may still use the names of the action and the command, which it borrows
\* from the configuration, for its messages.
UsingConfig == {"start", "fork", "reap", "reap2", "reap3"} \cup Reading

\* It is included in numThreads: from the increment in
\* action_matchAndExecChain to its own decrement.
CountedPlaces == {"counted", "finish", "dec"} \cup UsingConfig

ThreadPlaces ==
  CountedPlaces \cup {"unused", "args", "refused", "post", "unlock", "gone"}

Counted == {t \in Threads : pc[t] \in CountedPlaces}

\* At "pass" a thread has taken the token of forceExit and is about to post
\* it again for the next one.
Passing == {t \in Threads : pc[t] = "pass"}

Running == main # "exited"

At(t, place)     == Running /\ pc[t] = place
Goto(t, place)   == pc' = [pc EXCEPT ![t] = place]
MainGoes(from, to) == main = from /\ main' = to

-----------------------------------------------------------------------------
(* Static initialisation, done by the first action_appendNew.              *)

Init ==
  /\ main = "watch"
  /\ verdict = "none"
  /\ numThreads = 0
  /\ numThreadsLock = Nobody
  /\ threadsLock = 1
  /\ forceExit = 0
  /\ pc = [t \in Threads |-> "unused"]
  /\ counter = [t \in Threads |-> 0]
  /\ child = [t \in Threads |-> "none"]
  /\ signalled = [t \in Threads |-> "none"]
  /\ pipe = [t \in Threads |-> "empty"]
  /\ writeEnd = {}
  /\ holders = [t \in Threads |-> {}]

-----------------------------------------------------------------------------
(* action_matchAndExecChain: the main thread starts a controlling thread.  *)

\* A line matches a pattern and createExecArgs builds the arguments.
MatchLine(t) ==
  /\ pc[t] = "unused"
  /\ MainGoes("watch", "lock")
  /\ Goto(t, "args")
  /\ UNCHANGED <<verdict, accounting, forceExit, counter, commands>>

LockForLaunch ==
  /\ MainGoes("lock", "count")
  /\ numThreadsLock = Nobody
  /\ numThreadsLock' = Main
  /\ UNCHANGED <<verdict, numThreads, threadsLock, forceExit, pc, counter,
                 commands>>

\* Faulty variant for TLC: the first thread does not take threadsLock.
CountWithoutFlag(t) ==
  /\ pc[t] = "args"
  /\ MainGoes("count", "create")
  /\ numThreads' = numThreads + 1
  /\ Goto(t, "counted")
  /\ UNCHANGED <<verdict, numThreadsLock, threadsLock, forceExit, counter,
                 commands>>

\* sem_trywait(&threadsLock) if this is the first thread, then ++numThreads.
CountThread(t) ==
  /\ pc[t] = "args"
  /\ MainGoes("count", "create")
  /\ threadsLock' = IF numThreads = 0 /\ threadsLock > 0
                    THEN threadsLock - 1 ELSE threadsLock
  /\ numThreads' = numThreads + 1
  /\ Goto(t, "counted")
  /\ UNCHANGED <<verdict, numThreadsLock, forceExit, counter, commands>>

CreateThread(t) ==
  /\ pc[t] = "counted"
  /\ MainGoes("create", "unlock")
  /\ Goto(t, "start")
  /\ UNCHANGED <<verdict, accounting, forceExit, counter, commands>>

\* Faulty variants for TLC: the failed launch always posts threadsLock, or
\* stays counted.
CreateFailsPosting(t) ==
  /\ pc[t] = "counted"
  /\ MainGoes("create", "unlock")
  /\ numThreads' = numThreads - 1
  /\ threadsLock' = threadsLock + 1
  /\ Goto(t, "refused")
  /\ UNCHANGED <<verdict, numThreadsLock, forceExit, counter, commands>>

CreateFailsCounted(t) ==
  /\ pc[t] = "counted"
  /\ MainGoes("create", "unlock")
  /\ Goto(t, "refused")
  /\ UNCHANGED <<verdict, accounting, forceExit, counter, commands>>

\* pthread_create fails: undo the counting, give the execution up.
CreateFails(t) ==
  /\ pc[t] = "counted"
  /\ MainGoes("create", "unlock")
  /\ numThreads' = numThreads - 1
  /\ threadsLock' = IF numThreads' = 0 THEN threadsLock + 1 ELSE threadsLock
  /\ Goto(t, "refused")
  /\ UNCHANGED <<verdict, numThreadsLock, forceExit, counter, commands>>

UnlockAfterLaunch ==
  /\ MainGoes("unlock", "watch")
  /\ numThreadsLock' = Nobody
  /\ UNCHANGED <<verdict, numThreads, threadsLock, forceExit, pc, counter,
                 commands>>

-----------------------------------------------------------------------------
(* actionExec: the controlling thread, up to the command running.          *)

OpenPipe(t) ==
  /\ At(t, "start")
  /\ \/ writeEnd' = writeEnd \cup {t} /\ Goto(t, "fork")
     \/ UNCHANGED writeEnd /\ Goto(t, "finish")           \* pipe() failed
  /\ UNCHANGED <<mainVars, accounting, forceExit, counter, child, signalled,
                 pipe, holders>>

\* fork() copies every descriptor of the daemon: the new command also gets
\* the write ends of the pipes that other threads have just opened.
Fork(t) ==
  /\ At(t, "fork")
  /\ child' = [child EXCEPT ![t] = "setup"]
  /\ holders' = [u \in Threads |->
                   IF u \in writeEnd THEN holders[u] \cup {t} ELSE holders[u]]
  /\ Goto(t, "opened")
  /\ UNCHANGED <<mainVars, accounting, forceExit, counter, signalled, pipe,
                 writeEnd>>

ForkFails(t) ==
  /\ At(t, "fork")
  /\ writeEnd' = writeEnd \ {t}
  /\ Goto(t, "finish")
  /\ UNCHANGED <<mainVars, accounting, forceExit, counter, child, signalled,
                 pipe, holders>>

\* Go and read the next line, or stop reading and wait for the command: the
\* countdown starts afresh either way.
ReadNext(t) ==
  /\ Goto(t, "read")
  /\ counter' = [counter EXCEPT ![t] = WaitOutput]

StopReading(t) ==
  /\ Goto(t, "reap")
  /\ counter' = [counter EXCEPT ![t] = PipeWait]

\* close(fds[1]) and fdopen(fds[0]), which may fail.
OpenStream(t) ==
  /\ At(t, "opened")
  /\ writeEnd' = writeEnd \ {t}
  /\ ReadNext(t) \/ StopReading(t)
  /\ UNCHANGED <<mainVars, accounting, forceExit, child, signalled, pipe,
                 holders>>

-----------------------------------------------------------------------------
(* readLine: one turn of its loop per second.                              *)

\* The counter has run out: no output for WaitOutput seconds.
ReadTimesOut(t) ==
  /\ At(t, "read")
  /\ counter[t] = 0
  /\ StopReading(t)
  /\ UNCHANGED <<mainVars, accounting, forceExit, commands>>

\* sem_trywait(&forceExit) finds the token.
TakeForceExit(t) ==
  /\ At(t, "read")
  /\ counter[t] > 0
  /\ forceExit > 0
  /\ forceExit' = forceExit - 1
  /\ Goto(t, "pass")
  /\ UNCHANGED <<mainVars, accounting, counter, commands>>

\* Faulty variant for TLC: the token is kept.
KeepForceExit(t) ==
  /\ At(t, "pass")
  /\ StopReading(t)
  /\ UNCHANGED <<mainVars, accounting, forceExit, commands>>

\* sem_post(&forceExit): pass on to the next thread, and stop reading.
PassForceExit(t) ==
  /\ At(t, "pass")
  /\ forceExit' = forceExit + 1
  /\ StopReading(t)
  /\ UNCHANGED <<mainVars, accounting, commands>>

\* Faulty variant for TLC: the countdown stands still.
SelectForever(t) ==
  /\ At(t, "read")
  /\ counter[t] > 0
  /\ forceExit = 0
  /\ Goto(t, "select")
  /\ UNCHANGED <<mainVars, accounting, forceExit, counter, commands>>

\* sem_trywait(&forceExit) finds nothing: select() for one second.
BeginSelect(t) ==
  /\ At(t, "read")
  /\ counter[t] > 0
  /\ forceExit = 0
  /\ counter' = [counter EXCEPT ![t] = @ - 1]
  /\ Goto(t, "select")
  /\ UNCHANGED <<mainVars, accounting, forceExit, commands>>

AtEof(t) == holders[t] = {} /\ t \notin writeEnd

Readable(t) == pipe[t] # "empty" \/ AtEof(t)

Select(t) ==
  /\ At(t, "select")
  /\ Goto(t, IF Readable(t) THEN "gets" ELSE "read")
  /\ UNCHANGED <<mainVars, accounting, forceExit, counter, commands>>

SelectFails(t) ==
  /\ At(t, "select")
  /\ StopReading(t)
  /\ UNCHANGED <<mainVars, accounting, forceExit, commands>>

\* fgets() returns with a line, or with what precedes the end of the output;
\* after an unfinished line it blocks as long as somebody may still write.
GetLine(t) ==
  /\ At(t, "gets")
  /\ pipe[t] = "line" \/ (pipe[t] = "part" /\ AtEof(t))
  /\ pipe' = [pipe EXCEPT ![t] = "empty"]
  /\ ReadNext(t)
  /\ UNCHANGED <<mainVars, accounting, forceExit, child, signalled, writeEnd,
                 holders>>

GetEof(t) ==
  /\ At(t, "gets")
  /\ pipe[t] = "empty" /\ AtEof(t)
  /\ StopReading(t)
  /\ UNCHANGED <<mainVars, accounting, forceExit, commands>>

-----------------------------------------------------------------------------
(* actionWaitEnd: wait for the command, then SIGTERM, then SIGKILL.        *)

\* Faulty variant for TLC: actionWaitEndLoop answers "still running" for a
\* command it has just reaped.
PollMisreports(t) ==
  /\ At(t, "reap") \/ At(t, "reap2")
  /\ counter[t] > 0
  /\ \/ /\ child[t] = "zombie"
        /\ child' = [child EXCEPT ![t] = "reaped"]
        /\ counter' = [counter EXCEPT ![t] = 0]
     \/ /\ child[t] # "zombie"
        /\ counter' = [counter EXCEPT ![t] = @ - 1]
        /\ UNCHANGED child
  /\ UNCHANGED <<mainVars, accounting, forceExit, pc, signalled, pipe,
                 writeEnd, holders>>

\* waitpid(WNOHANG) finds the command ended, or sleep(1) and try again.  Its
\* error has no disjunct: it could only be ECHILD, and a thread asks for a child
\* of its own that nobody has reaped (ChildAgrees).
Poll(t) ==
  /\ At(t, "reap") \/ At(t, "reap2")
  /\ counter[t] > 0
  /\ \/ /\ child[t] = "zombie"
        /\ child' = [child EXCEPT ![t] = "reaped"]
        /\ Goto(t, "finish")
        /\ UNCHANGED counter
     \/ /\ child[t] # "zombie"
        /\ counter' = [counter EXCEPT ![t] = @ - 1]
        /\ UNCHANGED <<pc, child>>
  /\ UNCHANGED <<mainVars, accounting, forceExit, signalled, pipe, writeEnd,
                 holders>>

SendTerm(t) ==
  /\ At(t, "reap")
  /\ counter[t] = 0
  /\ signalled' = [signalled EXCEPT ![t] = "TERM"]
  /\ counter' = [counter EXCEPT ![t] = TermWait]
  /\ Goto(t, "reap2")
  /\ UNCHANGED <<mainVars, accounting, forceExit, child, pipe, writeEnd,
                 holders>>

\* Faulty variant for TLC: a command that ignores SIGTERM is left alone.
GiveUpOnIt(t) ==
  /\ At(t, "reap2")
  /\ counter[t] = 0
  /\ Goto(t, "finish")
  /\ UNCHANGED <<mainVars, accounting, forceExit, counter, commands>>

SendKill(t) ==
  /\ At(t, "reap2")
  /\ counter[t] = 0
  /\ signalled' = [signalled EXCEPT ![t] = "KILL"]
  /\ Goto(t, "reap3")
  /\ UNCHANGED <<mainVars, accounting, forceExit, counter, child, pipe,
                 writeEnd, holders>>

\* The last, blocking waitpid().
ReapKilled(t) ==
  /\ At(t, "reap3")
  /\ child[t] = "zombie"
  /\ child' = [child EXCEPT ![t] = "reaped"]
  /\ Goto(t, "finish")
  /\ UNCHANGED <<mainVars, accounting, forceExit, counter, signalled, pipe,
                 writeEnd, holders>>

\* ... which returns EINTR when this thread runs the handler of a signal.
ReapInterrupted(t) ==
  /\ At(t, "reap3")
  /\ Interruptible /\ main \in Watching
  /\ Goto(t, "finish")
  /\ UNCHANGED <<mainVars, accounting, forceExit, counter, commands>>

-----------------------------------------------------------------------------
(* actionExec_done: the end of the controlling thread.                     *)

\* Faulty variant for TLC: the mutex is not taken.
ExitWithoutLock(t) ==
  /\ At(t, "finish")
  /\ Goto(t, "dec")
  /\ UNCHANGED <<mainVars, accounting, forceExit, counter, commands>>

LockForExit(t) ==
  /\ At(t, "finish")
  /\ numThreadsLock = Nobody
  /\ numThreadsLock' = t
  /\ Goto(t, "dec")
  /\ UNCHANGED <<mainVars, numThreads, threadsLock, forceExit, counter,
                 commands>>

CountDown(t) ==
  /\ At(t, "dec")
  /\ numThreads' = numThreads - 1
  /\ Goto(t, IF numThreads' = 0 THEN "post" ELSE "unlock")
  /\ UNCHANGED <<mainVars, numThreadsLock, threadsLock, forceExit, counter,
                 commands>>

PostThreadsLock(t) ==
  /\ At(t, "post")
  /\ threadsLock' = threadsLock + 1
  /\ Goto(t, "unlock")
  /\ UNCHANGED <<mainVars, numThreads, numThreadsLock, forceExit, counter,
                 commands>>

UnlockAndEnd(t) ==
  /\ At(t, "unlock")
  /\ numThreadsLock' = Nobody
  /\ Goto(t, "gone")
  /\ UNCHANGED <<mainVars, numThreads, threadsLock, forceExit, counter,
                 commands>>

-----------------------------------------------------------------------------
(* The commands, as the kernel runs them.                                  *)

WithoutFamily(t) == [u \in Threads |-> holders[u] \ {t}]

Exec(t) ==
  /\ Running
  /\ child[t] = "setup"
  /\ child' = [child EXCEPT ![t] = "run"]
  /\ UNCHANGED <<mainVars, accounting, forceExit, pc, counter, signalled,
                 pipe, writeEnd, holders>>

\* execv() fails: the forked child says so through the pipe and exits.
ExecFails(t) ==
  /\ Running
  /\ child[t] = "setup"
  /\ child' = [child EXCEPT ![t] = "zombie"]
  /\ pipe' = IF pc[t] \in Reading THEN [pipe EXCEPT ![t] = "line"] ELSE pipe
  /\ holders' = WithoutFamily(t)
  /\ UNCHANGED <<mainVars, accounting, forceExit, pc, counter, signalled,
                 writeEnd>>

\* The command, or a process it left in the background, writes.
Write(t) ==
  /\ Running
  /\ child[t] \in {"run", "zombie", "reaped"} /\ t \in holders[t]
  /\ pc[t] \in Reading
  /\ \/ pipe[t] # "line" /\ pipe' = [pipe EXCEPT ![t] = "line"]
     \/ ~WholeLines /\ pipe[t] = "empty" /\ pipe' = [pipe EXCEPT ![t] = "part"]
  /\ UNCHANGED <<mainVars, accounting, forceExit, pc, counter, child,
                 signalled, writeEnd, holders>>

\* The command ends; processes it left behind may keep its descriptors.
Exit(t) ==
  /\ Running
  /\ child[t] = "run" \/ (child[t] = "setup" /\ signalled[t] = "KILL")
  /\ child' = [child EXCEPT ![t] = "zombie"]
  /\ holders' = WithoutFamily(t) \/ (child[t] = "run" /\ holders' = holders)
  /\ UNCHANGED <<mainVars, accounting, forceExit, pc, counter, signalled,
                 pipe, writeEnd>>

\* The command or what it left behind closes its descriptors.
CloseAll(t) ==
  /\ Running
  /\ child[t] \in {"run", "zombie", "reaped"}
  /\ \E u \in Threads : t \in holders[u]
  /\ holders' = WithoutFamily(t)
  /\ UNCHANGED <<mainVars, accounting, forceExit, pc, counter, child,
                 signalled, pipe, writeEnd>>

-----------------------------------------------------------------------------
(* The end of the daemon: Action_waitForPending and what follows it.       *)

\* watchloop has returned and Watcher_done is through.
StopWatching ==
  /\ MainGoes("watch", "pending")
  /\ UNCHANGED <<verdict, accounting, forceExit, pc, counter, commands>>

Return(v) == main' = "returned" /\ verdict' = v

\* sem_trywait() or sem_timedwait() gets threadsLock: all actions finished.
WaitSucceeds ==
  /\ main \in Waiting
  /\ threadsLock > 0
  /\ threadsLock' = threadsLock - 1
  /\ Return("finished")
  /\ UNCHANGED <<numThreads, numThreadsLock, forceExit, pc, counter, commands>>

\* threadsLock is not available: go and wait, or fail in clock_gettime().
MustWait ==
  /\ main = "pending"
  /\ threadsLock = 0
  /\ (main' = "timed1" /\ UNCHANGED verdict) \/ Return("gaveup")
  /\ UNCHANGED <<accounting, forceExit, pc, counter, commands>>

\* The first timeout: tell the threads to close their pipes.
ForceExit ==
  /\ main = "timed1"
  /\ threadsLock = 0
  /\ forceExit' = forceExit + 1
  /\ (main' = "timed2" /\ UNCHANGED verdict) \/ Return("gaveup")
  /\ UNCHANGED <<accounting, pc, counter, commands>>

\* The second timeout: still pending actions, giving up.
GiveUp ==
  /\ main = "timed2"
  /\ threadsLock = 0
  /\ Return("gaveup")
  /\ UNCHANGED <<accounting, forceExit, pc, counter, commands>>

\* svcmain and Daemon_daemonize return; main calls Config_done.
ConfigDone ==
  /\ MainGoes("returned", "unconfigured")
  /\ UNCHANGED <<verdict, accounting, forceExit, pc, counter, commands>>

\* main returns: the process ends, and its threads with it.
ProcessEnds ==
  /\ MainGoes("unconfigured", "exited")
  /\ UNCHANGED <<verdict, accounting, forceExit, pc, counter, commands>>

Terminated == main = "exited" /\ UNCHANGED vars

-----------------------------------------------------------------------------
Launch(t) == MatchLine(t) \/ CountThread(t) \/ CreateThread(t) \/ CreateFails(t)

Control(t) ==
  \/ OpenPipe(t) \/ Fork(t) \/ ForkFails(t) \/ OpenStream(t)
  \/ ReadTimesOut(t) \/ TakeForceExit(t) \/ PassForceExit(t)
  \/ BeginSelect(t) \/ Select(t) \/ SelectFails(t) \/ GetLine(t) \/ GetEof(t)
  \/ Poll(t) \/ SendTerm(t) \/ SendKill(t) \/ ReapKilled(t)
  \/ ReapInterrupted(t)
  \/ LockForExit(t) \/ CountDown(t) \/ PostThreadsLock(t) \/ UnlockAndEnd(t)

Command(t) ==
  Exec(t) \/ ExecFails(t) \/ Write(t) \/ Exit(t) \/ CloseAll(t)

Shutdown ==
  \/ StopWatching \/ WaitSucceeds \/ MustWait \/ ForceExit \/ GiveUp
  \/ ConfigDone \/ ProcessEnds

Next ==
  \/ \E t \in Threads : Launch(t) \/ Control(t) \/ Command(t)
  \/ LockForLaunch
  \/ UnlockAfterLaunch
  \/ Shutdown
  \/ Terminated

\* The scheduler runs every thread that can run, sleep() and select() return,
\* and a killed process dies.  Nothing makes a command end or write, a line
\* match, the daemon stop, or a timed wait of the main thread expire.
Fairness ==
  /\ \A t \in Threads :
       /\ WF_vars(Control(t))
       /\ WF_vars(signalled[t] = "KILL" /\ Exit(t))
       /\ WF_vars(CountThread(t) \/ CreateThread(t) \/ CreateFails(t))
  /\ WF_vars(LockForLaunch \/ UnlockAfterLaunch)
  /\ WF_vars(WaitSucceeds)

Spec == Init /\ [][Next]_vars /\ Fairness

-----------------------------------------------------------------------------
(* Properties.                                                             *)

\* The variables stay in their ranges; both semaphores are binary although
\* nothing in the code bounds them.
TypeOK ==
  /\ main \in MainPlaces
  /\ verdict \in {"none", "finished", "gaveup"}
  /\ numThreads \in Nat
  /\ numThreadsLock \in Threads \cup {Main, Nobody}
  /\ threadsLock \in {0, 1}
  /\ forceExit \in {0, 1}
  /\ pc \in [Threads -> ThreadPlaces]
  /\ counter \in [Threads -> Nat]
  /\ child \in [Threads -> {"none", "setup", "run", "zombie", "reaped"}]
  /\ signalled \in [Threads -> {"none", "TERM", "KILL"}]
  /\ pipe \in [Threads -> {"empty", "part", "line"}]
  /\ writeEnd \subseteq Threads
  /\ holders \in [Threads -> SUBSET Threads]

\* numThreads is the number of controlling threads between their launch and
\* their own decrement, whatever fails in between.
CountAgrees == numThreads = Cardinality(Counted)

\* threadsLock is available exactly when no thread is counted, the last one
\* has posted it, and Action_waitForPending has not consumed it.
FlagAgrees ==
  threadsLock = IF /\ Counted = {}
                   /\ \A t \in Threads : pc[t] # "post"
                   /\ verdict # "finished"
                THEN 1 ELSE 0

\* A controlling thread that got past its wait leaves no command behind: "send
\* SIGKILL and wait until child died".  Only where a signal may interrupt that
\* last waitpid() can a command remain, and then it was killed before.
EndedMeansReaped ==
  \A t \in Threads :
    pc[t] \in {"finish", "dec", "post", "unlock", "gone"}
      => \/ child[t] \in {"none", "reaped"}
         \/ Interruptible /\ signalled[t] = "KILL"

\* The token of forceExit is never lost or doubled while the threads pass it
\* on, and does not exist before shutdown is forced.
ForceExitKept ==
  LET tokens == forceExit + Cardinality(Passing)
  IN  /\ tokens <= 1
      /\ main = "timed2" => tokens = 1
      /\ main \in Watching \cup {"pending", "timed1"} => tokens = 0

\* kill() never names a process that was already waited for: its pid may
\* belong to somebody else by then.
NoStrayKill ==
  [][\A t \in Threads : signalled'[t] # signalled[t]
       => child[t] \in {"setup", "run", "zombie"}]_vars

\* The mutex does its work: its holder, and only its holder, is inside one of
\* the two critical sections.
LockHeld ==
  /\ numThreadsLock = Main <=> main \in {"count", "create", "unlock"}
  /\ \A t \in Threads :
       numThreadsLock = t <=> pc[t] \in {"dec", "post", "unlock"}

\* The main thread launches one thread at a time.
OneLaunch ==
  /\ \A t \in Threads :
       /\ pc[t] = "args" => main \in {"lock", "count"}
       /\ pc[t] = "counted" => main = "create"
  /\ \A t, u \in Threads :
       pc[t] \in {"args", "counted"} /\ pc[u] \in {"args", "counted"} => t = u

\* A thread posts threadsLock only when it was the last, and once all actions
\* are reported finished none is counted or about to post.
LastPosts ==
  /\ (\E t \in Threads : pc[t] = "post") => Counted = {} /\ verdict # "finished"
  /\ verdict = "finished" => Counted = {}
  /\ verdict = "none" <=> main \in Watching \cup Waiting

\* What the controlling thread knows of its command at each of its places.
ChildAgrees ==
  \A t \in Threads :
    /\ pc[t] \in {"unused", "args", "counted", "refused", "start", "fork"}
         => child[t] = "none"
    /\ pc[t] \in Reading \cup {"reap", "reap2", "reap3"}
         => child[t] \in {"setup", "run", "zombie"}
    /\ pc[t] = "reap3" => signalled[t] = "KILL"

\* The inductive invariant that the proofs in ActionProofs rest on.
IInv ==
  /\ TypeOK /\ LockHeld /\ OneLaunch /\ LastPosts /\ CountAgrees /\ FlagAgrees
  /\ ForceExitKept /\ ChildAgrees /\ EndedMeansReaped

\* The execution of actions keeps the promise of PendingActions.
Promise == INSTANCE PendingActions
  WITH Jobs <- Threads, pending <- Counted, closing <- main \notin Watching,
       verdict <- verdict
PromiseKept == Promise!Spec

\* README: all executed actions are monitored and cancelled: once its command
\* stays silent, every started thread ends, whatever the command ignores,
\* holds open or leaves in the background.
StuckIsEnded ==
  \A t \in Threads :
    <>[][~Write(t)]_vars
      => (pc[t] = "start" ~> pc[t] = "gone" \/ main = "exited")

\* Once shutdown is forced every thread stops reading, even from a command
\* that never stops writing.
ForcedStopsReading ==
  \A t \in Threads :
    main = "timed2" /\ pc[t] \in Reading
      ~> pc[t] \notin Reading \/ main = "exited"

\* config.h: Config_done is called "when the config file values are no longer
\* needed": if all actions are reported finished, no thread uses the names it
\* borrowed when they are freed.
ConfigOutlivesUse ==
  main = "unconfigured" /\ verdict = "finished"
    => \A t \in Threads : pc[t] \notin UsingConfig
=============================================================================
