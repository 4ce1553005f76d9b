------------------------------- MODULE Timing -------------------------------
(***************************************************************************)
(* Action with seconds, for the timeouts that Action_waitForPending        *)
(* computes.  A behaviour has a clock or not, from its start.  Without     *)
(* one it is any behaviour of Action; with one it is a behaviour on an     *)
(* idle machine: only sleep() and select() take time, a second each, and a *)
(* killed process is dead at once.                                         *)
(***************************************************************************)
EXTENDS Action

CONSTANT Clocks   \* {FALSE}, {TRUE} or both

VARIABLES
  clock,    \* whether there is a clock
  asleep,   \* the threads in sleep() or select()
  elapsed   \* seconds since shutdown was forced

timingVars == <<vars, clock, asleep, elapsed>>

TimedInit == Init /\ clock \in Clocks /\ asleep = {} /\ elapsed = 0

\* When the last wait of the main thread ends: ts.tv_sec += ...
LastWait == TermWait + PipeWait + 2

\* select() returns early when there is something to read.
Awake(t) == t \notin asleep \/ (pc[t] = "select" /\ Readable(t))

\* Two of the places where a thread goes to sleep, with what it does there.
FallsAsleep(t) == pc'[t] = "select" \/ (pc[t] \in {"reap", "reap2"} /\ pc' = pc)

\* A step of a thread, and what it means for its sleep.
TimedControl(t) ==
  /\ Awake(t)
  /\ Control(t)
  /\ asleep' = IF FallsAsleep(t) THEN asleep \cup {t} ELSE asleep \ {t}
  /\ UNCHANGED <<clock, elapsed>>

\* What happens at once: every step of a thread that is awake, and death.
Urgent ==
  \E t \in Threads :
    \/ /\ Awake(t)
       /\ pc[t] \in UsingConfig \cup {"finish", "dec", "post", "unlock"}
       /\ pc[t] = "finish" => numThreadsLock = Nobody
    \/ signalled[t] = "KILL" /\ child[t] \in {"setup", "run"}

\* A second goes by.
Tick ==
  /\ clock /\ Running /\ ~Urgent
  /\ asleep' = {}
  /\ elapsed' = IF main = "timed2" /\ elapsed <= LastWait + Cardinality(Threads)
                THEN elapsed + 1 ELSE elapsed
  /\ UNCHANGED <<vars, clock>>

TimedNext ==
  \/ clock /\ \E t \in Threads : TimedControl(t)
  \/ ~clock /\ (\E t \in Threads : Control(t)) /\ UNCHANGED <<clock, asleep, elapsed>>
  \/ /\ \/ \E t \in Threads : Launch(t) \/ Command(t)
        \/ LockForLaunch \/ UnlockAfterLaunch \/ Shutdown \/ Terminated
     /\ UNCHANGED <<clock, asleep, elapsed>>
  \/ Tick

TimedSpec == TimedInit /\ [][TimedNext]_timingVars

\* action.c: "calculate absolute timeout until all should have finished".  With
\* no thread stuck in fgets and every command dead when killed, all threads have
\* counted down at the end of the second wait.  It is so for two of them: one
\* may find the token of forceExit taken by the other just then, and sleeps
\* once more, for which there is time.  It is not so for three, of which one
\* may miss the token twice.
ForcedInTime ==
  main = "timed2" /\ elapsed > LastWait => Counted = {}

\* The bound that holds for any number of threads: in every second at least one
\* more of them finds the token, and from then on it has the time for its
\* command that action.c gives it.  With three threads or more, this may be
\* later than the main thread waits.
EndedInTime ==
  main = "timed2" /\ elapsed > PipeWait + TermWait + Cardinality(Threads)
    => Counted = {}
=============================================================================
