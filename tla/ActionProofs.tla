---------------------------- MODULE ActionProofs ----------------------------
(***************************************************************************)
(* Proofs about Action: IInv is an inductive invariant, so the accounting  *)
(* of the controlling threads is right for any number of them and any      *)
(* timeouts, and Action implements PendingActions.                         *)
(***************************************************************************)
EXTENDS Timing, FiniteSetTheorems, TLAPS

-----------------------------------------------------------------------------
(* The places of a controlling thread that are nobody else's business.     *)

Inner == UsingConfig \cup {"finish"}

\* A step of a controlling thread between its start and its end, or of a
\* command, as the accounting sees it.
Quiet(t) ==
  /\ UNCHANGED <<mainVars, accounting>>
  /\ \/ UNCHANGED pc
     \/ pc[t] \in Inner /\ \E p \in Inner : pc' = [pc EXCEPT ![t] = p]

\* The accounting proper.
Acc == LockHeld /\ OneLaunch /\ LastPosts /\ CountAgrees /\ FlagAgrees

-----------------------------------------------------------------------------
(* The set of counted threads.                                             *)

\* Counted is finite, since Threads is.
LEMMA CountedFinite ==
  /\ IsFiniteSet(Counted)
  /\ Cardinality(Counted) \in Nat
  /\ Cardinality(Counted) = 0 <=> Counted = {}
<1>1. Counted \subseteq Threads
  BY DEF Counted
<1>2. IsFiniteSet(Counted)
  BY <1>1, ActionAssumption, FS_Subset DEF ActionAssumption
<1>. QED
  BY <1>2, FS_CardinalityType, FS_EmptySet

\* A move within the counted places, or within the others, keeps Counted.
LEMMA CountedKept ==
  ASSUME TypeOK, NEW t \in Threads, NEW p,
         pc' = [pc EXCEPT ![t] = p],
         pc[t] \in CountedPlaces <=> p \in CountedPlaces
  PROVE  Counted' = Counted
BY DEF TypeOK, Counted

\* A move into the counted places adds one thread.
LEMMA CountedGrows ==
  ASSUME TypeOK, NEW t \in Threads, NEW p,
         pc' = [pc EXCEPT ![t] = p],
         pc[t] \notin CountedPlaces, p \in CountedPlaces
  PROVE  /\ Counted' = Counted \cup {t}
         /\ Cardinality(Counted') = Cardinality(Counted) + 1
<1>1. Counted' = Counted \cup {t} /\ t \notin Counted
  BY DEF TypeOK, Counted
<1>. QED
  BY <1>1, CountedFinite, FS_AddElement

\* A move out of the counted places removes one thread.
LEMMA CountedShrinks ==
  ASSUME TypeOK, NEW t \in Threads, NEW p,
         pc' = [pc EXCEPT ![t] = p],
         pc[t] \in CountedPlaces, p \notin CountedPlaces
  PROVE  /\ Counted' = Counted \ {t}
         /\ t \in Counted
         /\ Cardinality(Counted') = Cardinality(Counted) - 1
<1>1. Counted' = Counted \ {t} /\ t \in Counted
  BY DEF TypeOK, Counted
<1>. QED
  BY <1>1, CountedFinite, FS_RemoveElement

-----------------------------------------------------------------------------
(* Quiet steps.                                                            *)

\* The steps of actionExec, readLine and actionWaitEnd.
Controlling(t) ==
  \/ OpenPipe(t) \/ Fork(t) \/ ForkFails(t) \/ OpenStream(t)
  \/ ReadTimesOut(t) \/ TakeForceExit(t) \/ PassForceExit(t)
  \/ BeginSelect(t) \/ Select(t) \/ SelectFails(t) \/ GetLine(t) \/ GetEof(t)
  \/ Poll(t) \/ SendTerm(t) \/ SendKill(t) \/ ReapKilled(t)
  \/ ReapInterrupted(t)

\* They and the steps of the commands are quiet.
LEMMA ControllingIsQuiet ==
  ASSUME NEW t \in Threads, Controlling(t) \/ Command(t)
  PROVE  Quiet(t)
<1>. USE DEF Quiet, Inner, UsingConfig, Reading, At, Goto
<1>1. CASE Command(t)
  BY <1>1 DEF Command, Exec, ExecFails, Write, Exit, CloseAll
<1>2. CASE OpenPipe(t) \/ Fork(t) \/ ForkFails(t) \/ OpenStream(t)
  BY <1>2 DEF OpenPipe, Fork, ForkFails, OpenStream, ReadNext, StopReading
<1>3. CASE \/ ReadTimesOut(t) \/ TakeForceExit(t) \/ PassForceExit(t)
           \/ BeginSelect(t)
  BY <1>3 DEF ReadTimesOut, TakeForceExit, PassForceExit, BeginSelect,
              StopReading
<1>4. CASE Select(t) \/ SelectFails(t) \/ GetLine(t) \/ GetEof(t)
  BY <1>4 DEF Select, SelectFails, GetLine, GetEof, ReadNext, StopReading
<1>5. CASE \/ Poll(t) \/ SendTerm(t) \/ SendKill(t) \/ ReapKilled(t)
           \/ ReapInterrupted(t)
  BY <1>5 DEF Poll, SendTerm, SendKill, ReapKilled, ReapInterrupted
<1>. QED
  BY <1>1, <1>2, <1>3, <1>4, <1>5 DEF Controlling

\* Quiet steps leave the accounting right.
LEMMA QuietKeepsAcc ==
  ASSUME TypeOK, Acc, NEW t \in Threads, Quiet(t)
  PROVE  Acc'
<1>1. Counted' = Counted
  <2>1. CASE UNCHANGED pc
    BY <2>1 DEF Counted
  <2>2. CASE pc[t] \in Inner /\ \E p \in Inner : pc' = [pc EXCEPT ![t] = p]
    BY <2>2, CountedKept DEF Inner, CountedPlaces
  <2>. QED
    BY <2>1, <2>2 DEF Quiet
<1>2. \A u \in Threads :
        pc'[u] = pc[u] \/ (pc[u] \in Inner /\ pc'[u] \in Inner)
  BY DEF Quiet, TypeOK
<1>3. \A p \in Inner : p \notin {"args", "counted", "dec", "post", "unlock"}
  BY DEF Inner, UsingConfig, Reading
<1>4. UNCHANGED <<main, verdict, numThreads, numThreadsLock, threadsLock>>
  BY DEF Quiet, mainVars, accounting
<1>5. LockHeld'
  BY <1>2, <1>3, <1>4 DEF Acc, LockHeld
<1>6. OneLaunch'
  BY <1>2, <1>3, <1>4 DEF Acc, OneLaunch
<1>7. LastPosts'
  BY <1>1, <1>2, <1>3, <1>4 DEF Acc, LastPosts
<1>8. CountAgrees'
  BY <1>1, <1>4 DEF Acc, CountAgrees
<1>9. FlagAgrees'
  BY <1>1, <1>2, <1>3, <1>4 DEF Acc, FlagAgrees
<1>. QED
  BY <1>5, <1>6, <1>7, <1>8, <1>9 DEF Acc

-----------------------------------------------------------------------------
(* The steps of the main thread while it watches.                          *)

\* The places that matter below are what their names say.
LEMMA Places ==
  /\ "counted" \in CountedPlaces /\ "start" \in CountedPlaces
  /\ "finish" \in CountedPlaces /\ "dec" \in CountedPlaces
  /\ \A p \in {"unused", "args", "refused", "post", "unlock", "gone"} :
       p \notin CountedPlaces
BY DEF CountedPlaces, UsingConfig, Reading

\* Starting a controlling thread keeps the accounting right.
LEMMA LaunchKeepsAcc ==
  ASSUME TypeOK, Acc, NEW t \in Threads, Launch(t)
  PROVE  Acc'
<1>. USE ActionAssumption DEF ActionAssumption, Acc, Goto, MainGoes, accounting
<1>1. CASE MatchLine(t)
  <2>1. Counted' = Counted
    BY <1>1, CountedKept, Places DEF MatchLine
  <2>. QED
    BY <1>1, <2>1 DEF MatchLine, TypeOK, LockHeld, OneLaunch, LastPosts,
                      CountAgrees, FlagAgrees, Watching, Waiting
<1>2. CASE CountThread(t)
  <2>1. /\ Counted' = Counted \cup {t}
        /\ Cardinality(Counted') = Cardinality(Counted) + 1
    BY <1>2, CountedGrows, Places DEF CountThread
  <2>2. Counted' # {} /\ (numThreads = 0 <=> Counted = {})
    BY <2>1, CountedFinite DEF CountAgrees
  <2>3. \A u \in Threads : pc[u] # "post" /\ pc'[u] # "post"
    BY <1>2 DEF CountThread, TypeOK, LockHeld
  <2>4. verdict = "none" /\ verdict' = "none"
    BY <1>2 DEF CountThread, LastPosts, Watching
  <2>5. threadsLock' = 0
    BY <1>2, <2>2, <2>3, <2>4 DEF CountThread, FlagAgrees
  <2>6. LockHeld' /\ OneLaunch'
    BY <1>2 DEF CountThread, TypeOK, LockHeld, OneLaunch
  <2>7. CountAgrees' /\ FlagAgrees' /\ LastPosts'
    BY <1>2, <2>1, <2>2, <2>3, <2>4, <2>5
    DEF CountThread, CountAgrees, FlagAgrees, LastPosts, Watching, Waiting
  <2>. QED
    BY <2>6, <2>7
<1>3. CASE CreateThread(t)
  <2>1. Counted' = Counted
    BY <1>3, CountedKept, Places DEF CreateThread
  <2>. QED
    BY <1>3, <2>1 DEF CreateThread, TypeOK, LockHeld, OneLaunch, LastPosts,
                      CountAgrees, FlagAgrees, Watching, Waiting
<1>4. CASE CreateFails(t)
  <2>1. /\ Counted' = Counted \ {t}
        /\ t \in Counted
        /\ Cardinality(Counted') = Cardinality(Counted) - 1
    BY <1>4, CountedShrinks, Places DEF CreateFails
  <2>2. CountAgrees' /\ (numThreads' = 0 <=> Counted' = {})
    <3>1. IsFiniteSet(Counted')
      BY <2>1, CountedFinite, FS_RemoveElement
    <3>. QED
      BY <1>4, <2>1, <3>1, FS_EmptySet DEF CreateFails, CountAgrees
  <2>3. \A u \in Threads : pc[u] # "post" /\ pc'[u] # "post"
    BY <1>4 DEF CreateFails, TypeOK, LockHeld
  <2>4. verdict = "none" /\ verdict' = "none"
    BY <1>4 DEF CreateFails, LastPosts, Watching
  <2>5. threadsLock = 0
    BY <2>1 DEF FlagAgrees
  <2>6. LockHeld' /\ OneLaunch'
    BY <1>4 DEF CreateFails, TypeOK, LockHeld, OneLaunch
  <2>7. FlagAgrees' /\ LastPosts'
    BY <1>4, <2>2, <2>3, <2>4, <2>5
    DEF CreateFails, FlagAgrees, LastPosts, Watching, Waiting
  <2>. QED
    BY <2>2, <2>6, <2>7
<1>. QED
  BY <1>1, <1>2, <1>3, <1>4 DEF Launch

\* So do taking and releasing the mutex around it.
LEMMA LaunchLockKeepsAcc ==
  ASSUME TypeOK, Acc, LockForLaunch \/ UnlockAfterLaunch
  PROVE  Acc'
<1>1. Counted' = Counted
  BY DEF LockForLaunch, UnlockAfterLaunch, Counted
<1>. QED
  BY <1>1, ActionAssumption
  DEF ActionAssumption, Acc, MainGoes, LockForLaunch, UnlockAfterLaunch, TypeOK,
      LockHeld, OneLaunch, LastPosts, CountAgrees, FlagAgrees, Watching,
      Waiting

-----------------------------------------------------------------------------
(* The end of a controlling thread.                                        *)

\* actionExec_done keeps the accounting right: the last thread, and no other,
\* makes threadsLock available again.
LEMMA EndKeepsAcc ==
  ASSUME TypeOK, Acc, NEW t \in Threads,
         LockForExit(t) \/ CountDown(t) \/ PostThreadsLock(t) \/ UnlockAndEnd(t)
  PROVE  Acc'
<1>. USE ActionAssumption
     DEF ActionAssumption, Acc, At, Goto, accounting, mainVars
<1>1. CASE LockForExit(t)
  <2>1. Counted' = Counted
    BY <1>1, CountedKept, Places DEF LockForExit
  <2>. QED
    BY <1>1, <2>1 DEF LockForExit, TypeOK, LockHeld, OneLaunch, LastPosts,
                      CountAgrees, FlagAgrees
<1>2. CASE CountDown(t)
  <2>. DEFINE p == IF numThreads' = 0 THEN "post" ELSE "unlock"
  <2>1. /\ Counted' = Counted \ {t}
        /\ t \in Counted
        /\ Cardinality(Counted') = Cardinality(Counted) - 1
    <3>1. p \notin CountedPlaces
      BY Places
    <3>2. pc[t] \in CountedPlaces /\ pc' = [pc EXCEPT ![t] = p]
      BY <1>2, Places DEF CountDown
    <3>. HIDE DEF p
    <3>. QED
      BY <3>1, <3>2, CountedShrinks
  <2>2. CountAgrees' /\ (numThreads' = 0 <=> Counted' = {})
    <3>1. IsFiniteSet(Counted')
      BY <2>1, CountedFinite, FS_RemoveElement
    <3>. QED
      BY <1>2, <2>1, <3>1, FS_EmptySet DEF CountDown, CountAgrees
  <2>3. verdict # "finished" /\ threadsLock = 0
    BY <2>1 DEF LastPosts, FlagAgrees
  <2>4. \A u \in Threads : pc[u] # "post"
    BY <2>1 DEF LastPosts
  <2>5. pc'[t] = p /\ \A u \in Threads \ {t} : pc'[u] = pc[u]
    BY <1>2 DEF CountDown, TypeOK
  <2>6. LockHeld' /\ OneLaunch'
    BY <1>2, <2>5 DEF CountDown, TypeOK, LockHeld, OneLaunch
  <2>7. FlagAgrees' /\ LastPosts'
    BY <1>2, <2>2, <2>3, <2>4, <2>5 DEF CountDown, FlagAgrees, LastPosts
  <2>. QED
    BY <2>2, <2>6, <2>7
<1>3. CASE PostThreadsLock(t)
  <2>1. Counted' = Counted
    BY <1>3, CountedKept, Places DEF PostThreadsLock
  <2>2. Counted = {} /\ verdict # "finished" /\ threadsLock = 0
    BY <1>3 DEF PostThreadsLock, LastPosts, FlagAgrees
  <2>3. \A u \in Threads : pc'[u] # "post"
    BY <1>3 DEF PostThreadsLock, TypeOK, LockHeld
  <2>. QED
    BY <1>3, <2>1, <2>2, <2>3
    DEF PostThreadsLock, TypeOK, LockHeld, OneLaunch, LastPosts, CountAgrees,
        FlagAgrees
<1>4. CASE UnlockAndEnd(t)
  <2>1. Counted' = Counted
    BY <1>4, CountedKept, Places DEF UnlockAndEnd
  <2>. QED
    BY <1>4, <2>1 DEF UnlockAndEnd, TypeOK, LockHeld, OneLaunch, LastPosts,
                      CountAgrees, FlagAgrees
<1>. QED
  BY <1>1, <1>2, <1>3, <1>4

-----------------------------------------------------------------------------
(* The end of the daemon.                                                  *)

\* Action_waitForPending keeps the accounting right: it consumes threadsLock
\* only when no thread is counted.
LEMMA ShutdownKeepsAcc ==
  ASSUME TypeOK, Acc, Shutdown
  PROVE  Acc'
<1>. USE DEF Acc, MainGoes, Return, accounting, Watching, Waiting
<1>1. UNCHANGED <<pc, numThreads, numThreadsLock>> /\ Counted' = Counted
  BY DEF Shutdown, StopWatching, WaitSucceeds, MustWait, ForceExit, GiveUp,
         ConfigDone, ProcessEnds, Counted
<1>2. LockHeld' /\ OneLaunch' /\ CountAgrees'
  BY <1>1
  DEF Shutdown, StopWatching, WaitSucceeds, MustWait, ForceExit, GiveUp,
      ConfigDone, ProcessEnds, LockHeld, OneLaunch, CountAgrees
<1>3. CASE WaitSucceeds
  <2>1. /\ Counted = {} /\ verdict # "finished" /\ threadsLock = 1
        /\ \A t \in Threads : pc[t] # "post"
    BY <1>3 DEF WaitSucceeds, FlagAgrees
  <2>. QED
    BY <1>1, <1>2, <1>3, <2>1 DEF WaitSucceeds, FlagAgrees, LastPosts
<1>4. CASE \/ StopWatching \/ MustWait \/ ForceExit \/ GiveUp
           \/ ConfigDone \/ ProcessEnds
  <2>1. FlagAgrees'
    BY <1>1, <1>4
    DEF StopWatching, MustWait, ForceExit, GiveUp, ConfigDone, ProcessEnds,
        FlagAgrees, LastPosts
  <2>2. LastPosts'
    BY <1>1, <1>4
    DEF StopWatching, MustWait, ForceExit, GiveUp, ConfigDone, ProcessEnds,
        LastPosts
  <2>. QED
    BY <1>2, <2>1, <2>2
<1>. QED
  BY <1>3, <1>4 DEF Shutdown

-----------------------------------------------------------------------------
(* Every step, as the disjunction that the proofs below follow.            *)

\* A step of Next is one of these.
LEMMA StepCases ==
  ASSUME [Next]_vars
  PROVE  \/ \E t \in Threads : Controlling(t) \/ Command(t)
         \/ \E t \in Threads : Launch(t)
         \/ \E t \in Threads :
              \/ LockForExit(t) \/ CountDown(t) \/ PostThreadsLock(t)
              \/ UnlockAndEnd(t)
         \/ LockForLaunch \/ UnlockAfterLaunch
         \/ Shutdown
         \/ UNCHANGED vars
BY DEF Next, Control, Controlling, Terminated

\* The accounting is kept by every step.
LEMMA AccStep ==
  ASSUME TypeOK, Acc, [Next]_vars
  PROVE  Acc'
<1>1. ASSUME UNCHANGED vars PROVE Acc'
  BY <1>1 DEF vars, Acc, LockHeld, OneLaunch, LastPosts, CountAgrees,
              FlagAgrees, Counted
<1>. QED
  BY <1>1, StepCases, ControllingIsQuiet, QuietKeepsAcc, LaunchKeepsAcc,
     LaunchLockKeepsAcc, EndKeepsAcc, ShutdownKeepsAcc

-----------------------------------------------------------------------------
(* The token of forceExit.                                                 *)

\* Passing is finite, since Threads is.
LEMMA PassingFinite ==
  /\ IsFiniteSet(Passing)
  /\ Cardinality(Passing) \in Nat
<1>1. Passing \subseteq Threads
  BY DEF Passing
<1>2. IsFiniteSet(Passing)
  BY <1>1, ActionAssumption, FS_Subset DEF ActionAssumption
<1>. QED
  BY <1>2, FS_CardinalityType

\* Only two actions of the threads touch the token; they hand it over.
LEMMA ThreadKeepsToken ==
  ASSUME TypeOK, ForceExitKept, NEW t \in Threads,
         Launch(t) \/ Control(t) \/ Command(t)
  PROVE  ForceExitKept'
<1>1. CASE TakeForceExit(t)
  <2>1. Passing' = Passing \cup {t} /\ t \notin Passing
    BY <1>1 DEF TakeForceExit, Passing, TypeOK, At, Goto
  <2>2. Cardinality(Passing') = Cardinality(Passing) + 1
    BY <2>1, PassingFinite, FS_AddElement
  <2>. QED
    BY <1>1, <2>2, PassingFinite
    DEF TakeForceExit, ForceExitKept, TypeOK, mainVars
<1>2. CASE PassForceExit(t)
  <2>1. Passing' = Passing \ {t} /\ t \in Passing
    BY <1>2 DEF PassForceExit, StopReading, Passing, TypeOK, At, Goto
  <2>2. Cardinality(Passing') = Cardinality(Passing) - 1
    BY <2>1, PassingFinite, FS_RemoveElement
  <2>. QED
    BY <1>2, <2>2, PassingFinite
    DEF PassForceExit, ForceExitKept, TypeOK, mainVars
<1>3. ASSUME ~TakeForceExit(t), ~PassForceExit(t)
      PROVE  ForceExitKept'
  <2>. USE DEF At, Goto, TypeOK, Passing, ReadNext, StopReading
  <2>1. UNCHANGED forceExit /\ Passing' = Passing
    <3>1. CASE Launch(t)
      BY <3>1 DEF Launch, MatchLine, CountThread, CreateThread, CreateFails
    <3>2. CASE Command(t)
      BY <3>2 DEF Command, Exec, ExecFails, Write, Exit, CloseAll
    <3>3. CASE \/ OpenPipe(t) \/ Fork(t) \/ ForkFails(t) \/ OpenStream(t)
               \/ ReadTimesOut(t) \/ BeginSelect(t)
      BY <3>3 DEF OpenPipe, Fork, ForkFails, OpenStream, ReadTimesOut,
                  BeginSelect
    <3>4. CASE Select(t) \/ SelectFails(t) \/ GetLine(t) \/ GetEof(t)
      BY <3>4 DEF Select, SelectFails, GetLine, GetEof
    <3>5. CASE \/ Poll(t) \/ SendTerm(t) \/ SendKill(t) \/ ReapKilled(t)
               \/ ReapInterrupted(t)
      BY <3>5 DEF Poll, SendTerm, SendKill, ReapKilled, ReapInterrupted
    <3>6. CASE \/ LockForExit(t) \/ CountDown(t) \/ PostThreadsLock(t)
               \/ UnlockAndEnd(t)
      BY <3>6 DEF LockForExit, CountDown, PostThreadsLock, UnlockAndEnd
    <3>. QED
      BY <1>3, <3>1, <3>2, <3>3, <3>4, <3>5, <3>6 DEF Control
  <2>2. main' = main \/ (main \in Watching /\ main' \in Watching)
    <3>1. CASE Launch(t)
      BY <3>1 DEF Launch, MatchLine, CountThread, CreateThread, CreateFails,
                  MainGoes, Watching
    <3>2. CASE Control(t) \/ Command(t)
      <4>1. CASE Controlling(t) \/ Command(t)
        BY <4>1, ControllingIsQuiet DEF Quiet, mainVars
      <4>2. CASE \/ LockForExit(t) \/ CountDown(t) \/ PostThreadsLock(t)
                 \/ UnlockAndEnd(t)
        BY <4>2 DEF LockForExit, CountDown, PostThreadsLock, UnlockAndEnd,
                    mainVars
      <4>. QED
        BY <3>2, <4>1, <4>2 DEF Control, Controlling
    <3>. QED
      BY <3>1, <3>2
  <2>. QED
    BY <2>1, <2>2 DEF ForceExitKept, Watching
<1>. QED
  BY <1>1, <1>2, <1>3

\* Every step keeps the token.
LEMMA TokenStep ==
  ASSUME TypeOK, ForceExitKept, [Next]_vars
  PROVE  ForceExitKept'
<1>1. CASE \E t \in Threads : Launch(t) \/ Control(t) \/ Command(t)
  BY <1>1, ThreadKeepsToken
<1>2. CASE LockForLaunch \/ UnlockAfterLaunch
  BY <1>2 DEF LockForLaunch, UnlockAfterLaunch, MainGoes, ForceExitKept,
              Passing, Watching
<1>3. CASE Shutdown
  <2>1. Passing' = Passing
    BY <1>3 DEF Shutdown, StopWatching, WaitSucceeds, MustWait, ForceExit,
                GiveUp, ConfigDone, ProcessEnds, Passing
  <2>2. CASE ForceExit
    <3>1. forceExit + Cardinality(Passing) = 0
      BY <2>2 DEF ForceExit, ForceExitKept
    <3>2. forceExit' = forceExit + 1
      BY <2>2 DEF ForceExit
    <3>3. forceExit' + Cardinality(Passing') = 1
      BY <2>1, <3>1, <3>2, PassingFinite DEF TypeOK
    <3>4. main' \in {"timed2", "returned"}
      BY <2>2 DEF ForceExit, Return
    <3>. QED
      BY <3>3, <3>4 DEF ForceExitKept, Watching
  <2>3. CASE StopWatching \/ WaitSucceeds \/ MustWait
    BY <2>1, <2>3
    DEF StopWatching, WaitSucceeds, MustWait, MainGoes, Return, Watching,
        Waiting, ForceExitKept
  <2>4. CASE GiveUp \/ ConfigDone \/ ProcessEnds
    BY <2>1, <2>4
    DEF GiveUp, ConfigDone, ProcessEnds, MainGoes, Return, Watching,
        ForceExitKept
  <2>. QED
    BY <1>3, <2>2, <2>3, <2>4 DEF Shutdown
<1>4. CASE UNCHANGED vars
  BY <1>4 DEF vars, ForceExitKept, Passing
<1>. QED
  BY <1>1, <1>2, <1>3, <1>4 DEF Next, Terminated

-----------------------------------------------------------------------------
(* The commands.                                                           *)

\* Every step keeps what a thread knows of its command.
LEMMA ChildStep ==
  ASSUME TypeOK, ChildAgrees, [Next]_vars
  PROVE  ChildAgrees'
<1>. USE DEF TypeOK, ChildAgrees, At, Goto, Reading
<1>1. ASSUME NEW t \in Threads, Launch(t) PROVE ChildAgrees'
  BY <1>1 DEF Launch, MatchLine, CountThread, CreateThread, CreateFails,
              commands
<1>2. ASSUME NEW t \in Threads, OpenPipe(t) \/ Fork(t) \/ ForkFails(t)
      PROVE  ChildAgrees'
  BY <1>2 DEF OpenPipe, Fork, ForkFails
<1>3. ASSUME NEW t \in Threads,
             \/ OpenStream(t) \/ ReadTimesOut(t) \/ TakeForceExit(t)
             \/ PassForceExit(t) \/ BeginSelect(t)
      PROVE  ChildAgrees'
  BY <1>3 DEF OpenStream, ReadTimesOut, TakeForceExit, PassForceExit,
              BeginSelect, ReadNext, StopReading, commands
<1>4. ASSUME NEW t \in Threads,
             Select(t) \/ SelectFails(t) \/ GetLine(t) \/ GetEof(t)
      PROVE  ChildAgrees'
  BY <1>4 DEF Select, SelectFails, GetLine, GetEof, ReadNext, StopReading,
              commands
<1>5. ASSUME NEW t \in Threads,
             \/ Poll(t) \/ SendTerm(t) \/ SendKill(t) \/ ReapKilled(t)
             \/ ReapInterrupted(t)
      PROVE  ChildAgrees'
  BY <1>5 DEF Poll, SendTerm, SendKill, ReapKilled, ReapInterrupted, commands
<1>6. ASSUME NEW t \in Threads,
             \/ LockForExit(t) \/ CountDown(t) \/ PostThreadsLock(t)
             \/ UnlockAndEnd(t)
      PROVE  ChildAgrees'
  BY <1>6 DEF LockForExit, CountDown, PostThreadsLock, UnlockAndEnd, commands
<1>7. ASSUME NEW t \in Threads, Command(t) PROVE ChildAgrees'
  BY <1>7 DEF Command, Exec, ExecFails, Write, Exit, CloseAll
<1>8. ASSUME UNCHANGED <<pc, child, signalled>> PROVE ChildAgrees'
  BY <1>8
<1>9. ASSUME LockForLaunch \/ UnlockAfterLaunch \/ Shutdown \/ UNCHANGED vars
      PROVE  UNCHANGED <<pc, child, signalled>>
  BY <1>9 DEF LockForLaunch, UnlockAfterLaunch, Shutdown, StopWatching,
              WaitSucceeds, MustWait, ForceExit, GiveUp, ConfigDone,
              ProcessEnds, commands, vars
<1>. QED
  BY <1>1, <1>2, <1>3, <1>4, <1>5, <1>6, <1>7, <1>8, <1>9, StepCases
  DEF Controlling

\* Every step keeps the commands of the ended threads reaped, or killed where a
\* signal interrupts the last wait.
LEMMA ReapedStep ==
  ASSUME TypeOK, ChildAgrees, EndedMeansReaped, [Next]_vars
  PROVE  EndedMeansReaped'
<1>. USE DEF TypeOK, ChildAgrees, EndedMeansReaped, At, Goto, Reading
<1>1. ASSUME NEW t \in Threads, Launch(t) PROVE EndedMeansReaped'
  BY <1>1 DEF Launch, MatchLine, CountThread, CreateThread, CreateFails,
              commands
<1>2. ASSUME NEW t \in Threads, OpenPipe(t) \/ Fork(t) \/ ForkFails(t)
      PROVE  EndedMeansReaped'
  BY <1>2 DEF OpenPipe, Fork, ForkFails
<1>3. ASSUME NEW t \in Threads,
             \/ OpenStream(t) \/ ReadTimesOut(t) \/ TakeForceExit(t)
             \/ PassForceExit(t) \/ BeginSelect(t)
      PROVE  EndedMeansReaped'
  BY <1>3 DEF OpenStream, ReadTimesOut, TakeForceExit, PassForceExit,
              BeginSelect, ReadNext, StopReading, commands
<1>4. ASSUME NEW t \in Threads,
             Select(t) \/ SelectFails(t) \/ GetLine(t) \/ GetEof(t)
      PROVE  EndedMeansReaped'
  BY <1>4 DEF Select, SelectFails, GetLine, GetEof, ReadNext, StopReading,
              commands
<1>5. ASSUME NEW t \in Threads,
             Poll(t) \/ SendTerm(t) \/ SendKill(t) \/ ReapKilled(t)
      PROVE  EndedMeansReaped'
  BY <1>5 DEF Poll, SendTerm, SendKill, ReapKilled, commands
<1>6. ASSUME NEW t \in Threads, ReapInterrupted(t) PROVE EndedMeansReaped'
  BY <1>6 DEF ReapInterrupted, commands
<1>7. ASSUME NEW t \in Threads,
             \/ LockForExit(t) \/ CountDown(t) \/ PostThreadsLock(t)
             \/ UnlockAndEnd(t)
      PROVE  EndedMeansReaped'
  BY <1>7 DEF LockForExit, CountDown, PostThreadsLock, UnlockAndEnd, commands
<1>8. ASSUME NEW t \in Threads, Command(t) PROVE EndedMeansReaped'
  BY <1>8 DEF Command, Exec, ExecFails, Write, Exit, CloseAll
<1>9. ASSUME UNCHANGED <<pc, child, signalled>> PROVE EndedMeansReaped'
  BY <1>9
<1>10. ASSUME LockForLaunch \/ UnlockAfterLaunch \/ Shutdown \/ UNCHANGED vars
       PROVE  UNCHANGED <<pc, child, signalled>>
  BY <1>10 DEF LockForLaunch, UnlockAfterLaunch, Shutdown, StopWatching,
               WaitSucceeds, MustWait, ForceExit, GiveUp, ConfigDone,
               ProcessEnds, commands, vars
<1>. QED
  BY <1>1, <1>2, <1>3, <1>4, <1>5, <1>6, <1>7, <1>8, <1>9, <1>10, StepCases
  DEF Controlling

-----------------------------------------------------------------------------
(* Type correctness.                                                       *)

\* The part of TypeOK that does not depend on the accounting.
LocalTypes ==
  /\ main \in MainPlaces
  /\ verdict \in {"none", "finished", "gaveup"}
  /\ numThreadsLock \in Threads \cup {Main, Nobody}
  /\ pc \in [Threads -> ThreadPlaces]
  /\ counter \in [Threads -> Nat]
  /\ child \in [Threads -> {"none", "setup", "run", "zombie", "reaped"}]
  /\ signalled \in [Threads -> {"none", "TERM", "KILL"}]
  /\ pipe \in [Threads -> {"empty", "part", "line"}]
  /\ writeEnd \subseteq Threads
  /\ holders \in [Threads -> SUBSET Threads]

\* Every step of a thread or a command keeps the local types.
LEMMA ThreadTypes ==
  ASSUME LocalTypes, NEW t \in Threads,
         Launch(t) \/ Control(t) \/ Command(t)
  PROVE  LocalTypes'
<1>. USE ActionAssumption
     DEF ActionAssumption, LocalTypes, At, Goto, MainGoes, ThreadPlaces,
         CountedPlaces, UsingConfig, Reading, MainPlaces, Watching, Waiting,
         accounting, mainVars, commands
<1>1. CASE Launch(t)
  BY <1>1 DEF Launch, MatchLine, CountThread, CreateThread, CreateFails
<1>2. CASE OpenPipe(t) \/ ForkFails(t)
  BY <1>2 DEF OpenPipe, ForkFails
<1>3. CASE Fork(t)
  BY <1>3 DEF Fork
<1>4. CASE OpenStream(t)
  BY <1>4 DEF OpenStream, ReadNext, StopReading
<1>5. CASE ReadTimesOut(t) \/ TakeForceExit(t) \/ PassForceExit(t)
  BY <1>5 DEF ReadTimesOut, TakeForceExit, PassForceExit, StopReading
<1>6. CASE BeginSelect(t) \/ Select(t) \/ SelectFails(t)
  BY <1>6 DEF BeginSelect, Select, SelectFails, StopReading
<1>7. CASE GetLine(t) \/ GetEof(t)
  BY <1>7 DEF GetLine, GetEof, ReadNext, StopReading
<1>8. CASE Poll(t) \/ SendTerm(t) \/ SendKill(t)
  BY <1>8 DEF Poll, SendTerm, SendKill
<1>9. CASE ReapKilled(t) \/ ReapInterrupted(t)
  BY <1>9 DEF ReapKilled, ReapInterrupted
<1>10. CASE LockForExit(t) \/ PostThreadsLock(t) \/ UnlockAndEnd(t)
  BY <1>10 DEF LockForExit, PostThreadsLock, UnlockAndEnd
<1>11. CASE CountDown(t)
  BY <1>11 DEF CountDown
<1>12. CASE Exec(t) \/ Write(t)
  BY <1>12 DEF Exec, Write
<1>13. CASE ExecFails(t) \/ Exit(t) \/ CloseAll(t)
  <2>1. WithoutFamily(t) \in [Threads -> SUBSET Threads]
    BY DEF WithoutFamily
  <2>. QED
    BY <1>13, <2>1 DEF ExecFails, Exit, CloseAll
<1>. QED
  BY <1>1, <1>2, <1>3, <1>4, <1>5, <1>6, <1>7, <1>8, <1>9, <1>10, <1>11,
     <1>12, <1>13
  DEF Control, Command

\* Every step keeps the local types.
LEMMA LocalTypesStep ==
  ASSUME LocalTypes, [Next]_vars
  PROVE  LocalTypes'
<1>1. CASE \E t \in Threads : Launch(t) \/ Control(t) \/ Command(t)
  BY <1>1, ThreadTypes
<1>2. CASE LockForLaunch \/ UnlockAfterLaunch
  BY <1>2, ActionAssumption
  DEF ActionAssumption, LocalTypes, LockForLaunch, UnlockAfterLaunch, MainGoes,
      commands, MainPlaces, Watching
<1>3. CASE Shutdown
  BY <1>3
  DEF LocalTypes, Shutdown, StopWatching, WaitSucceeds, MustWait, ForceExit,
      GiveUp, ConfigDone, ProcessEnds, MainGoes, Return, accounting, commands,
      MainPlaces, Watching, Waiting
<1>4. CASE UNCHANGED vars
  BY <1>4 DEF vars, LocalTypes
<1>. QED
  BY <1>1, <1>2, <1>3, <1>4 DEF Next, Terminated

\* The semaphore forceExit is a natural number: it is only taken when there is
\* a token.
LEMMA ForceExitNat ==
  ASSUME TypeOK, [Next]_vars
  PROVE  forceExit' \in Nat
<1>1. \/ UNCHANGED forceExit
      \/ forceExit' = forceExit + 1
      \/ forceExit > 0 /\ forceExit' = forceExit - 1
  <2>1. ASSUME NEW t \in Threads, Launch(t)
        PROVE  UNCHANGED forceExit
    BY <2>1 DEF Launch, MatchLine, CountThread, CreateThread, CreateFails
  <2>2. ASSUME NEW t \in Threads, Command(t)
        PROVE  UNCHANGED forceExit
    BY <2>2 DEF Command, Exec, ExecFails, Write, Exit, CloseAll
  <2>3. ASSUME NEW t \in Threads, Control(t)
        PROVE  <1>1!1 \/ <1>1!2 \/ <1>1!3
    BY <2>3
    DEF Control, OpenPipe, Fork, ForkFails, OpenStream, ReadTimesOut,
        TakeForceExit, PassForceExit, BeginSelect, Select, SelectFails,
        GetLine, GetEof, Poll, SendTerm, SendKill, ReapKilled,
        ReapInterrupted, LockForExit, CountDown, PostThreadsLock, UnlockAndEnd
  <2>4. CASE LockForLaunch \/ UnlockAfterLaunch \/ UNCHANGED vars
    BY <2>4 DEF LockForLaunch, UnlockAfterLaunch, vars
  <2>5. CASE Shutdown
    BY <2>5 DEF Shutdown, StopWatching, WaitSucceeds, MustWait, ForceExit,
                GiveUp, ConfigDone, ProcessEnds
  <2>. QED
    BY <2>1, <2>2, <2>3, <2>4, <2>5 DEF Next, Terminated
<1>. QED
  BY <1>1 DEF TypeOK

\* Every step keeps TypeOK; the accounting bounds the counter and the two
\* semaphores.
LEMMA TypeStep ==
  ASSUME TypeOK, Acc', ForceExitKept', [Next]_vars
  PROVE  TypeOK'
<1>1. LocalTypes'
  <2>1. LocalTypes
    BY DEF TypeOK, LocalTypes
  <2>. QED
    BY <2>1, LocalTypesStep
<1>2. numThreads' \in Nat
  <2>1. Counted' \subseteq Threads
    BY DEF Counted
  <2>2. Cardinality(Counted') \in Nat
    BY <2>1, ActionAssumption, FS_Subset, FS_CardinalityType
    DEF ActionAssumption
  <2>. QED
    BY <2>2 DEF Acc, CountAgrees
<1>3. threadsLock' \in {0, 1}
  BY DEF Acc, FlagAgrees
<1>4. forceExit' \in {0, 1}
  <2>1. Passing' \subseteq Threads
    BY DEF Passing
  <2>2. Cardinality(Passing') \in Nat
    BY <2>1, ActionAssumption, FS_Subset, FS_CardinalityType
    DEF ActionAssumption
  <2>. QED
    BY <2>2, ForceExitNat DEF ForceExitKept
<1>. QED
  BY <1>1, <1>2, <1>3, <1>4 DEF TypeOK, LocalTypes

-----------------------------------------------------------------------------
(* The inductive invariant.                                                *)

\* It holds before the first line is read.
LEMMA IInvInit ==
  ASSUME Init
  PROVE  IInv
<1>. USE ActionAssumption DEF ActionAssumption, Init
<1>1. Counted = {} /\ Passing = {}
  BY DEF Counted, CountedPlaces, UsingConfig, Reading, Passing
<1>2. Cardinality(Counted) = 0 /\ Cardinality(Passing) = 0
  BY <1>1, FS_EmptySet
<1>3. TypeOK
  BY DEF TypeOK, MainPlaces, Watching, ThreadPlaces
<1>4. LockHeld /\ OneLaunch /\ LastPosts
  BY <1>1 DEF LockHeld, OneLaunch, LastPosts, Watching
<1>5. CountAgrees /\ FlagAgrees
  BY <1>1, <1>2 DEF CountAgrees, FlagAgrees
<1>6. ForceExitKept
  BY <1>2 DEF ForceExitKept
<1>7. ChildAgrees /\ EndedMeansReaped
  BY DEF ChildAgrees, EndedMeansReaped, Reading
<1>. QED
  BY <1>3, <1>4, <1>5, <1>6, <1>7 DEF IInv

\* Every step keeps it.
LEMMA IInvStep ==
  ASSUME IInv, [Next]_vars
  PROVE  IInv'
<1>1. Acc'
  BY AccStep DEF IInv, Acc
<1>2. ForceExitKept'
  BY TokenStep DEF IInv
<1>3. TypeOK'
  BY <1>1, <1>2, TypeStep DEF IInv
<1>4. ChildAgrees'
  BY ChildStep DEF IInv
<1>5. EndedMeansReaped'
  BY ReapedStep DEF IInv
<1>. QED
  BY <1>1, <1>2, <1>3, <1>4, <1>5 DEF IInv, Acc

\* The strengthened invariant holds throughout, for any set of threads and any
\* timeouts.
THEOREM Invariance == Spec => []IInv
<1>1. Init => IInv
  BY IInvInit
<1>2. IInv /\ [Next]_vars => IInv'
  BY IInvStep
<1>. QED
  BY <1>1, <1>2, PTL DEF Spec

\* The variables stay in their ranges, the two semaphores are binary.
THEOREM TypeCorrect == Spec => []TypeOK
<1>1. IInv => TypeOK
  BY DEF IInv
<1>. QED
  BY <1>1, Invariance, PTL

\* numThreads is the number of threads between launch and countdown.
THEOREM CountIsRight == Spec => []CountAgrees
<1>1. IInv => CountAgrees
  BY DEF IInv
<1>. QED
  BY <1>1, Invariance, PTL

\* threadsLock is available exactly when no thread runs.
THEOREM FlagIsRight == Spec => []FlagAgrees
<1>1. IInv => FlagAgrees
  BY DEF IInv
<1>. QED
  BY <1>1, Invariance, PTL

\* The token of forceExit is handed on by however many threads there are.
THEOREM TokenIsKept == Spec => []ForceExitKept
<1>1. IInv => ForceExitKept
  BY DEF IInv
<1>. QED
  BY <1>1, Invariance, PTL

\* No ended thread leaves its command behind, unless it killed the command and
\* a signal interrupted the last wait for it.
THEOREM NoZombies == Spec => []EndedMeansReaped
<1>1. IInv => EndedMeansReaped
  BY DEF IInv
<1>. QED
  BY <1>1, Invariance, PTL

\* If all actions are reported finished, no thread uses what Config_done frees.
THEOREM ConfigIsKept == Spec => []ConfigOutlivesUse
<1>1. IInv => ConfigOutlivesUse
  BY DEF IInv, ConfigOutlivesUse, LastPosts, Counted, CountedPlaces
<1>. QED
  BY <1>1, Invariance, PTL

\* kill() only ever names a command that was not yet waited for.
THEOREM KillsOwnChild == Spec => NoStrayKill
<1>1. ASSUME IInv, [Next]_vars, NEW t \in Threads,
             signalled'[t] # signalled[t]
      PROVE  child[t] \in {"setup", "run", "zombie"}
  <2>. USE DEF IInv, TypeOK, At
  <2>1. CASE \E u \in Threads : Control(u)
    <3>1. PICK u \in Threads : Control(u)
      BY <2>1
    <3>2. CASE SendTerm(u) \/ SendKill(u)
      BY <1>1, <3>2 DEF SendTerm, SendKill, ChildAgrees
    <3>3. ASSUME ~SendTerm(u), ~SendKill(u) PROVE UNCHANGED signalled
      BY <3>1, <3>3
      DEF Control, OpenPipe, Fork, ForkFails, OpenStream, ReadTimesOut,
          TakeForceExit, PassForceExit, BeginSelect, Select, SelectFails,
          GetLine, GetEof, Poll, ReapKilled, ReapInterrupted, LockForExit,
          CountDown, PostThreadsLock, UnlockAndEnd, commands
    <3>. QED
      BY <1>1, <3>2, <3>3
  <2>2. CASE \E u \in Threads : Launch(u) \/ Command(u)
    BY <1>1, <2>2
    DEF Launch, MatchLine, CountThread, CreateThread, CreateFails, Command,
        Exec, ExecFails, Write, Exit, CloseAll, commands
  <2>3. CASE LockForLaunch \/ UnlockAfterLaunch \/ UNCHANGED vars
    BY <1>1, <2>3 DEF LockForLaunch, UnlockAfterLaunch, vars, commands
  <2>4. CASE Shutdown
    BY <1>1, <2>4
    DEF Shutdown, StopWatching, WaitSucceeds, MustWait, ForceExit, GiveUp,
        ConfigDone, ProcessEnds, commands
  <2>. QED
    BY <1>1, <2>1, <2>2, <2>3, <2>4 DEF Next, Terminated
<1>2. IInv /\ [Next]_vars
        => [\A t \in Threads : signalled'[t] # signalled[t]
              => child[t] \in {"setup", "run", "zombie"}]_vars
  BY <1>1
<1>. QED
  BY <1>2, Invariance, PTL DEF Spec, NoStrayKill

-----------------------------------------------------------------------------
(* Refinement.                                                             *)

\* A step of a thread or a command begins, ends or keeps what is pending.
LEMMA ThreadRefines ==
  ASSUME IInv, NEW t \in Threads, Launch(t) \/ Control(t) \/ Command(t)
  PROVE  Promise!Next \/ UNCHANGED Promise!pvars
<1>. USE DEF IInv, Promise!pvars, Promise!Next, Promise!Begin, Promise!End,
             MainGoes, Watching, Goto, At, mainVars
<1>1. CASE MatchLine(t) \/ CreateThread(t)
  <2>1. Counted' = Counted
    BY <1>1, CountedKept, Places DEF MatchLine, CreateThread
  <2>. QED
    BY <1>1, <2>1 DEF MatchLine, CreateThread
<1>2. CASE CountThread(t)
  <2>1. Counted' = Counted \cup {t} /\ t \notin Counted
    BY <1>2, CountedGrows, Places DEF CountThread, Counted
  <2>. QED
    BY <1>2, <2>1 DEF CountThread
<1>3. CASE CreateFails(t)
  <2>1. Counted' = Counted \ {t} /\ t \in Counted
    BY <1>3, CountedShrinks, Places DEF CreateFails
  <2>. QED
    BY <1>3, <2>1 DEF CreateFails
<1>4. CASE Controlling(t) \/ Command(t)
  <2>1. Quiet(t)
    BY <1>4, ControllingIsQuiet
  <2>2. Counted' = Counted
    BY <2>1, CountedKept DEF Quiet, Inner, CountedPlaces, Counted
  <2>. QED
    BY <2>1, <2>2 DEF Quiet
<1>5. CASE CountDown(t)
  <2>1. Counted' = Counted \ {t} /\ t \in Counted
    BY <1>5, Places DEF CountDown, Counted, TypeOK
  <2>. QED
    BY <1>5, <2>1 DEF CountDown
<1>6. CASE LockForExit(t) \/ PostThreadsLock(t) \/ UnlockAndEnd(t)
  <2>1. Counted' = Counted
    BY <1>6, CountedKept, Places
    DEF LockForExit, PostThreadsLock, UnlockAndEnd
  <2>. QED
    BY <1>6, <2>1 DEF LockForExit, PostThreadsLock, UnlockAndEnd
<1>. QED
  BY <1>1, <1>2, <1>3, <1>4, <1>5, <1>6 DEF Launch, Control, Controlling

\* Action_waitForPending answers as promised.
LEMMA ShutdownRefines ==
  ASSUME IInv, Shutdown
  PROVE  Promise!Next \/ UNCHANGED Promise!pvars
<1>. USE DEF IInv, Promise!pvars, Promise!Next, MainGoes, Return, Watching,
             Waiting, LastPosts
<1>1. Counted' = Counted
  BY DEF Shutdown, StopWatching, WaitSucceeds, MustWait, ForceExit, GiveUp,
         ConfigDone, ProcessEnds, Counted
<1>2. CASE StopWatching
  BY <1>1, <1>2 DEF StopWatching, Promise!Close
<1>3. CASE WaitSucceeds
  <2>1. Counted = {}
    BY <1>3 DEF WaitSucceeds, FlagAgrees
  <2>. QED
    BY <1>1, <1>3, <2>1 DEF WaitSucceeds, Promise!Finished
<1>4. CASE MustWait \/ ForceExit \/ GiveUp
  BY <1>1, <1>4 DEF MustWait, ForceExit, GiveUp, Promise!GiveUp
<1>5. CASE ConfigDone \/ ProcessEnds
  BY <1>1, <1>5 DEF ConfigDone, ProcessEnds
<1>. QED
  BY <1>2, <1>3, <1>4, <1>5 DEF Shutdown

\* The counter, the mutex and the two semaphores implement the promise that
\* Action_waitForPending makes to svcmain.
THEOREM Refinement == Spec => PromiseKept
<1>1. Init => Promise!Init
  <2>1. Init => Counted = {}
    BY DEF Init, Counted, CountedPlaces, UsingConfig, Reading
  <2>. QED
    BY <2>1 DEF Init, Promise!Init, Watching
<1>2. ASSUME IInv, [Next]_vars
      PROVE  [Promise!Next]_(Promise!pvars)
  <2>1. CASE \E t \in Threads : Launch(t) \/ Control(t) \/ Command(t)
    BY <1>2, <2>1, ThreadRefines
  <2>2. CASE LockForLaunch \/ UnlockAfterLaunch
    BY <2>2 DEF LockForLaunch, UnlockAfterLaunch, MainGoes, Counted,
                Promise!pvars, Watching
  <2>3. CASE Shutdown
    BY <1>2, <2>3, ShutdownRefines
  <2>4. CASE UNCHANGED vars
    BY <2>4 DEF vars, Counted, Promise!pvars
  <2>. QED
    BY <1>2, <2>1, <2>2, <2>3, <2>4 DEF Next, Terminated
<1>. QED
  BY <1>1, <1>2, Invariance, PTL DEF Spec, PromiseKept, Promise!Spec

-----------------------------------------------------------------------------
(* Time.  With any number of threads, in each second after shutdown was    *)
(* forced one more of them stops reading; then the countdowns bound how    *)
(* long it stays.                                                          *)

\* A thread that has not yet waited for its command, nor taken the token.
EarlyPlaces == {"start", "fork"} \cup (Reading \ {"pass"})
Early == {t \in Threads : pc[t] \in EarlyPlaces}

\* Waiting for the command, and then still counted.
LatePlaces == {"reap", "reap2", "reap3", "finish", "dec"}

\* The seconds left to a thread that waits for its command.
Sleeps(t) == IF t \in asleep THEN 1 ELSE 0
Left(t) ==
  IF pc[t] = "reap" THEN counter[t] + Sleeps(t) + TermWait
  ELSE IF pc[t] = "reap2" THEN counter[t] + Sleeps(t) ELSE 0

\* A thread misses the token only because another one has just taken it: one
\* thread less is early each second, from the first full one.
InTime ==
  /\ Early # {} => elapsed + Cardinality(Early) <= Cardinality(Threads) + 1
  /\ elapsed # 0 /\ (Passing # {} \/ Early \cap asleep # {})
       => elapsed + Cardinality(Early) <= Cardinality(Threads)
  /\ \A t \in Threads :
       pc[t] \in LatePlaces
         => elapsed + Left(t) <= Cardinality(Threads) + PipeWait + TermWait

TimedInv ==
  /\ elapsed \in Nat
  /\ ~clock \/ main \in Watching \cup {"pending", "timed1"} => elapsed = 0
  /\ clock =>
       /\ \A t \in asleep : t \in Threads /\ pc[t] \in {"select", "reap", "reap2"}
       /\ \A t \in Threads : Left(t) <= PipeWait + TermWait
       /\ main = "timed2" => InTime

\* What a step of a controlling thread means for its deadline.
Shape(t, p, c) ==
  /\ pc' = [pc EXCEPT ![t] = p]
  /\ counter' = [counter EXCEPT ![t] = c]
  /\ \/ /\ pc[t] \in EarlyPlaces /\ p \in EarlyPlaces
        /\ p = "select" => forceExit = 0 /\ pc[t] = "read"
     \/ pc[t] \in EarlyPlaces /\ p = "pass" /\ forceExit > 0
     \/ pc[t] \in EarlyPlaces \cup {"pass"} /\ p = "reap" /\ c = PipeWait
     \/ pc[t] \in {"reap", "reap2"} /\ p = pc[t] /\ counter[t] > 0 /\ c = counter[t] - 1
     \/ pc[t] = "reap" /\ p = "reap2" /\ counter[t] = 0 /\ c = TermWait
     \/ pc[t] \in EarlyPlaces \cup LatePlaces /\ p \in {"reap3", "finish", "dec"}
     \/ pc[t] # "pass" /\ p \in {"post", "unlock", "gone"}

LEMMA ControlShape ==
  ASSUME TypeOK, NEW t \in Threads, Control(t)
  PROVE  /\ main' = main
         /\ \E p \in ThreadPlaces, c \in Nat : Shape(t, p, c)
<1>. USE ActionAssumption DEF ActionAssumption, TypeOK, At, Goto, mainVars,
         Shape, EarlyPlaces, LatePlaces, Reading, ThreadPlaces, CountedPlaces,
         UsingConfig
<1>1. counter[t] \in Nat /\ counter = [counter EXCEPT ![t] = counter[t]]
  OBVIOUS
<1>2. CASE OpenPipe(t)
  BY <1>1, <1>2 DEF OpenPipe
<1>3. CASE Fork(t) \/ ForkFails(t)
  BY <1>1, <1>3 DEF Fork, ForkFails
<1>4. CASE OpenStream(t)
  BY <1>4 DEF OpenStream, ReadNext, StopReading
<1>5. CASE ReadTimesOut(t) \/ PassForceExit(t) \/ SelectFails(t)
  BY <1>5 DEF ReadTimesOut, PassForceExit, SelectFails, StopReading
<1>6. CASE TakeForceExit(t) \/ Select(t)
  BY <1>1, <1>6 DEF TakeForceExit, Select
<1>7. CASE BeginSelect(t)
  <2>1. /\ pc' = [pc EXCEPT ![t] = "select"] /\ pc[t] = "read" /\ forceExit = 0
        /\ counter[t] - 1 \in Nat
        /\ counter' = [counter EXCEPT ![t] = counter[t] - 1]
    BY <1>7 DEF BeginSelect
  <2>2. Shape(t, "select", counter[t] - 1) /\ "select" \in ThreadPlaces
    BY <2>1
  <2>3. main' = main
    BY <1>7 DEF BeginSelect
  <2>. HIDE DEF Shape, ThreadPlaces
  <2>. QED
    BY <2>1, <2>2, <2>3
<1>8. CASE GetLine(t) \/ GetEof(t)
  BY <1>8 DEF GetLine, GetEof, ReadNext, StopReading
<1>9. CASE Poll(t)
  <2>1. CASE child[t] = "zombie"
    BY <1>1, <1>9, <2>1 DEF Poll
  <2>2. CASE child[t] # "zombie"
    <3>1. /\ pc' = [pc EXCEPT ![t] = pc[t]] /\ pc[t] \in {"reap", "reap2"}
          /\ counter[t] > 0 /\ counter[t] - 1 \in Nat
          /\ counter' = [counter EXCEPT ![t] = counter[t] - 1]
      BY <1>9, <2>2 DEF Poll
    <3>. QED
      BY <1>9, <3>1 DEF Poll
  <2>. QED
    BY <2>1, <2>2
<1>10. CASE SendTerm(t)
  BY <1>10 DEF SendTerm
<1>11. CASE SendKill(t) \/ ReapKilled(t) \/ ReapInterrupted(t)
  BY <1>1, <1>11 DEF SendKill, ReapKilled, ReapInterrupted
<1>12. CASE LockForExit(t) \/ CountDown(t) \/ PostThreadsLock(t) \/ UnlockAndEnd(t)
  BY <1>1, <1>12 DEF LockForExit, CountDown, PostThreadsLock, UnlockAndEnd
<1>. QED
  BY <1>2, <1>3, <1>4, <1>5, <1>6, <1>7, <1>8, <1>9, <1>10, <1>11, <1>12
     DEF Control

\* Counting sets of threads.
LEMMA ThreadSets ==
  ASSUME NEW E \in SUBSET Threads
  PROVE  /\ Cardinality(E) \in Nat /\ Cardinality(Threads) \in Nat
         /\ Cardinality(E) <= Cardinality(Threads)
         /\ E # {} => Cardinality(E) > 0
         /\ \A t \in E : Cardinality(E \ {t}) = Cardinality(E) - 1
<1>1. IsFiniteSet(Threads) /\ IsFiniteSet(E)
  BY ActionAssumption, FS_Subset DEF ActionAssumption
<1>2. /\ Cardinality(E) \in Nat /\ Cardinality(Threads) \in Nat
      /\ Cardinality(E) <= Cardinality(Threads)
  BY <1>1, FS_Subset, FS_CardinalityType
<1>3. E # {} => Cardinality(E) > 0
  BY <1>1, <1>2, FS_EmptySet
<1>4. \A t \in E : Cardinality(E \ {t}) = Cardinality(E) - 1
  BY <1>1, FS_RemoveElement
<1>. QED
  BY <1>2, <1>3, <1>4

\* While shutdown is forced, the token is there or somebody passes it on.
LEMMA TokenOrPassing ==
  ASSUME IInv, main = "timed2"
  PROVE  forceExit = 0 <=> Passing # {}
<1>1. forceExit + Cardinality(Passing) = 1 /\ forceExit \in {0, 1}
  BY DEF IInv, ForceExitKept, TypeOK
<1>2. Cardinality(Passing) \in Nat /\ (Passing # {} => Cardinality(Passing) > 0)
      /\ (Passing = {} => Cardinality(Passing) = 0)
  <2>1. Passing \in SUBSET Threads
    BY DEF Passing
  <2>. QED
    BY <2>1, ThreadSets, FS_EmptySet
<1>. QED
  BY <1>1, <1>2

\* A step of a thread does not put off its end, nor that of others.
LEMMA ControlInTime ==
  ASSUME IInv, clock, TimedInv, NEW t \in Threads,
         Control(t), Awake(t), clock' = clock, elapsed' = elapsed,
         asleep' = IF FallsAsleep(t) THEN asleep \cup {t} ELSE asleep \ {t}
  PROVE  TimedInv'
<1>. DEFINE N == Cardinality(Threads)
<1>. /\ pc \in [Threads -> ThreadPlaces] /\ counter \in [Threads -> Nat]
     /\ PipeWait \in Nat /\ TermWait \in Nat /\ elapsed \in Nat /\ N \in Nat
  BY ActionAssumption, ThreadSets DEF IInv, TypeOK, TimedInv, ActionAssumption
<1>1. PICK p \in ThreadPlaces, c \in Nat : Shape(t, p, c)
  BY ControlShape DEF IInv
<1>2. main' = main
  BY ControlShape DEF IInv
<1>. HIDE DEF N
<1>3. /\ pc' = [pc EXCEPT ![t] = p] /\ counter' = [counter EXCEPT ![t] = c]
      /\ pc'[t] = p /\ counter'[t] = c
      /\ \A u \in Threads \ {t} : pc'[u] = pc[u] /\ counter'[u] = counter[u]
  BY <1>1 DEF Shape
<1>4. /\ \A u \in Threads \ {t} : u \in asleep' <=> u \in asleep
      /\ t \in asleep' <=> \/ p = "select"
                           \/ pc[t] \in {"reap", "reap2"} /\ p = pc[t]
  <2>1. pc' = pc <=> p = pc[t]
    BY <1>3
  <2>. QED
    BY <1>3, <2>1 DEF FallsAsleep
<1>5. t \notin asleep \/ pc[t] = "select"
  BY DEF Awake
<1>6. \A u \in asleep' : u \in Threads /\ pc'[u] \in {"select", "reap", "reap2"}
  <2>1. \A u \in asleep : u \in Threads /\ pc[u] \in {"select", "reap", "reap2"}
    BY DEF TimedInv
  <2>2. \A u \in asleep' : u \in Threads
    BY <2>1
  <2>. QED
    BY <1>3, <1>4, <2>1, <2>2
<1>7. /\ \A u \in Threads \ {t} : Left(u)' = Left(u)
      /\ pc[t] \in LatePlaces => Left(t)' <= Left(t)
      /\ Left(t)' <= PipeWait + TermWait
  <2>1. \A u \in Threads : Left(u) <= PipeWait + TermWait
    BY DEF TimedInv
  <2>2. \A u \in Threads \ {t} : Left(u)' = Left(u)
    BY <1>3, <1>4 DEF Left, Sleeps
  <2>3. Left(t)' = IF p = "reap" THEN c + TermWait + (IF pc[t] = "reap" THEN 1 ELSE 0)
                   ELSE IF p = "reap2" THEN c + (IF pc[t] = "reap2" THEN 1 ELSE 0)
                   ELSE 0
    BY <1>3, <1>4 DEF Left, Sleeps
  <2>4. Left(t) = IF pc[t] = "reap" THEN counter[t] + TermWait
                  ELSE IF pc[t] = "reap2" THEN counter[t] ELSE 0
    BY <1>5 DEF Left, Sleeps
  <2>5. /\ pc[t] \in LatePlaces => Left(t)' <= Left(t)
        /\ Left(t)' <= PipeWait + TermWait
    BY <1>1, <2>1, <2>3, <2>4 DEF Shape, EarlyPlaces, LatePlaces, Reading
  <2>. QED
    BY <2>2, <2>5
<1>8. ASSUME main = "timed2"
      PROVE  InTime'
  <2>. DEFINE E == Early
  <2>1. /\ E \in SUBSET Threads /\ Cardinality(E) \in Nat /\ Cardinality(E) <= N
        /\ E # {} => Cardinality(E) > 0
        /\ \A u \in E : Cardinality(E \ {u}) = Cardinality(E) - 1
    <3>1. E \in SUBSET Threads
      BY DEF Early
    <3>. QED
      BY <3>1, ThreadSets DEF N
  <2>2. /\ E # {} => elapsed + Cardinality(E) <= N + 1
        /\ elapsed # 0 /\ (Passing # {} \/ E \cap asleep # {})
             => elapsed + Cardinality(E) <= N
        /\ \A u \in Threads : pc[u] \in LatePlaces
             => elapsed + Left(u) <= N + PipeWait + TermWait
    BY <1>8 DEF TimedInv, InTime, N
  <2>3. /\ t \in E <=> pc[t] \in EarlyPlaces
        /\ Early' = IF p \in EarlyPlaces THEN E \cup {t} ELSE E \ {t}
    BY <1>3 DEF Early
  <2>4. Passing' = IF p = "pass" THEN Passing \cup {t} ELSE Passing \ {t}
    BY <1>3 DEF Passing
  <2>5. forceExit = 0 <=> Passing # {}
    BY <1>8, TokenOrPassing
  <2>6. \A u \in Threads \ {t} : pc'[u] \in LatePlaces
          => elapsed + Left(u)' <= N + PipeWait + TermWait
    BY <1>3, <1>7, <2>2
  <2>7. pc[t] \in LatePlaces
          => elapsed + Left(t)' <= N + PipeWait + TermWait
    <3>1. Left(t) \in Nat /\ Left(t)' \in Nat
      BY <1>3 DEF Left, Sleeps
    <3>. QED
      BY <1>7, <2>2, <3>1
  <2>. HIDE DEF E
  <2>8. CASE pc[t] \in EarlyPlaces /\ p \in EarlyPlaces
    <3>1. Early' = E /\ Passing' = Passing /\ p \notin {"pass"} \cup LatePlaces
      BY <2>3, <2>4, <2>8 DEF EarlyPlaces, LatePlaces, Reading, Passing
    <3>2. t \in asleep' => Passing # {}
      BY <1>1, <1>4, <2>5, <2>8 DEF Shape, EarlyPlaces, Reading
    <3>3. E \cap asleep' # {} => Passing # {} \/ E \cap asleep # {}
      <4>1. \A u \in E \ {t} : u \in asleep' <=> u \in asleep
        BY <1>4, <2>1
      <4>. QED
        BY <3>2, <4>1
    <3>. QED
      BY <1>3, <2>2, <2>6, <3>1, <3>3 DEF InTime, N
  <2>9. CASE pc[t] \in EarlyPlaces /\ p \notin EarlyPlaces
    <3>1. Early' = E \ {t} /\ t \in E
      BY <2>3, <2>9
    <3>2. Cardinality(Early') = Cardinality(E) - 1 /\ elapsed + Cardinality(E) <= N + 1
          /\ Cardinality(E) > 0
      BY <2>1, <2>2, <3>1
    <3>3. elapsed + Cardinality(Early') <= N /\ elapsed <= N
      BY <2>1, <3>2
    <3>4. Left(t)' \in Nat
      BY <1>3 DEF Left, Sleeps
    <3>5. elapsed + Left(t)' <= N + PipeWait + TermWait
      BY <1>7, <3>3, <3>4
    <3>6. elapsed + Cardinality(Early') <= N + 1
      BY <2>1, <3>2
    <3>. QED
      BY <1>3, <2>6, <3>3, <3>5, <3>6 DEF InTime, N
  <2>10. CASE pc[t] \notin EarlyPlaces
    <3>1. p \notin EarlyPlaces \cup {"pass"}
      BY <1>1, <2>10 DEF Shape, EarlyPlaces, Reading
    <3>2. Early' = E /\ Passing' \subseteq Passing /\ t \notin E
      BY <2>3, <2>4, <2>10, <3>1
    <3>3. E \cap asleep' = E \cap asleep
      BY <1>4, <2>1, <3>2
    <3>4. p \in LatePlaces => elapsed + Left(t)' <= N + PipeWait + TermWait
      <4>1. CASE pc[t] = "pass"
        <5>1. elapsed <= N
          <6>1. Passing # {}
            BY <4>1 DEF Passing
          <6>. QED
            BY <2>1, <2>2, <6>1
        <5>2. Left(t)' \in Nat
          BY <1>3 DEF Left, Sleeps
        <5>. QED
          BY <1>7, <5>1, <5>2
      <4>2. CASE pc[t] # "pass" /\ p \in LatePlaces
        <5>1. pc[t] \in LatePlaces
          BY <1>1, <2>10, <4>2 DEF Shape, LatePlaces
        <5>. QED
          BY <2>7, <4>2, <5>1
      <4>. QED
        BY <4>1, <4>2
    <3>. QED
      BY <1>3, <2>2, <2>6, <3>2, <3>3, <3>4 DEF InTime, N
  <2>. QED
    BY <2>8, <2>9, <2>10
<1>9. \A u \in Threads : Left(u)' <= PipeWait + TermWait
  BY <1>7 DEF TimedInv
<1>10. main = "timed2" => InTime'
  BY <1>8
<1>. QED
  BY <1>2, <1>6, <1>9, <1>10 DEF TimedInv

\* A second goes by only when everybody sleeps.
LEMMA TickInTime ==
  ASSUME IInv, clock, TimedInv, Tick
  PROVE  TimedInv'
<1>. DEFINE N == Cardinality(Threads)
<1>. /\ pc \in [Threads -> ThreadPlaces] /\ counter \in [Threads -> Nat]
     /\ PipeWait \in Nat /\ TermWait \in Nat /\ elapsed \in Nat /\ N \in Nat
  BY ActionAssumption, ThreadSets DEF IInv, TypeOK, TimedInv, ActionAssumption
<1>1. /\ asleep' = {} /\ clock' = clock /\ UNCHANGED <<pc, counter, main>>
      /\ main # "timed2" => elapsed' = elapsed
      /\ elapsed' \in {elapsed, elapsed + 1}
      /\ Running /\ ~Urgent
  BY DEF Tick, vars
<1>2. ASSUME NEW u \in Threads
      PROVE  Left(u)' = IF pc[u] \in {"reap", "reap2"} THEN Left(u) - Sleeps(u) ELSE 0
  <2>1. Left(u)' = IF pc[u] = "reap" THEN counter[u] + TermWait
                   ELSE IF pc[u] = "reap2" THEN counter[u] ELSE 0
    BY <1>1 DEF Left, Sleeps
  <2>2. counter[u] \in Nat /\ Sleeps(u) \in {0, 1}
    BY DEF Sleeps
  <2>. QED
    BY <2>1, <2>2 DEF Left
<1>3. ASSUME NEW u \in Threads
      PROVE  Left(u)' <= PipeWait + TermWait
  <2>1. Left(u) <= PipeWait + TermWait /\ Left(u) \in Nat /\ Sleeps(u) \in Nat
    BY DEF TimedInv, Left, Sleeps
  <2>. QED
    BY <1>2, <2>1
<1>4. ASSUME main = "timed2"
      PROVE  InTime'
  <2>. HIDE DEF N
  <2>1. Early' = Early /\ Passing' = Passing
    BY <1>1 DEF Early, Passing
  <2>2. \A u \in Threads : pc[u] \in UsingConfig => ~Awake(u)
    BY <1>1 DEF Urgent, UsingConfig, Reading
  <2>3. /\ \A u \in Threads : pc[u] \in UsingConfig
             => u \in asleep /\ pc[u] \in {"select", "reap", "reap2"}
        /\ \A u \in Threads : pc[u] \notin {"reap3", "finish", "dec"}
    <3>1. \A u \in Threads : pc[u] \notin {"select", "reap", "reap2"} => u \notin asleep
      BY DEF TimedInv
    <3>2. \A u \in Threads : pc[u] \notin {"dec", "post", "unlock"}
      BY <1>1, <3>1 DEF Urgent, Awake
    <3>3. numThreadsLock = Nobody
      BY <1>4, <3>2 DEF IInv, TypeOK, LockHeld
    <3>4. \A u \in Threads : pc[u] # "finish"
      BY <1>1, <3>1, <3>3 DEF Urgent, Awake
    <3>. QED
      BY <2>2, <3>1, <3>2, <3>4 DEF Awake, UsingConfig
  <2>4. Early \subseteq asleep /\ Passing = {} /\ Early \in SUBSET Threads
    BY <2>3 DEF Early, EarlyPlaces, Reading, UsingConfig, Passing
  <2>5. /\ Early # {} => elapsed + Cardinality(Early) <= N
        /\ Cardinality(Early) \in Nat
    <3>1. Cardinality(Early) \in Nat /\ Cardinality(Early) <= N
      BY <2>4, ThreadSets DEF N
    <3>2. Early # {} /\ elapsed # 0 => elapsed + Cardinality(Early) <= N
      BY <1>4, <2>4 DEF TimedInv, InTime, N
    <3>. QED
      BY <3>1, <3>2
  <2>6. Early' # {} => elapsed' + Cardinality(Early') <= N + 1
    BY <1>1, <2>1, <2>5
  <2>7. ~(Passing' # {} \/ Early' \cap asleep' # {})
    BY <1>1, <2>1, <2>4
  <2>8. ASSUME NEW u \in Threads, pc[u] \in LatePlaces
        PROVE  elapsed' + Left(u)' <= N + PipeWait + TermWait
    <3>1. u \in asleep /\ pc[u] \in {"reap", "reap2"}
      BY <2>3, <2>8 DEF UsingConfig, LatePlaces
    <3>2. elapsed + Left(u) <= N + PipeWait + TermWait
      BY <1>4, <2>8 DEF TimedInv, InTime, N
    <3>3. Sleeps(u) = 1 /\ Left(u) \in Nat
      BY <3>1 DEF Sleeps, Left
    <3>. QED
      BY <1>1, <1>2, <3>1, <3>2, <3>3
  <2>. QED
    BY <1>1, <2>6, <2>7, <2>8 DEF InTime, N
<1>5. main' = "timed2" => InTime'
  BY <1>1, <1>4
<1>6. elapsed' \in Nat
  BY <1>1
<1>7. main \in Watching \cup {"pending", "timed1"} => main # "timed2"
  BY DEF Watching
<1>. QED
  BY <1>1, <1>3, <1>5, <1>6, <1>7 DEF TimedInv

\* The other steps change nothing while shutdown is forced, or force it.
LEMMA OthersInTime ==
  ASSUME IInv, clock, TimedInv, UNCHANGED <<clock, asleep, elapsed>>,
         \/ \E t \in Threads : Launch(t) \/ Command(t)
         \/ LockForLaunch \/ UnlockAfterLaunch \/ Shutdown \/ Terminated
         \/ UNCHANGED vars
  PROVE  TimedInv'
<1>. /\ pc \in [Threads -> ThreadPlaces] /\ counter \in [Threads -> Nat]
     /\ PipeWait \in Nat /\ TermWait \in Nat /\ elapsed \in Nat
  BY ActionAssumption DEF IInv, TypeOK, TimedInv, ActionAssumption
<1>1. CASE \E t \in Threads : Launch(t)
  <2>1. PICK t \in Threads : Launch(t)
    BY <1>1
  <2>2. PICK p \in {"args", "counted", "start", "refused"} :
          /\ pc[t] \in {"unused", "args", "counted"}
          /\ pc' = [pc EXCEPT ![t] = p] /\ counter' = counter
          /\ main \in Watching /\ main' \in Watching
    BY <2>1 DEF Launch, MatchLine, CountThread, CreateThread, CreateFails,
       MainGoes, Goto, Watching
  <2>3. \A u \in asleep' : u \in Threads /\ pc'[u] \in {"select", "reap", "reap2"}
    BY <2>2 DEF TimedInv
  <2>4. \A u \in Threads : Left(u)' <= PipeWait + TermWait
    <3>1. \A u \in Threads \ {t} : Left(u)' = Left(u)
      BY <2>2 DEF Left, Sleeps
    <3>2. Left(t)' = 0
      BY <2>2 DEF Left
    <3>. QED
      BY <3>1, <3>2 DEF TimedInv
  <2>. QED
    BY <2>2, <2>3, <2>4 DEF TimedInv, Watching
<1>2. ASSUME UNCHANGED <<pc, counter>>,
             main' = "timed2" => main \in {"timed1", "timed2"},
             main' \in Watching \cup {"pending", "timed1"}
               => main \in Watching \cup {"pending", "timed1"}
      PROVE  TimedInv'
  <2>1. Early' = Early /\ Passing' = Passing /\ \A u \in Threads : Left(u)' = Left(u)
    BY <1>2 DEF Early, Passing, Left, Sleeps
  <2>2. CASE main = "timed2"
    BY <1>2, <2>1, <2>2 DEF TimedInv, InTime
  <2>3. CASE main = "timed1"
    <3>1. elapsed = 0 /\ elapsed' = 0
      BY <2>3 DEF TimedInv
    <3>2. Cardinality(Early) \in Nat /\ Cardinality(Threads) \in Nat
          /\ Cardinality(Early) <= Cardinality(Threads)
      <4>1. Early \in SUBSET Threads
        BY DEF Early
      <4>. QED
        BY <4>1, ThreadSets
    <3>3. \A u \in Threads : Left(u) <= PipeWait + TermWait /\ Left(u) \in Nat
      BY DEF TimedInv, Left, Sleeps
    <3>4. InTime'
      BY <2>1, <3>1, <3>2, <3>3 DEF InTime
    <3>. QED
      BY <1>2, <2>1, <3>1, <3>4 DEF TimedInv
  <2>4. CASE main \notin {"timed1", "timed2"}
    <3>1. main' # "timed2"
      BY <1>2, <2>4
    <3>. QED
      BY <1>2, <2>1, <3>1 DEF TimedInv
  <2>. QED
    BY <2>2, <2>3, <2>4
<1>3. CASE (\E t \in Threads : Command(t)) \/ LockForLaunch \/ UnlockAfterLaunch
           \/ Terminated \/ UNCHANGED vars
  BY <1>2, <1>3 DEF Command, Exec, ExecFails, Write, Exit, CloseAll, LockForLaunch,
     UnlockAfterLaunch, Terminated, MainGoes, Watching, vars, mainVars
<1>4. CASE Shutdown
  BY <1>2, <1>4 DEF Shutdown, StopWatching, WaitSucceeds, MustWait, ForceExit,
     GiveUp, ConfigDone, ProcessEnds, MainGoes, Return, Watching, Waiting
<1>. QED
  BY <1>1, <1>3, <1>4

\* Every step of Timing is one of Action, or takes a second.
LEMMA TimedStep ==
  ASSUME [TimedNext]_timingVars
  PROVE  [Next]_vars /\ clock' = clock
BY DEF TimedNext, TimedControl, Tick, Next, timingVars

\* The deadlines hold on.
LEMMA TimedInvStep ==
  ASSUME IInv, TimedInv, [TimedNext]_timingVars
  PROVE  TimedInv'
<1>1. CASE ~clock
  <2>1. elapsed' = elapsed /\ clock' = clock
    BY <1>1, TimedStep DEF TimedNext, TimedControl, Tick, timingVars
  <2>. QED
    BY <1>1, <2>1 DEF TimedInv
<1>2. CASE clock
  <2>1. CASE \E t \in Threads : TimedControl(t)
    BY <1>2, <2>1, ControlInTime DEF TimedControl
  <2>2. CASE Tick
    BY <1>2, <2>2, TickInTime
  <2>3. CASE UNCHANGED timingVars
    BY <1>2, <2>3, OthersInTime DEF timingVars
  <2>. QED
    BY <1>2, <2>1, <2>2, <2>3, OthersInTime DEF TimedNext
<1>. QED
  BY <1>1, <1>2

\* With a clock, Action is the same, and the deadlines hold in every reachable
\* state.
THEOREM TimedInvariance == TimedSpec => [](IInv /\ TimedInv)
<1>1. TimedInit => IInv /\ TimedInv
  <2>. SUFFICES ASSUME TimedInit PROVE IInv /\ TimedInv
    OBVIOUS
  <2>1. IInv
    BY IInvInit DEF TimedInit
  <2>2. \A t \in Threads : Left(t) = 0
    BY DEF TimedInit, Init, Left
  <2>. QED
    BY <2>1, <2>2, ActionAssumption
       DEF TimedInit, Init, TimedInv, Watching, ActionAssumption
<1>2. ASSUME IInv, TimedInv, [TimedNext]_timingVars
      PROVE  IInv' /\ TimedInv'
  BY <1>2, TimedStep, IInvStep, TimedInvStep
<1>. QED
  BY <1>1, <1>2, PTL DEF TimedSpec

\* However many threads there are, and whatever the timeouts, all of them end
\* within the two waits for a command and a second for each thread.
THEOREM ThreadsEndInTime == TimedSpec => []EndedInTime
<1>1. ASSUME IInv, TimedInv PROVE EndedInTime
  <2>. SUFFICES ASSUME main = "timed2", NEW t \in Counted,
                       elapsed > PipeWait + TermWait + Cardinality(Threads)
                PROVE  FALSE
    BY DEF EndedInTime
  <2>. /\ PipeWait \in Nat /\ TermWait \in Nat /\ elapsed \in Nat
       /\ Cardinality(Threads) \in Nat /\ t \in Threads
       /\ counter \in [Threads -> Nat]
    BY <1>1, ActionAssumption, ThreadSets
       DEF IInv, TypeOK, TimedInv, ActionAssumption, Counted
  <2>1. clock /\ InTime /\ elapsed # 0
    BY <1>1 DEF TimedInv
  <2>2. CASE t \in Early
    <3>1. Cardinality(Early) \in Nat /\ Cardinality(Early) > 0
      <4>1. Early \in SUBSET Threads
        BY DEF Early
      <4>. QED
        BY <2>2, <4>1, ThreadSets
    <3>. QED
      BY <2>1, <2>2, <3>1 DEF InTime
  <2>3. CASE t \in Passing
    <3>1. Cardinality(Early) \in Nat
      <4>1. Early \in SUBSET Threads
        BY DEF Early
      <4>. QED
        BY <4>1, ThreadSets
    <3>. QED
      BY <2>1, <2>3, <3>1 DEF InTime
  <2>4. CASE pc[t] \in LatePlaces
    <3>1. Left(t) \in Nat
      BY DEF Left, Sleeps
    <3>. QED
      BY <2>1, <2>4, <3>1 DEF InTime
  <2>5. CASE pc[t] = "counted"
    BY <1>1, <2>5 DEF IInv, OneLaunch
  <2>. QED
    BY <2>2, <2>3, <2>4, <2>5
       DEF Early, Passing, Counted, CountedPlaces, UsingConfig, EarlyPlaces,
           LatePlaces
<1>. QED
  BY <1>1, TimedInvariance, PTL

=============================================================================
