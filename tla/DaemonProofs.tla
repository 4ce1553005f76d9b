---------------------------- MODULE DaemonProofs ----------------------------
(***************************************************************************)
(* Proofs about Daemon, for any number of starts: a daemon that stopped is *)
(* not named in the pidfile, however the starts interleave; and if starts  *)
(* come one after the other and are let finish, there is one daemon at     *)
(* most and the pidfile names it.                                          *)
(***************************************************************************)
EXTENDS Daemon, TLAPS

\* The steps that leave the pidfile, and who may write to it, alone.
LooksAround(i) ==
  \/ Start(i) \/ NoPidfile(i) \/ ReadPid(i) \/ Probe(i) \/ OpenFails(i)
  \/ Fork(i) \/ ForkFails(i) \/ Interrupt(i)
  \/ Daemonize(i) \/ DaemonizeFails(i) \/ MainReturns(i) \/ Kill(i)

\* The variables stay in their ranges.
LEMMA TypeStep ==
  ASSUME TypeOK, [Next]_vars
  PROVE  TypeOK'
<1>. USE DEF TypeOK, Pids, ParentPlaces, ChildPlaces, Starting, Living,
             ParentGoes, ChildGoes, NoFile, pidfile, others
<1>1. ASSUME NEW i \in Instances, LooksAround(i)
      PROVE  TypeOK'
  <2>1. CASE Start(i) \/ NoPidfile(i) \/ Probe(i) \/ OpenFails(i)
    BY <2>1 DEF Start, NoPidfile, Probe, OpenFails
  <2>2. CASE ReadPid(i)
    BY <2>2 DEF ReadPid
  <2>3. CASE Fork(i) \/ ForkFails(i) \/ Interrupt(i)
    BY <2>3 DEF Fork, ForkFails, Interrupt
  <2>4. CASE Daemonize(i) \/ DaemonizeFails(i) \/ MainReturns(i) \/ Kill(i)
    BY <2>4 DEF Daemonize, DaemonizeFails, MainReturns, Kill
  <2>. QED
    BY <1>1, <2>1, <2>2, <2>3, <2>4 DEF LooksAround
<1>2. ASSUME NEW i \in Instances, RemoveStale(i) \/ RemovePidfile(i)
      PROVE  TypeOK'
  <2>1. CASE RemoveStale(i)
    BY <2>1 DEF RemoveStale
  <2>2. CASE RemovePidfile(i)
    BY <2>2 DEF RemovePidfile
  <2>. QED
    BY <1>2, <2>1, <2>2
<1>3. ASSUME NEW i \in Instances, OpenPidfile(i)
      PROVE  TypeOK'
  <2>1. CASE entry = NoFile
    BY <1>3, <2>1 DEF OpenPidfile
  <2>2. CASE entry # NoFile
    BY <1>3, <2>2 DEF OpenPidfile
  <2>. QED
    BY <2>1, <2>2
<1>4. ASSUME NEW i \in Instances, WritePid(i)
      PROVE  TypeOK'
  BY <1>4 DEF WritePid
<1>5. ASSUME NEW p \in Pids, Recycle(p)
      PROVE  TypeOK'
  BY <1>5 DEF Recycle
<1>6. CASE Quiet \/ UNCHANGED vars
  BY <1>6 DEF Quiet, vars
<1>. QED
  BY <1>1, <1>2, <1>3, <1>4, <1>5, <1>6 DEF Next, Parent, Child, LooksAround

-----------------------------------------------------------------------------
(* Whose pid is in which file.                                             *)

\* No step puts a pid into a file that its start did not open, or gives a
\* name back to a file that a stopped daemon took it from.
LEMMA OwnedStep ==
  ASSUME TypeOK, Owned, [Next]_vars
  PROVE  Owned'
<1>. USE DEF TypeOK, Owned, ParentGoes, ChildGoes, NoFile, pidfile, others
<1>1. ASSUME NEW i \in Instances, LooksAround(i)
      PROVE  Owned'
  <2>1. CASE Start(i) \/ NoPidfile(i) \/ ReadPid(i) \/ Probe(i) \/ OpenFails(i)
    BY <2>1 DEF Start, NoPidfile, ReadPid, Probe, OpenFails
  <2>2. CASE Fork(i) \/ ForkFails(i) \/ Interrupt(i)
    BY <2>2 DEF Fork, ForkFails, Interrupt, Starting
  <2>3. CASE Daemonize(i) \/ DaemonizeFails(i) \/ MainReturns(i) \/ Kill(i)
    BY <2>3 DEF Daemonize, DaemonizeFails, MainReturns, Kill, Living
  <2>. QED
    BY <1>1, <2>1, <2>2, <2>3 DEF LooksAround
<1>2. ASSUME NEW i \in Instances, RemoveStale(i) \/ RemovePidfile(i)
      PROVE  Owned'
  BY <1>2 DEF RemoveStale, RemovePidfile
<1>3. ASSUME NEW i \in Instances, OpenPidfile(i)
      PROVE  Owned'
  <2>1. child[i] = "none" /\ child' = child /\ \A f \in 1..files : text[f] # i
    BY <1>3 DEF OpenPidfile
  <2>2. CASE entry = NoFile
    <3>1. \A j \in Instances : pf[j] # files'
      BY <1>3, <2>2 DEF OpenPidfile
    <3>2. \A f \in 1..files' : text'[f] = IF f = files' THEN NoPid ELSE text[f]
      BY <1>3, <2>2 DEF OpenPidfile
    <3>. QED
      BY <1>3, <2>1, <2>2, <3>1, <3>2, DaemonAssumption
         DEF OpenPidfile, DaemonAssumption
  <2>3. CASE entry # NoFile
    BY <1>3, <2>1, <2>3, DaemonAssumption DEF OpenPidfile, DaemonAssumption
  <2>. QED
    BY <2>2, <2>3
<1>4. ASSUME NEW i \in Instances, WritePid(i)
      PROVE  Owned'
  BY <1>4 DEF WritePid
<1>5. ASSUME NEW p \in Pids, Recycle(p)
      PROVE  Owned'
  BY <1>5 DEF Recycle
<1>6. CASE Quiet \/ UNCHANGED vars
  BY <1>6 DEF Quiet, vars
<1>. QED
  BY <1>1, <1>2, <1>3, <1>4, <1>5, <1>6 DEF Next, Parent, Child, LooksAround

-----------------------------------------------------------------------------
(* Orderly starts.                                                         *)

\* What is orderly now was orderly before.
LEMMA StillOrderly ==
  ASSUME NEW i \in Instances, Parent(i) \/ Child(i), orderly'
  PROVE  orderly
BY Zenon
   DEF Parent, Start, NoPidfile, ReadPid, Probe, RemoveStale, OpenPidfile,
       OpenFails, Fork, ForkFails, WritePid, Interrupt,
       Child, Daemonize, DaemonizeFails, MainReturns, RemovePidfile, Kill,
       others

\* The started process keeps order: it goes on to the pidfile only when no
\* daemon is there.
LEMMA ParentOrderly ==
  ASSUME TypeOK, Owned, orderly => Orderly,
         NEW i \in Instances, Parent(i), orderly'
  PROVE  Orderly'
<1>. USE DEF TypeOK, Owned, Orderly, Starting, Living, ParentGoes, ChildGoes,
             NoFile, pidfile, others
<1>. orderly /\ Orderly
  BY StillOrderly
<1>1. CASE Start(i)
  <2>1. \A j \in Instances : parent[j] \notin Starting
    BY <1>1, Zenon DEF Start
  <2>. QED
    BY <1>1, <2>1 DEF Start
<1>2. CASE NoPidfile(i)
  BY <1>2 DEF NoPidfile
<1>3. CASE ReadPid(i)
  BY <1>3 DEF ReadPid
<1>4. CASE Probe(i)
  <2>1. ASSUME NEW j \in Instances, child[j] \in Living
        PROVE  Exists(pid[i])
    <3>1. parent[j] = "done"
      BY <1>4, <2>1 DEF Probe
    <3>2. pid[i] = j
      BY <1>4, <2>1, <3>1 DEF Probe
    <3>. QED
      BY <2>1, <3>2 DEF Exists
  <2>. QED
    BY <1>4, <2>1 DEF Probe
<1>5. CASE RemoveStale(i)
  BY <1>5 DEF RemoveStale
<1>6. CASE OpenPidfile(i)
  <2>1. \A j \in Instances : child[j] \notin Living
    BY <1>6 DEF OpenPidfile
  <2>. QED
    BY <1>6, <2>1 DEF OpenPidfile
<1>7. CASE OpenFails(i) \/ ForkFails(i)
  <2>1. /\ child[i] = "none"
        /\ parent[i] \in {"open", "fork"}
        /\ parent' = [parent EXCEPT ![i] = "failed"]
        /\ UNCHANGED <<child, pid, pf, entry, text>>
    BY <1>7 DEF OpenFails, ForkFails
  <2>. QED
    BY <2>1
<1>8. CASE Fork(i)
  <2>1. \A j \in Instances : child[j] \notin Living
    BY <1>8 DEF Fork
  <2>. QED
    BY <1>8, <2>1 DEF Fork
<1>9. CASE WritePid(i)
  BY <1>9 DEF WritePid
<1>10. CASE Interrupt(i)
  BY <1>10 DEF Interrupt
<1>. QED
  BY <1>1, <1>2, <1>3, <1>4, <1>5, <1>6, <1>7, <1>8, <1>9, <1>10 DEF Parent

\* So does the forked process.
LEMMA ChildOrderly ==
  ASSUME TypeOK, Owned, orderly => Orderly,
         NEW i \in Instances, Child(i), orderly'
  PROVE  Orderly'
<1>. USE DEF TypeOK, Owned, Orderly, Starting, Living, ParentGoes, ChildGoes,
             NoFile, pidfile, others
<1>. orderly /\ Orderly
  BY StillOrderly
<1>1. CASE Daemonize(i) \/ DaemonizeFails(i) \/ MainReturns(i) \/ Kill(i)
  BY <1>1 DEF Daemonize, DaemonizeFails, MainReturns, Kill
<1>2. CASE RemovePidfile(i)
  <2>1. \A j \in Instances : child[j] \in Living => j = i
    BY <1>2 DEF RemovePidfile
  <2>. QED
    BY <1>2, <2>1 DEF RemovePidfile
<1>. QED
  BY <1>1, <1>2 DEF Child

-----------------------------------------------------------------------------
(* The invariant and what follows from it.                                 *)

\* IInv holds in every reachable state.
THEOREM Invariance == Spec => []IInv
<1>1. Init => IInv
  <2>. SUFFICES ASSUME Init PROVE IInv
    OBVIOUS
  <2>. USE DaemonAssumption DEF Init, DaemonAssumption, NoFile
  <2>1. TypeOK
    BY DEF TypeOK, Pids, ParentPlaces, ChildPlaces
  <2>2. Owned
    BY DEF Owned
  <2>3. Orderly
    BY DEF Orderly, Starting, Living
  <2>. QED
    BY <2>1, <2>2, <2>3 DEF IInv
<1>2. IInv /\ [Next]_vars => IInv'
  <2>. SUFFICES ASSUME IInv, [Next]_vars PROVE IInv'
    OBVIOUS
  <2>1. TypeOK' /\ Owned'
    BY TypeStep, OwnedStep DEF IInv
  <2>2. ASSUME orderly' PROVE Orderly'
    <3>1. CASE \E i \in Instances : Parent(i) \/ Child(i)
      BY <2>2, <3>1, ParentOrderly, ChildOrderly DEF IInv
    <3>2. CASE \E p \in Pids : Recycle(p)
      BY <2>2, <3>2 DEF IInv, Orderly, Recycle, pidfile
    <3>3. CASE Quiet \/ UNCHANGED vars
      BY <2>2, <3>3 DEF IInv, Orderly, Quiet, vars
    <3>. QED
      BY <3>1, <3>2, <3>3 DEF Next
  <2>. QED
    BY <2>1, <2>2 DEF IInv
<1>. QED
  BY <1>1, <1>2, PTL DEF Spec

\* The variables stay in their ranges.
THEOREM TypeCorrect == Spec => []TypeOK
<1>1. IInv => TypeOK
  BY DEF IInv
<1>. QED
  BY <1>1, Invariance, PTL

\* A daemon that stopped in order is not named in the pidfile, for any number
\* of starts at the same time, killed at any point, and reused pids.
THEOREM Forgotten == Spec => []StoppedIsForgotten
<1>1. IInv => StoppedIsForgotten
  BY DEF IInv, TypeOK, Owned, StoppedIsForgotten, NoFile
<1>. QED
  BY <1>1, Invariance, PTL

\* As long as starts come one after the other and are let finish there is
\* never more than one daemon at work.
THEOREM OnlyOne == Spec => []OneDaemon
<1>1. IInv => OneDaemon
  BY DEF IInv, TypeOK, Orderly, OneDaemon, Living
<1>. QED
  BY <1>1, Invariance, PTL

\* As long as starts come one after the other and are let finish the pidfile
\* names the daemon that is at work.
THEOREM Recorded == Spec => []RunningIsRecorded
<1>1. IInv => RunningIsRecorded
  BY DEF IInv, Orderly, RunningIsRecorded, Living
<1>. QED
  BY <1>1, Invariance, PTL

\* As long as starts come one after the other and are let finish no pidfile of
\* a daemon that is there is removed as stale.
THEOREM NoneRemoved == Spec => RemovedIsStale
<1>1. IInv /\ [Next]_vars
        => [\A i \in Instances :
              orderly /\ RemoveStale(i) =>
                \A j \in Instances : child[j] \in Living => pf[j] # entry]_vars
  BY DEF IInv, TypeOK, Orderly, RemoveStale, ParentGoes, Living
<1>. QED
  BY <1>1, Invariance, PTL DEF Spec, RemovedIsStale
=============================================================================
