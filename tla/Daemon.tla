------------------------------- MODULE Daemon -------------------------------
(***************************************************************************)
(* src/src/daemon.c: Daemon_daemonize, as far as the pidfile goes.  Each   *)
(* started llad is a process that looks for a running instance, forks, and *)
(* writes the pid of the child into the pidfile; the child becomes the     *)
(* daemon, and removes the pidfile when its main routine has returned.     *)
(*                                                                         *)
(* The pidfile is a name in a directory (entry) and the files that had the *)
(* name one after the other: a process that has one open goes on writing   *)
(* to it when the name is gone.  A member of Instances stands for one      *)
(* start of llad and for the pid of the child it forks.                    *)
(***************************************************************************)
EXTENDS Naturals, FiniteSets

CONSTANTS
  Instances,    \* the starts of llad there may be
  OldPid,       \* a pid from before, or from before the last boot
  NoPid         \* what an empty pidfile holds

ASSUME DaemonAssumption ==
  /\ IsFiniteSet(Instances)
  /\ OldPid \notin Instances /\ NoPid \notin Instances /\ OldPid # NoPid

VARIABLES
  parent,    \* where the process that was started is
  child,     \* where the process it forked is
  pid,       \* the pid it read from the pidfile
  pf,        \* the file it opened for writing, or NoFile
  entry,     \* the file that has the name of the pidfile, or NoFile
  text,      \* what each file holds
  files,     \* number of files so far
  recycled,  \* the pids other processes use by now
  orderly    \* history: so far no start began before the previous one had
             \* returned, and none was killed

pidfile == <<entry, text, files>>
others  == <<recycled, orderly>>
vars    == <<parent, child, pid, pf, entry, text, files, recycled, orderly>>

NoFile == 0
Pids   == Instances \cup {OldPid}

\* In the order of the code, and the ways it ends.
Starting     == {"check", "probe", "remove", "open", "fork", "write"}
ParentPlaces == {"none", "done", "refused", "failed", "killed"} \cup Starting

\* The child exists: setting itself up, in its main routine, done with it.
Living      == {"setup", "run", "cleanup"}
ChildPlaces == {"none", "stopped", "failed", "killed"} \cup Living

\* kill(pid, 0) finds a process; one that ended stays a zombie as long as the
\* process that forked it is there.
Exists(p) ==
  \/ p \in recycled
  \/ /\ p \in Instances
     /\ child[p] # "none"
     /\ child[p] \in Living \/ parent[p] \in Starting

\* A pidfile may have been left behind, empty or naming a process that is
\* gone by now.
Init ==
  /\ parent = [i \in Instances |-> "none"]
  /\ child = [i \in Instances |-> "none"]
  /\ pid = [i \in Instances |-> NoPid]
  /\ pf = [i \in Instances |-> NoFile]
  /\ files = 1
  /\ entry \in {NoFile, 1}
  /\ \E p \in {NoPid, OldPid} : text = [f \in {1} |-> p]
  /\ recycled = {}
  /\ orderly = TRUE

ParentGoes(i, from, to) ==
  parent[i] = from /\ parent' = [parent EXCEPT ![i] = to]

ChildGoes(i, from, to) ==
  child[i] = from /\ child' = [child EXCEPT ![i] = to]

-----------------------------------------------------------------------------
(* The started process.                                                    *)

Start(i) ==
  /\ ParentGoes(i, "none", "check")
  /\ orderly' = (orderly /\ \A j \in Instances : parent[j] \notin Starting)
  /\ UNCHANGED <<child, pid, pf, pidfile, recycled>>

\* Faulty variant for TLC: only an existing pidfile is opened for writing.
NoPidfileForks(i) ==
  /\ entry = NoFile
  /\ ParentGoes(i, "check", "fork")
  /\ UNCHANGED <<child, pid, pf, pidfile, others>>

\* There is no pidfile ...
NoPidfile(i) ==
  /\ entry = NoFile
  /\ ParentGoes(i, "check", "open")
  /\ UNCHANGED <<child, pid, pf, pidfile, others>>

\* ... or there is one, and what it says is read.
ReadPid(i) ==
  /\ entry # NoFile
  /\ ParentGoes(i, "check", "probe")
  /\ pid' = [pid EXCEPT ![i] = text[entry]]
  /\ UNCHANGED <<child, pf, pidfile, others>>

\* Faulty variant for TLC: whoever is named in the pidfile, it is stale.
ProbeNobody(i) ==
  /\ ParentGoes(i, "probe", "remove")
  /\ UNCHANGED <<child, pid, pf, pidfile, others>>

\* Faulty variant for TLC: a refused start tidies up on its way out.
ProbeTidying(i) ==
  /\ ParentGoes(i, "probe", IF Exists(pid[i]) THEN "refused" ELSE "remove")
  /\ entry' = IF Exists(pid[i]) THEN NoFile ELSE entry
  /\ UNCHANGED <<child, pid, pf, text, files, others>>

\* No pid readable or no process running with this pid: a stale pidfile.
\* Otherwise found running instance, exit.
Probe(i) ==
  /\ ParentGoes(i, "probe", IF Exists(pid[i]) THEN "refused" ELSE "remove")
  /\ UNCHANGED <<child, pid, pf, pidfile, others>>

\* unlink() fails when the name has gone in the meantime.
RemoveStale(i) ==
  /\ ParentGoes(i, "remove", IF entry = NoFile THEN "failed" ELSE "open")
  /\ entry' = NoFile
  /\ UNCHANGED <<child, pid, pf, text, files, others>>

\* fopen(pfn, "w"): a new file, or the present one emptied.
OpenPidfile(i) ==
  /\ ParentGoes(i, "open", "fork")
  /\ IF entry = NoFile
     THEN /\ files' = files + 1
          /\ entry' = files'
          /\ text' = [f \in 1..files' |-> IF f = files' THEN NoPid ELSE text[f]]
     ELSE /\ text' = [text EXCEPT ![entry] = NoPid]
          /\ UNCHANGED <<files, entry>>
  /\ pf' = [pf EXCEPT ![i] = entry']
  /\ UNCHANGED <<child, pid, others>>

OpenFails(i) ==
  /\ ParentGoes(i, "open", "failed")
  /\ UNCHANGED <<child, pid, pf, pidfile, others>>

Fork(i) ==
  /\ ParentGoes(i, "fork", "write")
  /\ ChildGoes(i, "none", "setup")
  /\ UNCHANGED <<pid, pf, pidfile, others>>

\* The empty pidfile stays behind.
ForkFails(i) ==
  /\ ParentGoes(i, "fork", "failed")
  /\ UNCHANGED <<child, pid, pf, pidfile, others>>

\* Faulty variant for TLC: the pid is written to whatever has the name.
WritePidByName(i) ==
  /\ ParentGoes(i, "write", "done")
  /\ IF entry = NoFile
     THEN /\ files' = files + 1
          /\ entry' = files'
          /\ text' = [f \in 1..files' |-> IF f = files' THEN i ELSE text[f]]
     ELSE /\ text' = [text EXCEPT ![entry] = i]
          /\ UNCHANGED <<files, entry>>
  /\ UNCHANGED <<child, pid, pf, others>>

\* fprintf() and fclose(): the pid gets into the file that was opened.
WritePid(i) ==
  /\ ParentGoes(i, "write", "done")
  /\ text' = [text EXCEPT ![pf[i]] = i]
  /\ UNCHANGED <<child, pid, pf, entry, files, others>>

\* Ctrl-C, for instance.
Interrupt(i) ==
  /\ parent[i] \in Starting
  /\ parent' = [parent EXCEPT ![i] = "killed"]
  /\ orderly' = FALSE
  /\ UNCHANGED <<child, pid, pf, pidfile, recycled>>

-----------------------------------------------------------------------------
(* The forked process.                                                     *)

\* Session leader, working directory, signals: ready for the main routine.
Daemonize(i) ==
  /\ ChildGoes(i, "setup", "run")
  /\ UNCHANGED <<parent, pid, pf, pidfile, others>>

\* setsid() or chdir() failed.
DaemonizeFails(i) ==
  /\ ChildGoes(i, "setup", "failed")
  /\ UNCHANGED <<parent, pid, pf, pidfile, others>>

\* daemon_main returns, at once if there is nothing to watch.
MainReturns(i) ==
  /\ ChildGoes(i, "run", "cleanup")
  /\ UNCHANGED <<parent, pid, pf, pidfile, others>>

\* On exit, remove the pidfile: whichever file has its name.
RemovePidfile(i) ==
  /\ ChildGoes(i, "cleanup", "stopped")
  /\ entry' = NoFile
  /\ UNCHANGED <<parent, pid, pf, text, files, others>>

\* SIGKILL, or a crash.
Kill(i) ==
  /\ child[i] \in Living
  /\ child' = [child EXCEPT ![i] = "killed"]
  /\ UNCHANGED <<parent, pid, pf, pidfile, others>>

\* Another process gets a pid that is free.
Recycle(p) ==
  /\ ~Exists(p)
  /\ p \in Instances => child[p] # "none"
  /\ recycled' = recycled \cup {p}
  /\ UNCHANGED <<parent, child, pid, pf, pidfile, orderly>>

\* No start is left, and nothing remains to happen.
Quiet ==
  /\ \A i \in Instances : parent[i] \notin Starting \cup {"none"}
  /\ UNCHANGED vars

-----------------------------------------------------------------------------
Parent(i) ==
  \/ Start(i) \/ NoPidfile(i) \/ ReadPid(i) \/ Probe(i) \/ RemoveStale(i)
  \/ OpenPidfile(i) \/ OpenFails(i) \/ Fork(i) \/ ForkFails(i) \/ WritePid(i)
  \/ Interrupt(i)

Child(i) ==
  \/ Daemonize(i) \/ DaemonizeFails(i) \/ MainReturns(i) \/ RemovePidfile(i)
  \/ Kill(i)

Next ==
  \/ \E i \in Instances : Parent(i) \/ Child(i)
  \/ \E p \in Pids : Recycle(p)
  \/ Quiet

Spec == Init /\ [][Next]_vars

-----------------------------------------------------------------------------
(* Properties.                                                             *)

\* The variables stay in their ranges; a process writes only after it opened
\* the pidfile, and only then is there a child.
TypeOK ==
  /\ parent \in [Instances -> ParentPlaces]
  /\ child \in [Instances -> ChildPlaces]
  /\ pid \in [Instances -> Pids \cup {NoPid}]
  /\ files \in Nat \ {0}
  /\ pf \in [Instances -> 0..files]
  /\ entry \in 0..files
  /\ text \in [1..files -> Pids \cup {NoPid}]
  /\ recycled \subseteq Pids
  /\ orderly \in BOOLEAN
  /\ \A i \in Instances :
       /\ parent[i] \in {"fork", "write", "done"} => pf[i] # NoFile
       /\ child[i] # "none" => parent[i] \in {"write", "done", "killed"}

\* daemon.c: "found running instance, exit now": as long as starts are orderly
\* there is never more than one daemon at work.
OneDaemon ==
  orderly =>
  \A i, j \in Instances : child[i] = "run" /\ child[j] = "run" => i = j

\* As long as starts are orderly the pidfile names the daemon at work, so that
\* the init script can stop it: no start that is refused or fails, and no
\* instance that ended before, takes its pidfile away.
RunningIsRecorded ==
  orderly =>
  \A i \in Instances :
    child[i] = "run" /\ parent[i] = "done"
      => entry # NoFile /\ text[entry] = i

\* daemon.c: "on exit, remove pidfile": a daemon that stopped in order is not
\* named in the pidfile, even if it stopped before the process that started
\* it came to write its pid.
StoppedIsForgotten ==
  \A i \in Instances :
    child[i] = "stopped" /\ entry # NoFile => text[entry] # i

\* daemon.c: what is removed as a "stale pidfile" does not belong to a daemon
\* that is there, as long as starts are orderly.  Otherwise it may: between
\* OpenPidfile and WritePid of one start the pidfile looks stale to another.
RemovedIsStale ==
  [][\A i \in Instances :
       orderly /\ RemoveStale(i) =>
         \A j \in Instances : child[j] \in Living => pf[j] # entry]_vars

\* A pid gets only into the file its start opened, by the last step of that
\* start; a daemon that stopped took the name from that file if it had it.
Owned ==
  \A i \in Instances :
    /\ child[i] # "none" => pf[i] # NoFile
    /\ child[i] = "stopped" => entry # pf[i]
    /\ \A f \in 1..files : text[f] = i => pf[i] = f /\ parent[i] = "done"

\* One start after the other: a start that got past its check is alone, so
\* that the pidfile is its own until it has written its pid.
Orderly ==
  /\ \A i, j \in Instances :
       parent[i] \in Starting /\ parent[j] \in Starting => i = j
  /\ \A i \in Instances :
       /\ parent[i] = "probe" /\ entry # NoFile => text[entry] = pid[i]
       /\ parent[i] \in {"remove", "open", "fork", "write"}
            => \A j \in Instances : child[j] \in Living => j = i
       /\ parent[i] = "fork" => entry = pf[i]
       /\ child[i] \in Living /\ parent[i] = "write" => entry = pf[i]
       /\ child[i] \in Living => parent[i] \in {"write", "done"}
       /\ child[i] \in Living /\ parent[i] = "done"
            => entry # NoFile /\ text[entry] = i

\* The inductive invariant that the proofs in DaemonProofs rest on.
IInv == TypeOK /\ Owned /\ (orderly => Orderly)
=============================================================================
