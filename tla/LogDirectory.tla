---------------------------- MODULE LogDirectory ----------------------------
(***************************************************************************)
(* What llad watches, and does not control: a directory of log files,      *)
(* their writers and rotators, and the inotify instance that reports on    *)
(* them, as src/src/watcher.c and src/src/logfile.c rely on them.          *)
(*                                                                         *)
(* Files are numbered in the order they come into being, and so are the    *)
(* lines written after the start; line 0 stands for what was there before. *)
(* Names are those of the watched log files; a file that has no name was   *)
(* deleted or moved out of the way.                                        *)
(***************************************************************************)
EXTENDS Naturals, Sequences

CONSTANTS
  Names,       \* the watched log files, all of one directory
  NoName,      \* an event that carries no name
  Scenarios,   \* what may happen to the files: the kinds of changes, how
               \* many lines are written after the start, how many other
               \* changes there are
  MaxFiles,    \* bound: files that ever exist
  QueueLimit   \* fs.inotify.max_queued_events

AllChanges == {"write", "late", "truncate", "remove", "create", "replace",
               "grant", "revoke", "link", "rename"}

ASSUME LogDirectoryAssumption ==
  /\ NoName \notin Names
  /\ Scenarios \subseteq [changes : SUBSET AllChanges, lines : Nat, most : Nat]
  /\ {MaxFiles, QueueLimit} \subseteq Nat

VARIABLES
  scenario,   \* the one of Scenarios that this behaviour belongs to
  entry,      \* the file each name refers to, or NoFile
  content,    \* the lines of each file
  readable,   \* the files that llad may read
  files,      \* number of files so far
  written,    \* number of lines so far
  changes,    \* number of changes so far
  dirWatched, \* TRUE once inotify watches the directory
  watchOf,    \* the watch descriptor of each file, or NoWatch
  lastWd,     \* the descriptor handed out last: they are not used again
  queue       \* the events inotify has queued

contents  == <<content, files, written>>
inotify   == <<dirWatched, watchOf, lastWd>>
dirVars   == <<scenario, entry, content, readable, files, written, changes, dirWatched,
               watchOf, lastWd, queue>>

NoFile  == 0
NoWatch == 0    \* the code has -1 for an entry that is not watched
DirWd   == 1    \* the directory is always watched first
Files   == 1..MaxFiles

FileEvent(wd)      == [mask |-> "modify", wd |-> wd, name |-> NoName]
DirEvent(mask, n)  == [mask |-> mask, wd |-> DirWd, name |-> n]
Overflow           == [mask |-> "overflow", wd |-> NoWatch, name |-> NoName]

\* The names present at the start each have a file with an old line.
DirInit ==
  /\ scenario \in Scenarios
  /\ files \in 0..MaxFiles
  /\ entry \in [Names -> 0..files]
  /\ \A i \in 1..files : \E n \in Names : entry[n] = i
  /\ \A n, m \in Names : entry[n] = entry[m] /\ entry[n] # NoFile => n = m
  /\ content = [i \in Files |-> IF i <= files THEN <<0>> ELSE <<>>]
  /\ readable = 1..files
  /\ written = 0
  /\ changes = 0
  /\ dirWatched = FALSE
  /\ watchOf = [i \in Files |-> NoWatch]
  /\ lastWd = NoWatch
  /\ queue = <<>>

-----------------------------------------------------------------------------
(* inotify: an event equal to the last one queued is dropped, and so is    *)
(* every event while the queue is full, but for one that says so.          *)
(* IN_IGNORED, which tells that a watch is gone and which llad passes      *)
(* over, is not queued.                                                    *)

Queued(q, e) ==
  IF q # <<>> /\ q[Len(q)] = e THEN q
  ELSE IF Len(q) < QueueLimit THEN Append(q, e)
  ELSE IF q # <<>> /\ q[Len(q)] = Overflow THEN q
  ELSE Append(q, Overflow)

NotifyDir(mask, n) ==
  queue' = IF dirWatched THEN Queued(queue, DirEvent(mask, n)) ELSE queue

NotifyFile(i) ==
  queue' = IF watchOf[i] # NoWatch THEN Queued(queue, FileEvent(watchOf[i]))
           ELSE queue

\* The file that inotify_add_watch or fopen finds under a name, if it may be
\* read.
Found(n) == IF entry[n] \in readable THEN entry[n] ELSE NoFile

-----------------------------------------------------------------------------
(* Writers and rotators.                                                   *)

Linked(i) == \E n \in Names : entry[n] = i

Change(c) ==
  /\ c \in scenario.changes
  /\ changes < scenario.most
  /\ changes' = changes + 1
  /\ UNCHANGED scenario

\* A writer appends a line, to a file that still has its name or not any more.
Write(i) ==
  /\ i <= files /\ written < scenario.lines
  /\ (IF Linked(i) THEN "write" ELSE "late") \in scenario.changes
  /\ written' = written + 1
  /\ content' = [content EXCEPT ![i] = Append(@, written')]
  /\ NotifyFile(i)
  /\ UNCHANGED <<scenario, entry, readable, files, changes, inotify>>

\* copytruncate
Truncate(i) ==
  /\ Change("truncate")
  /\ Linked(i)
  /\ content' = [content EXCEPT ![i] = <<>>]
  /\ NotifyFile(i)
  /\ UNCHANGED <<entry, readable, files, written, inotify>>

\* A new file, empty or with a line in it already, readable or not.
NewFile(n) ==
  /\ files < MaxFiles
  /\ files' = files + 1
  /\ entry' = [entry EXCEPT ![n] = files']
  /\ \/ UNCHANGED <<content, written>>
     \/ /\ written < scenario.lines
        /\ written' = written + 1
        /\ content' = [content EXCEPT ![files'] = <<written'>>]
  /\ \/ readable' = readable \cup {files'}
     \/ "grant" \in scenario.changes /\ UNCHANGED readable

\* unlink() or rename() to a name that nobody watches
Remove(n) ==
  /\ Change("remove")
  /\ entry[n] # NoFile
  /\ entry' = [entry EXCEPT ![n] = NoFile]
  /\ NotifyDir("delete", n)
  /\ UNCHANGED <<contents, readable, inotify>>

Create(n) ==
  /\ Change("create")
  /\ entry[n] = NoFile
  /\ NewFile(n)
  /\ NotifyDir("create", n)
  /\ UNCHANGED inotify

\* rename() of a new file over the old one
Replace(n) ==
  /\ Change("replace")
  /\ entry[n] # NoFile
  /\ NewFile(n)
  /\ NotifyDir("movedto", n)
  /\ UNCHANGED inotify

\* chmod() or chown()
Grant(n) ==
  /\ Change("grant")
  /\ entry[n] # NoFile /\ entry[n] \notin readable
  /\ readable' = readable \cup {entry[n]}
  /\ NotifyDir("attrib", n)
  /\ UNCHANGED <<entry, contents, inotify>>

Revoke(n) ==
  /\ Change("revoke")
  /\ entry[n] \in readable
  /\ readable' = readable \ {entry[n]}
  /\ NotifyDir("attrib", n)
  /\ UNCHANGED <<entry, contents, inotify>>

\* link(): a second name for the file
Link(n, m) ==
  /\ Change("link")
  /\ entry[n] # NoFile /\ entry[m] = NoFile
  /\ entry' = [entry EXCEPT ![m] = entry[n]]
  /\ NotifyDir("create", m)
  /\ UNCHANGED <<contents, readable, inotify>>

\* rename() from one watched name to another
Rename(n, m) ==
  /\ Change("rename")
  /\ entry[n] # NoFile /\ entry[m] = NoFile
  /\ entry' = [entry EXCEPT ![m] = entry[n], ![n] = NoFile]
  /\ queue' = IF dirWatched
              THEN Queued(Queued(queue, DirEvent("movedfrom", n)),
                          DirEvent("movedto", m))
              ELSE queue
  /\ UNCHANGED <<contents, readable, inotify>>

Environment ==
  \/ \E i \in Files : Write(i) \/ Truncate(i)
  \/ \E n \in Names :
       Remove(n) \/ Create(n) \/ Replace(n) \/ Grant(n) \/ Revoke(n)
  \/ \E n, m \in Names : Link(n, m) \/ Rename(n, m)
=============================================================================
