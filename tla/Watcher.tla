------------------------------ MODULE Watcher ------------------------------
(***************************************************************************)
(* src/src/watcher.c and the reading half of src/src/logfile.c: the main   *)
(* thread follows every log file by its name, through deletion, rotation   *)
(* and truncation, and hands each new line to the actions.  A handler of   *)
(* an event is several system calls, and the files may change between any  *)
(* two of them; each call that looks at the directory is a step.           *)
(*                                                                         *)
(* The lines handed to action_matchAndExecChain are recorded in matched.   *)
(* fgets works on a buffer: once the lines are in it nothing that happens  *)
(* to the file matters for them, so a step reads and hands on all of them. *)
(***************************************************************************)
EXTENDS LogDirectory

CONSTANTS
  LogList,      \* the names in the order of the configuration
  ScanComplete, \* MAX_SCAN_COMPLETE_FILE, in lines
  StickyEOF,    \* TRUE: end of file, once seen, stays with the stream
  Calm          \* TRUE: nothing changes before everything is watched

ASSUME WatcherAssumption ==
  /\ LogList \in Seq(Names)
  /\ Names = {LogList[k] : k \in DOMAIN LogList}
  /\ ScanComplete \in Nat
  /\ StickyEOF \in BOOLEAN /\ Calm \in BOOLEAN

VARIABLES
  pc,       \* where the main thread is
  cur,      \* the log file it deals with
  todo,     \* the log files that initialisation has still to go through
  chunk,    \* the events read and not yet handled
  inwd,     \* WatcherFile: the watch descriptor of each log file
  file,     \* Logfile: the stream of each log file, or Closed
  matched   \* the lines handed to the actions of each log file, in order

llad == <<pc, cur, todo, chunk, inwd, file, matched>>
vars == <<dirVars, llad>>

\* A stream: the file it is open on, the lines before its position, and
\* whether its end-of-file indicator is set.
Stream(i, pos) == [on |-> i, pos |-> pos, eof |-> FALSE]
Closed         == [on |-> NoFile, pos |-> 0, eof |-> FALSE]

Size(i) == Len(content[i])

Init ==
  /\ DirInit
  /\ pc = "open"
  /\ cur = NoName
  /\ todo = LogList
  /\ chunk = <<>>
  /\ inwd = [n \in Names |-> NoWatch]
  /\ file = [n \in Names |-> Closed]
  /\ matched = [n \in Names |-> <<>>]

Goes(from, to) == pc = from /\ pc' = to

-----------------------------------------------------------------------------
(* Initialisation: LogfileList_init opens the files, then Watcher_init     *)
(* watches them.                                                           *)

\* logfile_new: open the file, if possible, and go to its end.
OpenLog ==
  /\ pc = "open" /\ todo # <<>>
  /\ LET n == Head(todo) IN
       file' = [file EXCEPT ![n] =
                  IF Found(n) = NoFile THEN Closed
                  ELSE Stream(Found(n), Size(Found(n)))]
  /\ todo' = Tail(todo)
  /\ UNCHANGED <<dirVars, pc, cur, chunk, inwd, matched>>

AllOpened ==
  /\ Goes("open", "watchdir")
  /\ todo = <<>>
  /\ todo' = LogList
  /\ UNCHANGED <<dirVars, cur, chunk, inwd, file, matched>>

\* registerDir: the directory is watched with its first log file.  That this
\* fails ("impossible case") is left out.
RegisterDir ==
  /\ Goes("watchdir", "watchfile")
  /\ todo # <<>>
  /\ dirWatched' = TRUE
  /\ lastWd' = IF dirWatched THEN lastWd ELSE DirWd
  /\ UNCHANGED <<scenario, entry, content, readable, files, written, changes, watchOf,
                 queue, cur, todo, chunk, inwd, file, matched>>

\* Faulty variant for TLC: a descriptor is handed out twice.
WatchSharing(n) ==
  LET i == Found(n) IN
    IF i = NoFile
    THEN inwd' = [inwd EXCEPT ![n] = NoWatch] /\ UNCHANGED inotify
    ELSE /\ inwd' = [inwd EXCEPT ![n] = DirWd + 1]
         /\ watchOf' = [watchOf EXCEPT ![i] = DirWd + 1]
         /\ lastWd' = DirWd + 1
         /\ UNCHANGED dirWatched

\* inotify_add_watch: one descriptor per file, however often it is added; it
\* fails when the file is missing or cannot be read.  ENOSPC is left out.
Watch(n) ==
  LET i  == Found(n)
      wd == IF watchOf[i] # NoWatch THEN watchOf[i] ELSE lastWd + 1
  IN  IF i = NoFile
      THEN inwd' = [inwd EXCEPT ![n] = NoWatch] /\ UNCHANGED inotify
      ELSE /\ inwd' = [inwd EXCEPT ![n] = wd]
           /\ watchOf' = [watchOf EXCEPT ![i] = wd]
           /\ lastWd' = IF wd > lastWd THEN wd ELSE lastWd
           /\ UNCHANGED dirWatched

RegisterFile ==
  /\ Goes("watchfile", "watchdir")
  /\ Watch(Head(todo))
  /\ todo' = Tail(todo)
  /\ UNCHANGED <<scenario, entry, contents, readable, changes, queue, cur, chunk, file,
                 matched>>

AllWatched ==
  /\ Goes("watchdir", "loop")
  /\ todo = <<>>
  /\ UNCHANGED <<dirVars, cur, todo, chunk, inwd, file, matched>>

-----------------------------------------------------------------------------
(* watchloop.                                                              *)

\* read() returns the events there are.
ReadEvents ==
  /\ pc = "loop"
  /\ chunk = <<>> /\ queue # <<>>
  /\ chunk' = queue
  /\ queue' = <<>>
  /\ UNCHANGED <<scenario, entry, contents, readable, changes, inotify, pc, cur, todo,
                 inwd, file, matched>>

\* findFile: the first log file with this watch descriptor, or none.
findFile(wd) ==
  LET hits == {k \in DOMAIN LogList : inwd[LogList[k]] = wd}
  IN  IF hits = {} THEN NoName
      ELSE LogList[CHOOSE k \in hits : \A j \in hits : k <= j]

\* Which handler an event calls for, and on which log file.
Disappeared(e, n) == e.mask \in {"movedfrom", "delete"} /\ n = e.name

Appeared(e, n) ==
  /\ e.mask \in {"movedto", "attrib", "create"}
  /\ n = e.name
  /\ inwd[n] = NoWatch

Modified(e, n) == e.mask = "modify" /\ n = findFile(e.wd)

\* Handle the next event of the chunk: fileDeleted, fileCreated if the log
\* file is not watched, fileModified if one is found, or nothing at all.
HandleEvent ==
  /\ pc = "loop"
  /\ chunk # <<>>
  /\ chunk' = Tail(chunk)
  /\ LET e == Head(chunk) IN
       \/ \E n \in Names :
            /\ \/ Disappeared(e, n) /\ pc' = "unwatch"
               \/ Appeared(e, n) /\ pc' = "watch"
               \/ Modified(e, n) /\ pc' = "scan"
            /\ cur' = n
       \/ /\ \A n \in Names :
               ~(Disappeared(e, n) \/ Appeared(e, n) \/ Modified(e, n))
          /\ UNCHANGED <<pc, cur>>
  /\ UNCHANGED <<dirVars, todo, inwd, file, matched>>

-----------------------------------------------------------------------------
(* fileDeleted.                                                            *)

\* inotify_rm_watch
RemoveWatch ==
  /\ Goes("unwatch", "close")
  /\ watchOf' = [i \in Files |->
                   IF watchOf[i] = inwd[cur] THEN NoWatch ELSE watchOf[i]]
  /\ inwd' = [inwd EXCEPT ![cur] = NoWatch]
  /\ UNCHANGED <<scenario, entry, contents, readable, changes, dirWatched, lastWd,
                 queue, cur, todo, chunk, file, matched>>

\* Faulty variant for TLC: the stream stays open.
KeepStream ==
  /\ Goes("close", "loop")
  /\ UNCHANGED <<dirVars, cur, todo, chunk, inwd, file, matched>>

logfile_close ==
  /\ Goes("close", "loop")
  /\ file' = [file EXCEPT ![cur] = Closed]
  /\ UNCHANGED <<dirVars, cur, todo, chunk, inwd, matched>>

-----------------------------------------------------------------------------
(* fileCreated.                                                            *)

\* Faulty variant for TLC: the new file is watched but not scanned.
AddWatchOnly ==
  /\ Goes("watch", "loop")
  /\ Watch(cur)
  /\ UNCHANGED <<scenario, entry, contents, readable, changes, queue, cur, todo, chunk,
                 file, matched>>

\* inotify_add_watch; on success the file is scanned at once, reopened.
AddWatch ==
  /\ pc = "watch"
  /\ Watch(cur)
  /\ pc' = IF Found(cur) = NoFile THEN "loop" ELSE "reopen"
  /\ UNCHANGED <<scenario, entry, contents, readable, changes, queue, cur, todo, chunk,
                 file, matched>>

-----------------------------------------------------------------------------
(* logfile_scan.                                                           *)

\* reopen # 0: close the stream if there is one.
CloseToReopen ==
  /\ Goes("reopen", "openscan")
  /\ file' = [file EXCEPT ![cur] = Closed]
  /\ UNCHANGED <<dirVars, cur, todo, chunk, inwd, matched>>

\* Faulty variant for TLC: nobody looks at the size.
IgnoreTruncation ==
  /\ pc = "scan"
  /\ pc' = IF file[cur] = Closed THEN "openscan" ELSE "gets"
  /\ UNCHANGED <<dirVars, cur, todo, chunk, inwd, file, matched>>

\* reopen = 0: is the file open, and is it smaller than previously?
CheckFile ==
  /\ pc = "scan"
  /\ pc' = IF file[cur] = Closed THEN "openscan"
           ELSE IF Size(file[cur].on) < file[cur].pos THEN "truncated"
           ELSE "gets"
  /\ UNCHANGED <<dirVars, cur, todo, chunk, inwd, file, matched>>

\* Faulty variant for TLC: always start at the end.
OpenAtEnd ==
  /\ pc = "openscan"
  /\ LET i == Found(cur) IN
       file' = [file EXCEPT ![cur] =
                  IF i = NoFile THEN Closed ELSE Stream(i, Size(i))]
  /\ pc' = "loop"
  /\ UNCHANGED <<dirVars, cur, todo, chunk, inwd, matched>>

\* fopen, and start at the beginning if the file is small enough.  It fails
\* when the file is missing or cannot be read; EMFILE is left out.
OpenToScan ==
  /\ pc = "openscan"
  /\ LET i == Found(cur) IN
       IF i = NoFile
       THEN pc' = "loop" /\ UNCHANGED file
       ELSE IF Size(i) <= ScanComplete
       THEN pc' = "gets" /\ file' = [file EXCEPT ![cur] = Stream(i, 0)]
       ELSE pc' = "loop" /\ file' = [file EXCEPT ![cur] = Stream(i, Size(i))]
  /\ UNCHANGED <<dirVars, cur, todo, chunk, inwd, matched>>

\* Truncation detected: reopen by name, start at the new end.
ReopenTruncated ==
  /\ Goes("truncated", "loop")
  /\ LET i == Found(cur) IN
       file' = [file EXCEPT ![cur] =
                  IF i = NoFile THEN Closed ELSE Stream(i, Size(i))]
  /\ UNCHANGED <<dirVars, cur, todo, chunk, inwd, matched>>

\* Faulty variant for TLC: the position in the file is not kept.
GetLinesAgain ==
  LET s == file[cur]
      lines == IF s.eof /\ StickyEOF THEN <<>>
               ELSE SubSeq(content[s.on], s.pos + 1, Size(s.on))
  IN  /\ pc = "gets"
      /\ matched' = [matched EXCEPT ![cur] = @ \o lines]
      /\ UNCHANGED file
      /\ pc' = "loop"
      /\ UNCHANGED <<dirVars, cur, todo, chunk, inwd>>

\* The loop around fgets: hand on the lines that are there, until there are
\* none.
GetLines ==
  LET s == file[cur]
      lines == IF s.eof /\ StickyEOF THEN <<>>
               ELSE SubSeq(content[s.on], s.pos + 1, Size(s.on))
  IN  /\ pc = "gets"
      /\ matched' = [matched EXCEPT ![cur] = @ \o lines]
      /\ file' = [file EXCEPT ![cur].pos = @ + Len(lines),
                              ![cur].eof = (lines = <<>>)]
      /\ pc' = IF lines = <<>> THEN "loop" ELSE "gets"
      /\ UNCHANGED <<dirVars, cur, todo, chunk, inwd>>

-----------------------------------------------------------------------------
MainThread ==
  \/ OpenLog \/ AllOpened \/ RegisterDir \/ RegisterFile \/ AllWatched
  \/ ReadEvents \/ HandleEvent
  \/ RemoveWatch \/ logfile_close \/ AddWatch
  \/ CloseToReopen \/ CheckFile \/ OpenToScan \/ ReopenTruncated \/ GetLines

Starting == pc \in {"open", "watchdir", "watchfile"}

Others == ~(Calm /\ Starting) /\ Environment /\ UNCHANGED llad

\* Asleep in read(), for good if nothing happens any more.
Idle == pc = "loop" /\ chunk = <<>> /\ queue = <<>>

Asleep == Idle /\ UNCHANGED vars

Next == MainThread \/ Others \/ Asleep

\* The main thread runs whenever it can; nothing makes the files change.
Spec == Init /\ [][Next]_vars /\ WF_vars(MainThread)

-----------------------------------------------------------------------------
(* Properties.                                                             *)

Events ==
  {FileEvent(wd) : wd \in 1..lastWd}
    \cup {DirEvent(m, n) : m \in {"delete", "create", "movedto", "attrib",
                                   "movedfrom"}, n \in Names}
    \cup {Overflow}

\* The variables stay in their ranges; in particular no two files share a
\* watch descriptor, and none has the directory's.
TypeOK ==
  /\ scenario \in Scenarios
  /\ files \in 0..MaxFiles /\ written \in 0..scenario.lines
  /\ changes \in 0..scenario.most /\ lastWd \in Nat
  /\ entry \in [Names -> 0..files] /\ readable \subseteq 1..files
  /\ content \in [Files -> Seq(0..written)]
  /\ pc \in {"open", "watchdir", "watchfile", "loop", "unwatch", "close",
             "watch", "reopen", "scan", "openscan", "truncated", "gets"}
  /\ cur \in Names \cup {NoName} /\ todo \in Seq(Names)
  /\ queue \in Seq(Events) /\ chunk \in Seq(Events)
  /\ watchOf \in [Files -> {NoWatch} \cup (DirWd + 1)..lastWd]
  /\ \A i, j \in Files : watchOf[i] = watchOf[j] /\ i # j => watchOf[i] = NoWatch
  /\ inwd \in [Names -> 0..lastWd]
  /\ file \in [Names -> [on : 0..files, pos : Nat, eof : BOOLEAN]]
  /\ matched \in [Names -> Seq(0..written)]

\* The log file n is followed: the file of that name is the one watched and
\* the one read, and it is read to its end; if there is none nothing is.
Followed(n) ==
  IF Found(n) = NoFile
  THEN entry[n] = NoFile => inwd[n] = NoWatch /\ file[n] = Closed
  ELSE /\ inwd[n] # NoWatch /\ inwd[n] = watchOf[Found(n)]
       /\ file[n].on = Found(n)
       /\ file[n].pos = Size(Found(n))

\* README: llad "executes some custom actions as soon as a pattern matches a
\* new log line": when it sleeps, there is nothing left that it should have
\* seen, whatever happened to the files, in whatever order it learned of it.
CaughtUp == Idle => \A n \in Names : Followed(n)

\* A log file that is not there any more is neither watched nor kept open,
\* in whatever way it disappeared, and however many names a file had.
GoneIsLetGo ==
  Idle => \A n \in Names :
            entry[n] = NoFile => inwd[n] = NoWatch /\ file[n] = Closed

\* What rotation does to log files, copytruncate included.
Rotating ==
  scenario.changes \subseteq
    {"write", "late", "remove", "create", "grant", "rename", "truncate"}

\* The same among all that may happen, for what is mere rotation: several at
\* once, of all kinds, and truncations, noticed or not.
RotatedCaughtUp == Rotating => CaughtUp

\* At most one rotation, or two truncations.
SingleRotation ==
  /\ scenario.changes \subseteq {"write", "late", "remove", "create", "truncate"}
  /\ scenario.most <= 2

LinesOf(i)   == {content[i][k] : k \in DOMAIN content[i]}
MatchedOf(n) == {matched[n][k] : k \in DOMAIN matched[n]}

\* Nothing is skipped: when llad sleeps, every line that was written after the
\* start into the file that has the name now was handed to its actions.
NothingSkipped ==
  Idle => \A n \in Names :
            Found(n) # NoFile => LinesOf(Found(n)) \ {0} \subseteq MatchedOf(n)

\* With a single rotation each line is handed on at most once, those of a file
\* in their order, and none that was there before the start.
InOrderOnce ==
  SingleRotation => \A n \in Names :
    /\ 0 \notin MatchedOf(n)
    /\ \A k, l \in DOMAIN matched[n] : k < l =>
         /\ matched[n][k] # matched[n][l]
         /\ \A i \in Files : {matched[n][k], matched[n][l]} \subseteq LinesOf(i)
              => matched[n][k] < matched[n][l]

Lines == UNION {1..s.lines : s \in Scenarios}

\* Every line written to a log file is handed on, unless its file loses the
\* name or the line first.
WrittenIsMatched ==
  \A n \in Names : \A l \in Lines :
    (Found(n) # NoFile /\ l \in LinesOf(Found(n)))
      ~> (l \in MatchedOf(n) \/ Found(n) = NoFile \/ l \notin LinesOf(Found(n)))
=============================================================================
