--------------------------- MODULE WatcherProofs ---------------------------
(***************************************************************************)
(* Proofs about Watcher, for any log files in any order, any number of     *)
(* lines and of changes, and any limits: the variables stay in their       *)
(* ranges, and a log file that is gone is let go.                          *)
(***************************************************************************)
EXTENDS Watcher, SequenceTheorems, FiniteSetTheorems,
        WellFoundedInduction, TLAPS

-----------------------------------------------------------------------------
(* Type correctness.                                                       *)

\* Where a handler is at work, on the log file cur.
Handling == {"unwatch", "close", "watch", "reopen", "scan", "openscan",
             "truncated", "gets"}

\* What the types rest on: nothing is queued or watched before the directory
\* is, and a stream that is on no file is closed.
Shape ==
  /\ dirWatched \in BOOLEAN
  /\ dirWatched => lastWd >= DirWd
  /\ ~dirWatched => /\ lastWd = NoWatch /\ queue = <<>> /\ chunk = <<>>
                    /\ pc \in {"open", "watchdir", "loop"}
  /\ pc = "watchfile" => todo # <<>>
  /\ pc \in Handling => cur \in Names
  /\ pc \in {"gets", "truncated"} => file[cur].on # NoFile
  /\ \A n \in Names : file[n].on = NoFile => file[n] = Closed

TypeInv == TypeOK /\ Shape

\* More descriptors allow for more events.
LEMMA EventsGrow ==
  ASSUME lastWd \in Nat, lastWd' \in Nat, lastWd <= lastWd'
  PROVE  Events \subseteq Events'
  BY DEF Events, FileEvent, DirEvent, Overflow

\* inotify queues events.
LEMMA QueuedType ==
  ASSUME NEW q \in Seq(Events), NEW e \in Events
  PROVE  Queued(q, e) \in Seq(Events)
<1>1. Overflow \in Events
  BY DEF Events
<1>. QED
  BY <1>1 DEF Queued

LEMMA DirEventType ==
  ASSUME NEW n \in Names,
         NEW m \in {"delete", "create", "movedto", "attrib", "movedfrom"}
  PROVE  DirEvent(m, n) \in Events
  BY DEF Events

LEMMA NotifyDirType ==
  ASSUME TypeInv, NEW n \in Names, UNCHANGED inotify,
         NEW m \in {"delete", "create", "movedto", "attrib", "movedfrom"},
         NotifyDir(m, n)
  PROVE  queue' \in Seq(Events') /\ (~dirWatched => queue' = <<>>)
<1>1. Events' = Events
  BY DEF Events, inotify
<1>. QED
  BY <1>1, DirEventType, QueuedType DEF NotifyDir, TypeInv, TypeOK, Shape

LEMMA NotifyFileType ==
  ASSUME TypeInv, NEW i \in Files, UNCHANGED inotify, NotifyFile(i)
  PROVE  queue' \in Seq(Events') /\ (~dirWatched => queue' = <<>>)
<1>1. Events' = Events
  BY DEF Events, inotify
<1>2. watchOf[i] # NoWatch => watchOf[i] \in 1..lastWd /\ dirWatched
  BY DEF TypeInv, TypeOK, Shape, NoWatch, DirWd
<1>3. watchOf[i] # NoWatch => FileEvent(watchOf[i]) \in Events
  BY <1>2 DEF Events
<1>. QED
  BY <1>1, <1>2, <1>3, QueuedType DEF NotifyFile, TypeInv, TypeOK, Shape

\* What no change of the files touches.
LEMMA OthersType ==
  ASSUME TypeInv, Others
  PROVE  TypeInv'
<1>1. UNCHANGED <<llad, inotify, scenario>>
  BY DEF Others, Environment, Write, Truncate, Remove, Create, Replace, Grant, Revoke,
         Link, Rename, Change
<1>2. Events' = Events
  BY <1>1 DEF Events, inotify
<1>3. scenario.lines \in Nat /\ scenario.most \in Nat /\ MaxFiles \in Nat
  BY LogDirectoryAssumption DEF TypeInv, TypeOK
<1>. DEFINE Counts == /\ files \in 0..MaxFiles
                      /\ written \in 0..scenario.lines
                      /\ changes \in 0..scenario.most
                      /\ entry \in [Names -> 0..files] /\ readable \subseteq 1..files
            T == 0..written'
<1>4. Counts
  BY DEF TypeInv, TypeOK
<1>5. Counts' /\ files <= files' /\ written <= written'
  <2>1. CASE \E i \in Files : Write(i)
    BY <1>1, <1>3, <1>4, <2>1 DEF Write
  <2>2. CASE \E i \in Files : Truncate(i)
    BY <1>1, <1>3, <1>4, <2>2 DEF Truncate, Change
  <2>3. CASE \E n \in Names : Create(n) \/ Replace(n)
    <3>1. PICK n \in Names : NewFile(n) /\ (Change("create") \/ Change("replace"))
      BY <2>3 DEF Create, Replace
    <3>2. files' = files + 1 /\ files < MaxFiles /\ changes' \in 0..scenario.most
      BY <1>3, <1>4, <3>1 DEF NewFile, Change
    <3>3. entry' \in [Names -> 0..files'] /\ readable' \subseteq 1..files'
      <4>1. entry' = [entry EXCEPT ![n] = files']
        BY <3>1 DEF NewFile
      <4>2. readable' = readable \cup {files'} \/ readable' = readable
        BY <3>1 DEF NewFile
      <4>3. files' \in 1..files' /\ files' \in 0..files' /\ 0..files \subseteq 0..files'
              /\ 1..files \subseteq 1..files'
        BY <1>3, <1>4, <3>2
      <4>4. entry' \in [Names -> 0..files']
        BY <1>4, <4>1, <4>3
      <4>5. readable' \subseteq 1..files'
        BY <1>4, <4>2, <4>3
      <4>. QED
        BY <4>4, <4>5
    <3>4. written' \in 0..scenario.lines /\ written <= written'
      BY <1>3, <1>4, <3>1 DEF NewFile
    <3>. QED
      BY <1>1, <1>3, <1>4, <3>2, <3>3, <3>4
  <2>4. CASE \E n \in Names : Remove(n) \/ Grant(n) \/ Revoke(n)
    <3>1. UNCHANGED <<files, written>> /\ changes' \in 0..scenario.most
      BY <1>3, <1>4, <2>4 DEF Remove, Grant, Revoke, Change, contents
    <3>2. readable' \subseteq 1..files
      <4>1. \A n \in Names : entry[n] # NoFile => entry[n] \in 1..files
        BY <1>3, <1>4 DEF NoFile
      <4>. DEFINE Made == 1..files
      <4>2. readable \subseteq Made
        BY <1>4
      <4>3. PICK n \in Names : \/ readable' = readable
                               \/ entry[n] # NoFile /\ readable' = readable \cup {entry[n]}
                               \/ readable' = readable \ {entry[n]}
        BY <2>4 DEF Remove, Grant, Revoke
      <4>. HIDE DEF Made
      <4>4. entry[n] # NoFile => entry[n] \in Made
        BY <4>1 DEF Made
      <4>5. readable' \subseteq Made
        BY <4>2, <4>3, <4>4
      <4>. QED
        BY <4>5 DEF Made
    <3>3. entry' \in [Names -> 0..files]
      BY <1>3, <1>4, <2>4 DEF Remove, Grant, Revoke, NoFile
    <3>. QED
      BY <1>1, <1>3, <1>4, <3>1, <3>2, <3>3
  <2>5. CASE \E n, m \in Names : Link(n, m) \/ Rename(n, m)
    <3>1. UNCHANGED <<files, written, readable>> /\ changes' \in 0..scenario.most
      BY <1>3, <1>4, <2>5 DEF Link, Rename, Change, contents
    <3>2. entry' \in [Names -> 0..files]
      BY <1>3, <1>4, <2>5 DEF Link, Rename, NoFile
    <3>. QED
      BY <1>1, <1>3, <1>4, <3>1, <3>2
  <2>. QED
    BY <2>1, <2>2, <2>3, <2>4, <2>5 DEF Others, Environment
<1>6. content' \in [Files -> Seq(T)]
  <2>1. content \in [Files -> Seq(T)]
    <3>1. content \in [Files -> Seq(0..written)] /\ 0..written \subseteq T
      BY <1>3, <1>4, <1>5 DEF TypeInv, TypeOK
    <3>2. \A i \in Files : content[i] \in Seq(T)
      BY <3>1, SeqMonotonic
    <3>. QED
      BY <3>1, <3>2
  <2>2. written' \in T
    BY <1>3, <1>5
  <2>. HIDE DEF T
  <2>3. <<>> \in Seq(T) /\ <<written'>> \in Seq(T)
    BY <2>2
  <2>4. \A s \in Seq(T) : Append(s, written') \in Seq(T)
    BY <2>2, AppendProperties
  <2>5. CASE \E i \in Files : Write(i) \/ Truncate(i)
    BY <2>1, <2>3, <2>4, <2>5 DEF Write, Truncate
  <2>6. CASE \E n \in Names : Create(n) \/ Replace(n)
    <3>1. content' = content \/ content' = [content EXCEPT ![files'] = <<written'>>]
      BY <2>6 DEF Create, Replace, NewFile
    <3>. QED
      BY <3>1, <2>1, <2>3
  <2>7. CASE \/ \E n \in Names : Remove(n) \/ Grant(n) \/ Revoke(n)
             \/ \E n, m \in Names : Link(n, m) \/ Rename(n, m)
    BY <2>1, <2>7 DEF Remove, Grant, Revoke, Link, Rename, contents
  <2>. QED
    BY <2>5, <2>6, <2>7 DEF Others, Environment
<1>7. queue' \in Seq(Events') /\ (~dirWatched => queue' = <<>>)
  <2>1. UNCHANGED inotify
    BY <1>1
  <2>2. ASSUME NEW i \in Files, NotifyFile(i)
        PROVE  queue' \in Seq(Events') /\ (~dirWatched => queue' = <<>>)
    BY <2>1, <2>2, NotifyFileType DEF TypeInv
  <2>3. ASSUME NEW n \in Names,
               NEW m \in {"delete", "create", "movedto", "attrib", "movedfrom"},
               NotifyDir(m, n)
        PROVE  queue' \in Seq(Events') /\ (~dirWatched => queue' = <<>>)
    BY <2>1, <2>3, NotifyDirType DEF TypeInv
  <2>4. CASE \E i \in Files : Write(i) \/ Truncate(i)
    BY <2>2, <2>4 DEF Write, Truncate
  <2>5. CASE \E n \in Names : Remove(n) \/ Create(n) \/ Replace(n) \/ Grant(n) \/ Revoke(n)
    BY <2>3, <2>5 DEF Remove, Create, Replace, Grant, Revoke
  <2>6. CASE \E n, m \in Names : Link(n, m)
    BY <2>3, <2>6 DEF Link
  <2>7. CASE \E n, m \in Names : Rename(n, m)
    <3>1. PICK n, m \in Names : Rename(n, m)
      BY <2>7
    <3>2. /\ DirEvent("movedfrom", n) \in Events
          /\ DirEvent("movedto", m) \in Events
      BY DirEventType
    <3>3. Queued(Queued(queue, DirEvent("movedfrom", n)), DirEvent("movedto", m))
            \in Seq(Events)
      <4>1. Queued(queue, DirEvent("movedfrom", n)) \in Seq(Events)
        BY <3>2, QueuedType DEF TypeInv, TypeOK
      <4>. QED
        BY <3>2, <4>1, QueuedType
    <3>. QED
      BY <3>1, <3>3, <1>2 DEF Rename, TypeInv, TypeOK, Shape
  <2>. QED
    BY <2>4, <2>5, <2>6, <2>7 DEF Others, Environment
<1>8. /\ file' \in [Names -> [on : 0..files', pos : Nat, eof : BOOLEAN]]
      /\ matched' \in [Names -> Seq(0..written')]
  <2>1. \A n \in Names : matched[n] \in Seq(0..written')
    BY <1>3, <1>4, <1>5, SeqMonotonic DEF TypeInv, TypeOK
  <2>2. 0..files \subseteq 0..files'
    BY <1>4, <1>5
  <2>. QED
    BY <1>1, <2>1, <2>2 DEF llad, TypeInv, TypeOK
<1>. QED
  BY <1>1, <1>2, <1>5, <1>6, <1>7, <1>8 DEF llad, inotify, TypeInv, TypeOK, Shape, Closed,
     Handling

\* What a name is found to be.
LEMMA FoundType ==
  ASSUME TypeInv, NEW n \in Names
  PROVE  /\ Found(n) \in 0..files
         /\ Found(n) # NoFile => /\ Found(n) \in Files /\ Found(n) \in readable
                                 /\ Found(n) = entry[n]
         /\ \A i \in Files : Size(i) \in Nat
<1>1. files \in 0..MaxFiles /\ MaxFiles \in Nat /\ entry[n] \in 0..files
  BY LogDirectoryAssumption DEF TypeInv, TypeOK
<1>2. Found(n) \in 0..files
  BY <1>1 DEF Found, NoFile
<1>3. Found(n) # NoFile => Found(n) \in Files
  BY <1>1, <1>2 DEF NoFile, Files
<1>4. \A i \in Files : Size(i) \in Nat
  BY LenProperties DEF Size, TypeInv, TypeOK
<1>. QED
  BY <1>2, <1>3, <1>4 DEF Found

\* A stream that changes.
LEMMA StreamType ==
  ASSUME TypeInv, NEW n, NEW s \in [on : 0..files, pos : Nat, eof : BOOLEAN],
         s.on = NoFile => s = Closed,
         file' = [file EXCEPT ![n] = s]
  PROVE  /\ file' \in [Names -> [on : 0..files, pos : Nat, eof : BOOLEAN]]
         /\ \A m \in Names : file'[m].on = NoFile => file'[m] = Closed
  BY DEF TypeInv, TypeOK, Shape

\* logfile_new, logfile_open and a reopened file: a stream of the file found.
LEMMA OpenedType ==
  ASSUME TypeInv, NEW n \in Names, NEW pos \in Nat
  PROVE  LET s == IF Found(n) = NoFile THEN Closed ELSE Stream(Found(n), pos) IN
           /\ s \in [on : 0..files, pos : Nat, eof : BOOLEAN]
           /\ s.on = NoFile => s = Closed
           /\ s.on = Found(n)
<1>1. 0 \in 0..files
  BY DEF TypeInv, TypeOK
<1>. QED
  BY <1>1, FoundType DEF Closed, Stream, NoFile

\* inotify_add_watch
LEMMA WatchType ==
  ASSUME TypeInv, dirWatched, NEW n \in Names, Watch(n)
  PROVE  /\ dirWatched' /\ lastWd' \in Nat /\ lastWd <= lastWd' /\ lastWd' >= DirWd
         /\ watchOf' \in [Files -> {NoWatch} \cup (DirWd + 1)..lastWd']
         /\ \A i, j \in Files : watchOf'[i] = watchOf'[j] /\ i # j
                                  => watchOf'[i] = NoWatch
         /\ inwd' \in [Names -> 0..lastWd']
<1>1. /\ lastWd \in Nat /\ lastWd >= 1
      /\ watchOf \in [Files -> {0} \cup 2..lastWd]
      /\ \A i, j \in Files : watchOf[i] = watchOf[j] /\ i # j => watchOf[i] = 0
      /\ inwd \in [Names -> 0..lastWd]
  <2>1. (DirWd + 1)..lastWd = 2..lastWd
    BY DEF DirWd
  <2>2. watchOf \in [Files -> {NoWatch} \cup (DirWd + 1)..lastWd]
    BY DEF TypeInv, TypeOK
  <2>3. watchOf \in [Files -> {0} \cup 2..lastWd]
    BY <2>1, <2>2 DEF NoWatch
  <2>. QED
    BY <2>3 DEF TypeInv, TypeOK, Shape, NoWatch, DirWd
<1>2. CASE Found(n) = NoFile
  BY <1>1, <1>2 DEF Watch, inotify, NoWatch, DirWd
<1>3. CASE Found(n) # NoFile
  <2>. DEFINE i  == Found(n)
              wd == IF watchOf[i] # NoWatch THEN watchOf[i] ELSE lastWd + 1
  <2>1. i \in Files
    BY <1>3, FoundType
  <2>2. /\ inwd' = [inwd EXCEPT ![n] = wd] /\ watchOf' = [watchOf EXCEPT ![i] = wd]
        /\ lastWd' = IF wd > lastWd THEN wd ELSE lastWd
        /\ dirWatched' = dirWatched
    BY <1>3 DEF Watch
  <2>3. wd \in 2..(lastWd + 1) /\ (wd = lastWd + 1 \/ wd = watchOf[i])
    BY <1>1, <2>1 DEF NoWatch
  <2>. HIDE DEF i, wd
  <2>4. lastWd' \in Nat /\ lastWd <= lastWd' /\ wd \in 2..lastWd'
    BY <1>1, <2>2, <2>3
  <2>5. watchOf' \in [Files -> {0} \cup 2..lastWd']
    <3>1. {0} \cup 2..lastWd \subseteq {0} \cup 2..lastWd'
      BY <1>1, <2>4
    <3>. QED
      BY <1>1, <2>2, <2>4, <3>1
  <2>6. inwd' \in [Names -> 0..lastWd']
    <3>1. 0..lastWd \subseteq 0..lastWd' /\ wd \in 0..lastWd'
      BY <1>1, <2>4
    <3>. QED
      BY <1>1, <2>2, <3>1
  <2>7. ASSUME NEW j \in Files, NEW k \in Files, watchOf'[j] = watchOf'[k], j # k
        PROVE  watchOf'[j] = 0
    BY <1>1, <2>1, <2>2, <2>3, <2>7
  <2>. QED
    BY <1>1, <2>2, <2>4, <2>5, <2>6, <2>7 DEF NoWatch, DirWd
<1>. QED
  BY <1>2, <1>3

\* Initialisation.
LEMMA StartType ==
  ASSUME TypeInv, OpenLog \/ AllOpened \/ RegisterDir \/ RegisterFile \/ AllWatched
  PROVE  TypeInv'
<1>1. CASE OpenLog
  <2>. DEFINE n == Head(todo)
              s == IF Found(n) = NoFile THEN Closed ELSE Stream(Found(n), Size(Found(n)))
  <2>1. n \in Names /\ Tail(todo) \in Seq(Names)
    BY <1>1, HeadTailProperties DEF OpenLog, TypeInv, TypeOK
  <2>2. /\ s \in [on : 0..files, pos : Nat, eof : BOOLEAN]
        /\ s.on = NoFile => s = Closed
    BY <2>1, FoundType, OpenedType
  <2>3. file' = [file EXCEPT ![n] = s]
    BY <1>1 DEF OpenLog
  <2>. HIDE DEF s
  <2>4. /\ file' \in [Names -> [on : 0..files, pos : Nat, eof : BOOLEAN]]
        /\ \A m \in Names : file'[m].on = NoFile => file'[m] = Closed
    BY <2>2, <2>3, StreamType
  <2>5. UNCHANGED <<dirVars, pc, cur, chunk, inwd, matched>> /\ todo' = Tail(todo)
    BY <1>1 DEF OpenLog
  <2>6. Events' = Events
    BY <2>5 DEF Events, dirVars
  <2>. QED
    <3>1. pc = "open"
      BY <1>1 DEF OpenLog
    <3>. QED
      BY <2>1, <2>4, <2>5, <2>6, <3>1
       DEF dirVars, TypeInv, TypeOK, Shape, Closed, Handling
<1>2. CASE AllOpened \/ AllWatched
  <2>1. UNCHANGED <<dirVars, cur, chunk, inwd, file, matched>> /\ todo' \in Seq(Names)
    BY <1>2, WatcherAssumption DEF AllOpened, AllWatched, TypeInv, TypeOK
  <2>2. Events' = Events
    BY <2>1 DEF Events, dirVars
  <2>. QED
    BY <1>2, <2>1, <2>2 DEF AllOpened, AllWatched, Goes, dirVars, TypeInv, TypeOK, Shape,
                            Closed, Handling
<1>3. CASE RegisterDir
  <2>1. lastWd' \in Nat /\ lastWd <= lastWd' /\ lastWd' >= DirWd
    BY <1>3 DEF RegisterDir, TypeInv, TypeOK, Shape, DirWd, NoWatch
  <2>2. queue \in Seq(Events') /\ chunk \in Seq(Events')
    BY <2>1, EventsGrow, SeqMonotonic DEF TypeInv, TypeOK
  <2>3. /\ watchOf \in [Files -> {NoWatch} \cup (DirWd + 1)..lastWd']
        /\ inwd \in [Names -> 0..lastWd']
    <3>1. /\ 0..lastWd \subseteq 0..lastWd'
          /\ {NoWatch} \cup (DirWd + 1)..lastWd \subseteq {NoWatch} \cup (DirWd + 1)..lastWd'
      BY <2>1 DEF DirWd, TypeInv, TypeOK
    <3>. QED
      BY <3>1 DEF TypeInv, TypeOK
  <2>. QED
    BY <1>3, <2>1, <2>2, <2>3
       DEF RegisterDir, Goes, TypeInv, TypeOK, Shape, Closed, Handling
<1>4. CASE RegisterFile
  <2>1. dirWatched /\ todo # <<>>
    BY <1>4 DEF RegisterFile, Goes, TypeInv, Shape
  <2>2. Head(todo) \in Names /\ Tail(todo) \in Seq(Names)
    BY <2>1, HeadTailProperties DEF TypeInv, TypeOK
  <2>3. /\ dirWatched' /\ lastWd' \in Nat /\ lastWd <= lastWd' /\ lastWd' >= DirWd
        /\ watchOf' \in [Files -> {NoWatch} \cup (DirWd + 1)..lastWd']
        /\ \A i, j \in Files : watchOf'[i] = watchOf'[j] /\ i # j
                                 => watchOf'[i] = NoWatch
        /\ inwd' \in [Names -> 0..lastWd']
    BY <1>4, <2>1, <2>2, WatchType DEF RegisterFile
  <2>4. queue \in Seq(Events') /\ chunk \in Seq(Events')
    BY <2>3, EventsGrow, SeqMonotonic DEF TypeInv, TypeOK
  <2>5. dirWatched' \in BOOLEAN
    BY <1>4, <2>1 DEF RegisterFile, Watch, inotify, TypeInv, Shape
  <2>. QED
    BY <1>4, <2>2, <2>3, <2>4, <2>5
       DEF RegisterFile, Goes, contents, TypeInv, TypeOK, Shape, Closed, Handling
<1>. QED
  BY <1>1, <1>2, <1>3, <1>4

\* Reading events and finding the handler.
LEMMA EventStepType ==
  ASSUME TypeInv, ReadEvents \/ HandleEvent
  PROVE  TypeInv'
<1>1. lastWd' = lastWd /\ Events' = Events
  BY DEF ReadEvents, HandleEvent, Events, inotify, dirVars
<1>2. CASE ReadEvents
  BY <1>1, <1>2, EmptySeq DEF ReadEvents, contents, inotify, TypeInv, TypeOK, Shape, Closed,
                              Handling
<1>3. CASE HandleEvent
  <2>1. Head(chunk) \in Events /\ Tail(chunk) \in Seq(Events)
    BY <1>3, HeadTailProperties DEF HandleEvent, TypeInv, TypeOK
  <2>2. \/ pc' \in {"unwatch", "watch", "scan"} /\ cur' \in Names
        \/ UNCHANGED <<pc, cur>>
    BY <1>3 DEF HandleEvent
  <2>3. dirWatched
    BY <1>3 DEF HandleEvent, TypeInv, Shape
  <2>4. UNCHANGED <<dirVars, todo, inwd, file, matched>> /\ pc = "loop"
    BY <1>3 DEF HandleEvent
  <2>5. chunk' = Tail(chunk)
    BY <1>3 DEF HandleEvent
  <2>. QED
    BY <1>1, <2>1, <2>2, <2>3, <2>4, <2>5
       DEF dirVars, TypeInv, TypeOK, Shape, Closed, Handling
<1>. QED
  BY <1>2, <1>3

\* fileDeleted and fileCreated.
LEMMA HandlerType ==
  ASSUME TypeInv, RemoveWatch \/ logfile_close \/ AddWatch
  PROVE  TypeInv'
<1>1. cur \in Names /\ dirWatched
  BY DEF RemoveWatch, logfile_close, AddWatch, Goes, TypeInv, Shape, Handling
<1>2. CASE RemoveWatch
  <2>1. /\ watchOf' \in [Files -> {NoWatch} \cup (DirWd + 1)..lastWd]
        /\ \A i, j \in Files : watchOf'[i] = watchOf'[j] /\ i # j
                                 => watchOf'[i] = NoWatch
    BY <1>2 DEF RemoveWatch, TypeInv, TypeOK
  <2>2. inwd' \in [Names -> 0..lastWd]
    <3>1. NoWatch \in 0..lastWd
      BY DEF NoWatch, TypeInv, TypeOK
    <3>. QED
      BY <1>2, <3>1 DEF RemoveWatch, TypeInv, TypeOK
  <2>3. Events' = Events
    BY <1>2 DEF RemoveWatch, Events
  <2>. QED
    BY <1>1, <1>2, <2>1, <2>2, <2>3
       DEF RemoveWatch, Goes, contents, TypeInv, TypeOK, Shape, Closed, Handling
<1>3. CASE logfile_close
  <2>1. Closed \in [on : 0..files, pos : Nat, eof : BOOLEAN]
    BY DEF Closed, NoFile, TypeInv, TypeOK
  <2>2. /\ file' \in [Names -> [on : 0..files, pos : Nat, eof : BOOLEAN]]
        /\ \A m \in Names : file'[m].on = NoFile => file'[m] = Closed
    BY <1>3, <2>1, StreamType DEF logfile_close
  <2>3. Events' = Events
    BY <1>3 DEF logfile_close, Events, dirVars
  <2>. QED
    BY <1>1, <1>3, <2>2, <2>3
       DEF logfile_close, Goes, dirVars, TypeInv, TypeOK, Shape, Closed, Handling
<1>4. CASE AddWatch
  <2>1. /\ dirWatched' /\ lastWd' \in Nat /\ lastWd <= lastWd' /\ lastWd' >= DirWd
        /\ watchOf' \in [Files -> {NoWatch} \cup (DirWd + 1)..lastWd']
        /\ \A i, j \in Files : watchOf'[i] = watchOf'[j] /\ i # j
                                 => watchOf'[i] = NoWatch
        /\ inwd' \in [Names -> 0..lastWd']
    BY <1>1, <1>4, WatchType DEF AddWatch
  <2>2. queue \in Seq(Events') /\ chunk \in Seq(Events')
    BY <2>1, EventsGrow, SeqMonotonic DEF TypeInv, TypeOK
  <2>3. dirWatched' \in BOOLEAN
    BY <1>1, <1>4 DEF AddWatch, Watch, inotify, TypeInv, Shape
  <2>. QED
    BY <1>1, <1>4, <2>1, <2>2, <2>3
       DEF AddWatch, contents, TypeInv, TypeOK, Shape, Closed, Handling
<1>. QED
  BY <1>2, <1>3, <1>4

\* logfile_scan.
LEMMA ScanType ==
  ASSUME TypeInv, CloseToReopen \/ CheckFile \/ OpenToScan \/ ReopenTruncated \/ GetLines
  PROVE  TypeInv'
<1>. DEFINE i == Found(cur)
            Streams == [on : 0..files, pos : Nat, eof : BOOLEAN]
<1>1. /\ cur \in Names /\ dirWatched
      /\ UNCHANGED <<dirVars, cur, todo, chunk, inwd>>
  BY DEF CloseToReopen, CheckFile, OpenToScan, ReopenTruncated, GetLines, Goes, TypeInv,
         Shape, Handling
<1>2. Events' = Events
  BY <1>1 DEF Events, dirVars
<1>3. Closed \in Streams
  BY DEF Closed, NoFile, TypeInv, TypeOK
<1>4. ASSUME NEW s \in Streams, s.on = NoFile => s = Closed,
             file' = [file EXCEPT ![cur] = s], matched' = matched,
             pc' \in Handling \cup {"loop"}, pc' \in {"gets", "truncated"} => s.on # NoFile
      PROVE  TypeInv'
  <2>1. /\ file' \in [Names -> Streams]
        /\ \A m \in Names : file'[m].on = NoFile => file'[m] = Closed
    BY <1>4, StreamType
  <2>2. file'[cur] = s
    BY <1>1, <1>4 DEF TypeInv, TypeOK
  <2>. QED
    BY <1>1, <1>2, <1>4, <2>1, <2>2
       DEF dirVars, TypeInv, TypeOK, Shape, Closed, Handling
<1>5. CASE CloseToReopen
  BY <1>3, <1>4, <1>5 DEF CloseToReopen, Goes, Handling
<1>6. CASE CheckFile
  <2>1. file[cur].on = NoFile => file[cur] = Closed
    BY <1>1 DEF TypeInv, Shape
  <2>. QED
    BY <1>1, <1>2, <1>6, <2>1
       DEF CheckFile, dirVars, TypeInv, TypeOK, Shape, Closed, Handling
<1>7. CASE OpenToScan
  <2>1. CASE i = NoFile
    BY <1>1, <1>2, <1>7, <2>1
       DEF OpenToScan, dirVars, TypeInv, TypeOK, Shape, Closed, Handling
  <2>2. CASE i # NoFile
    <3>1. PICK pos \in {0, Size(i)} : file' = [file EXCEPT ![cur] = Stream(i, pos)]
      BY <1>7, <2>2 DEF OpenToScan
    <3>2. pos \in Nat
      BY <1>1, <2>2, FoundType
    <3>3. Stream(i, pos) \in Streams /\ Stream(i, pos).on = i
      BY <1>1, <2>2, <3>2, OpenedType
    <3>. QED
      BY <1>4, <1>7, <2>2, <3>1, <3>3 DEF OpenToScan, Handling
  <2>. QED
    BY <2>1, <2>2
<1>8. CASE ReopenTruncated
  <2>. DEFINE s == IF i = NoFile THEN Closed ELSE Stream(i, Size(i))
  <2>1. s \in Streams /\ (s.on = NoFile => s = Closed)
    BY <1>1, <1>3, FoundType, OpenedType
  <2>2. file' = [file EXCEPT ![cur] = s] /\ matched' = matched /\ pc' = "loop"
    BY <1>8 DEF ReopenTruncated, Goes
  <2>. HIDE DEF s
  <2>. QED
    BY <1>4, <2>1, <2>2
<1>9. CASE GetLines
  <2>. DEFINE t     == file[cur]
              lines == IF t.eof /\ StickyEOF THEN <<>>
                       ELSE SubSeq(content[t.on], t.pos + 1, Size(t.on))
              s     == [t EXCEPT !.pos = t.pos + Len(lines), !.eof = (lines = <<>>)]
  <2>1. /\ t \in Streams /\ t.on # NoFile
        /\ content[t.on] \in Seq(0..written) /\ Size(t.on) = Len(content[t.on])
    <3>1. t \in Streams /\ t.on # NoFile
      BY <1>1, <1>9 DEF GetLines, TypeInv, TypeOK, Shape
    <3>2. t.on \in Files
      BY <3>1, LogDirectoryAssumption DEF TypeInv, TypeOK, Files, NoFile
    <3>. QED
      BY <3>1, <3>2 DEF Size, TypeInv, TypeOK
  <2>2. lines \in Seq(0..written) /\ Len(lines) \in Nat
    <3>1. Len(content[t.on]) \in Nat /\ \A k \in 1..Len(content[t.on]) : content[t.on][k] \in 0..written
      BY <2>1, LenProperties
    <3>2. SubSeq(content[t.on], t.pos + 1, Size(t.on)) \in Seq(0..written)
      BY <2>1, <3>1, SubSeqProperties
    <3>3. lines \in Seq(0..written)
      BY <3>2, EmptySeq
    <3>. QED
      BY <3>3, LenProperties
  <2>3. /\ pc = "gets" /\ matched' = [matched EXCEPT ![cur] = @ \o lines]
        /\ file' = [file EXCEPT ![cur] = s]
        /\ pc' \in {"loop", "gets"}
    <3>1. pc = "gets" /\ matched' = [matched EXCEPT ![cur] = @ \o lines]
            /\ pc' \in {"loop", "gets"}
      BY <1>9 DEF GetLines
    <3>2. file' = [file EXCEPT ![cur].pos = @ + Len(lines), ![cur].eof = (lines = <<>>)]
      BY <1>9 DEF GetLines
    <3>3. file' = [file EXCEPT ![cur] = s]
      BY <1>1, <3>2 DEF TypeInv, TypeOK
    <3>. QED
      BY <3>1, <3>3
  <2>. HIDE DEF lines
  <2>4. s \in Streams /\ s.on = t.on
    <3>1. t.pos + Len(lines) \in Nat /\ (lines = <<>>) \in BOOLEAN
      BY <2>1, <2>2
    <3>. QED
      BY <2>1, <3>1
  <2>5. matched' \in [Names -> Seq(0..written)]
    <3>1. matched \in [Names -> Seq(0..written)]
      BY DEF TypeInv, TypeOK
    <3>2. matched[cur] \o lines \in Seq(0..written)
      BY <1>1, <2>2, <3>1, ConcatProperties
    <3>. QED
      BY <2>3, <3>1, <3>2
  <2>. HIDE DEF s
  <2>6. /\ file' \in [Names -> Streams]
        /\ \A m \in Names : file'[m].on = NoFile => file'[m] = Closed
    BY <2>1, <2>3, <2>4, StreamType
  <2>7. file'[cur].on # NoFile
    BY <1>1, <2>1, <2>3, <2>4 DEF TypeInv, TypeOK
  <2>. QED
    BY <1>1, <1>2, <2>3, <2>5, <2>6, <2>7
       DEF dirVars, TypeInv, TypeOK, Shape, Closed, Handling
<1>. QED
  BY <1>5, <1>6, <1>7, <1>8, <1>9

LEMMA TypeInit == Init => TypeInv
<1>. SUFFICES ASSUME Init PROVE TypeInv
  OBVIOUS
<1>. USE DEF Init, DirInit
<1>1. scenario.lines \in Nat /\ scenario.most \in Nat /\ MaxFiles \in Nat
  BY LogDirectoryAssumption
<1>2. /\ content \in [Files -> Seq(0..written)]
      /\ matched \in [Names -> Seq(0..written)]
  <2>1. <<>> \in Seq(0..0) /\ <<0>> \in Seq(0..0)
    OBVIOUS
  <2>2. \A i \in Files : content[i] \in Seq(0..0)
    BY <2>1
  <2>. QED
    BY <2>1, <2>2
<1>3. queue \in Seq(Events) /\ chunk \in Seq(Events)
  BY EmptySeq
<1>4. file \in [Names -> [on : 0..files, pos : Nat, eof : BOOLEAN]]
  BY <1>1 DEF Closed, NoFile
<1>5. todo \in Seq(Names)
  BY WatcherAssumption
<1>6. watchOf \in [Files -> {NoWatch} \cup (DirWd + 1)..lastWd]
  OBVIOUS
<1>7. TypeOK
  <2>1. /\ files \in 0..MaxFiles /\ entry \in [Names -> 0..files]
        /\ readable \subseteq 1..files
    OBVIOUS
  <2>2. inwd \in [Names -> 0..lastWd] /\ lastWd \in Nat
    BY DEF NoWatch
  <2>3. written \in 0..scenario.lines /\ changes \in 0..scenario.most
    BY <1>1
  <2>. QED
    BY <1>2, <1>3, <1>4, <1>5, <1>6, <2>1, <2>2, <2>3 DEF TypeOK
<1>8. Shape
  BY DEF Shape, Handling, Closed
<1>. QED
  BY <1>7, <1>8 DEF TypeInv

LEMMA TypeStep == TypeInv /\ [Next]_vars => TypeInv'
<1>. SUFFICES ASSUME TypeInv, [Next]_vars PROVE TypeInv'
  OBVIOUS
<1>1. CASE MainThread
  BY <1>1, StartType, EventStepType, HandlerType, ScanType DEF MainThread
<1>2. CASE Others
  BY <1>2, OthersType
<1>3. CASE UNCHANGED vars
  <2>1. Events' = Events
    BY <1>3 DEF Events, vars, dirVars
  <2>. QED
    BY <1>3, <2>1 DEF vars, dirVars, llad, TypeInv, TypeOK, Shape, Closed
<1>. QED
  BY <1>1, <1>2, <1>3 DEF Next, Asleep

LEMMA TypeInvCorrect == Spec => []TypeInv
  BY TypeInit, TypeStep, PTL DEF Spec

\* Every variable stays in its range, for any log files, changes and limits;
\* in particular no two files share a watch descriptor.
THEOREM TypeCorrect == Spec => []TypeOK
<1>1. TypeInv => TypeOK
  BY DEF TypeInv
<1>. QED
  BY <1>1, TypeInvCorrect, PTL

-----------------------------------------------------------------------------
(* What is still to come: the event that is being handled, the rest of the *)
(* chunk and the queue, as one sequence.  Every step leaves it as it is,   *)
(* adds to its end, takes its head away or puts an equivalent event there. *)

Doing ==
  IF pc = "unwatch" THEN <<DirEvent("delete", cur)>>
  ELSE IF pc = "watch" THEN <<DirEvent("attrib", cur)>>
  ELSE IF pc = "scan" THEN <<FileEvent(inwd[cur])>>
  ELSE <<>>

Pending == Doing \o (chunk \o queue)

Masks == {"delete", "create", "movedto", "attrib", "movedfrom", "modify", "overflow"}

EventRecords == [mask : Masks, wd : Nat, name : Names \cup {NoName}]

\* q is p with e at its end, added or there already.
Extended(p, q, e) ==
  /\ Len(q) \in {Len(p), Len(p) + 1} /\ Len(q) >= 1
  /\ q[Len(q)] = e
  /\ \A k \in 1..Len(p) : q[k] = p[k]

Shortened(p, q) ==
  /\ Len(p) = Len(q) + 1
  /\ \A k \in 1..Len(q) : q[k] = p[k + 1]

\* q is p with e for its head.
Replaced(p, q, e) ==
  /\ Len(p) = Len(q) /\ Len(q) >= 1
  /\ q[1] = e
  /\ \A k \in 2..Len(q) : q[k] = p[k]

\* No event was dropped: inotify says so when it drops one.
NothingLost == \A k \in 1..Len(queue) : queue[k] # Overflow

LEMMA ConcatExtended ==
  ASSUME NEW S, NEW d \in Seq(S), NEW q \in Seq(S), NEW r \in Seq(S), NEW e \in S,
         Extended(q, r, e)
  PROVE  Extended(d \o q, d \o r, e)
<1>. DEFINE p == d \o q
            s == d \o r
<1>1. /\ Len(d) \in Nat /\ Len(q) \in Nat /\ Len(r) \in Nat
      /\ Len(p) = Len(d) + Len(q) /\ Len(s) = Len(d) + Len(r)
  BY ConcatProperties, LenProperties
<1>2. \A k \in 1..Len(d) + Len(q) : p[k] = IF k <= Len(d) THEN d[k] ELSE q[k - Len(d)]
  BY ConcatProperties
<1>3. \A k \in 1..Len(d) + Len(r) : s[k] = IF k <= Len(d) THEN d[k] ELSE r[k - Len(d)]
  BY ConcatProperties
<1>. HIDE DEF p, s
<1>4. /\ Len(r) \in {Len(q), Len(q) + 1} /\ Len(r) >= 1 /\ r[Len(r)] = e
      /\ \A k \in 1..Len(q) : r[k] = q[k]
  BY DEF Extended
<1>5. s[Len(s)] = e
  <2>1. Len(s) \in 1..Len(d) + Len(r) /\ ~(Len(s) <= Len(d)) /\ Len(s) - Len(d) = Len(r)
    BY <1>1, <1>4
  <2>. QED
    BY <1>3, <1>4, <2>1
<1>6. ASSUME NEW k \in 1..Len(p)
      PROVE  s[k] = p[k]
  <2>1. k \in 1..Len(d) + Len(q) /\ k \in 1..Len(d) + Len(r)
    BY <1>1, <1>4
  <2>2. CASE k <= Len(d)
    BY <1>2, <1>3, <2>1, <2>2
  <2>3. CASE ~(k <= Len(d))
    <3>1. k - Len(d) \in 1..Len(q)
      BY <1>1, <2>1, <2>3
    <3>. QED
      BY <1>2, <1>3, <1>4, <2>1, <2>3, <3>1
  <2>. QED
    BY <2>2, <2>3
<1>7. Extended(p, s, e)
  <2>1. Len(s) \in {Len(p), Len(p) + 1} /\ Len(s) >= 1
    <3>1. CASE Len(r) = Len(q)
      BY <1>1, <1>4, <3>1
    <3>2. CASE Len(r) = Len(q) + 1
      BY <1>1, <1>4, <3>2
    <3>. QED
      BY <1>4, <3>1, <3>2
  <2>. QED
    BY <1>5, <1>6, <2>1 DEF Extended
<1>. QED
  BY <1>7 DEF p, s

LEMMA EventRecordsType ==
  /\ \A w \in Nat : FileEvent(w) \in EventRecords
  /\ \A m \in Masks, n \in Names : DirEvent(m, n) \in EventRecords
  /\ Overflow \in EventRecords
<1>1. \A w \in Nat : FileEvent(w) \in EventRecords
  BY DEF EventRecords, FileEvent, Masks
<1>2. \A m \in Masks, n \in Names : DirEvent(m, n) \in EventRecords
  BY DEF EventRecords, DirEvent, DirWd
<1>3. Overflow \in EventRecords
  BY DEF EventRecords, Overflow, NoWatch, Masks
<1>. QED
  BY <1>1, <1>2, <1>3

LEMMA PendingType ==
  ASSUME TypeInv
  PROVE  /\ Doing \in Seq(EventRecords) /\ Pending \in Seq(EventRecords)
         /\ chunk \in Seq(EventRecords) /\ queue \in Seq(EventRecords)
         /\ chunk \o queue \in Seq(EventRecords)
<1>1. Events \subseteq EventRecords
  <2>1. lastWd \in Nat
    BY DEF TypeInv, TypeOK
  <2>2. {FileEvent(wd) : wd \in 1..lastWd} \subseteq EventRecords
    BY <2>1, EventRecordsType
  <2>3. {DirEvent(m, n) : m \in {"delete", "create", "movedto", "attrib", "movedfrom"},
                          n \in Names} \subseteq EventRecords
    BY EventRecordsType DEF Masks
  <2>. QED
    BY <2>2, <2>3, EventRecordsType DEF Events
<1>2. chunk \in Seq(EventRecords) /\ queue \in Seq(EventRecords)
  BY <1>1, SeqMonotonic DEF TypeInv, TypeOK
<1>3. Doing \in Seq(EventRecords)
  <2>1. pc \in {"unwatch", "watch", "scan"} => cur \in Names
    BY DEF TypeInv, Shape, Handling
  <2>2. pc = "scan" => inwd[cur] \in Nat
    BY <2>1 DEF TypeInv, TypeOK
  <2>3. \A n \in Names, w \in Nat :
          /\ <<DirEvent("delete", n)>> \in Seq(EventRecords)
          /\ <<DirEvent("attrib", n)>> \in Seq(EventRecords)
          /\ <<FileEvent(w)>> \in Seq(EventRecords)
    <3>1. \A e \in EventRecords : <<e>> \in Seq(EventRecords)
      OBVIOUS
    <3>2. "delete" \in Masks /\ "attrib" \in Masks
      BY DEF Masks
    <3>. QED
      BY EventRecordsType, <3>1, <3>2, Zenon
  <2>. QED
    BY <2>1, <2>2, <2>3, EmptySeq DEF Doing
<1>. QED
  BY <1>2, <1>3, ConcatProperties DEF Pending

\* A set of natural numbers has a smallest member.
LEMMA Smallest ==
  ASSUME NEW T \in SUBSET Nat, T # {}
  PROVE  \E k \in T : \A j \in T : k <= j
<1>. DEFINE R     == StrictSubsetOrdering(Nat)
            Below == {1..k : k \in T}
<1>1. IsWellFoundedOn(R, FiniteSubsetsOf(Nat))
  BY FS_StrictSubsetOrderingWellFounded
<1>2. Below \subseteq FiniteSubsetsOf(Nat) /\ Below # {}
  <2>1. \A k \in Nat : IsFiniteSet(1..k) /\ 1..k \in SUBSET Nat
    BY FS_Interval
  <2>. QED
    BY <2>1 DEF FiniteSubsetsOf
<1>3. PICK x \in Below : \A y \in Below : ~(<<y, x>> \in R)
  BY <1>1, <1>2, WFMin
<1>4. PICK k \in T : x = 1..k
  BY <1>3
<1>5. ASSUME NEW j \in T, ~(k <= j)
      PROVE  FALSE
  <2>1. 1..j \in SUBSET Nat /\ 1..k \in SUBSET Nat /\ 1..j \subseteq 1..k /\ k \in 1..k
          /\ k \notin 1..j
    BY <1>5
  <2>2. 1..j # 1..k
    BY <2>1
  <2>3. <<1..j, 1..k>> \in R
    BY <2>1, <2>2 DEF StrictSubsetOrdering
  <2>. QED
    BY <1>3, <1>4, <2>3
<1>. QED
  BY <1>5

\* findFile finds a log file that has the descriptor, if there is one.
LEMMA FindFile ==
  ASSUME NEW wd
  PROVE  /\ findFile(wd) = NoName \/ (findFile(wd) \in Names /\ inwd[findFile(wd)] = wd)
         /\ (\E n \in Names : inwd[n] = wd) => findFile(wd) \in Names
<1>. DEFINE hits  == {k \in DOMAIN LogList : inwd[LogList[k]] = wd}
            first == CHOOSE k \in hits : \A j \in hits : k <= j
<1>1. /\ DOMAIN LogList \subseteq Nat
      /\ \A k \in DOMAIN LogList : LogList[k] \in Names
  <2>1. Len(LogList) \in Nat /\ DOMAIN LogList = 1..Len(LogList)
    BY WatcherAssumption, LenProperties
  <2>. QED
    BY <2>1, WatcherAssumption
<1>2. (\E n \in Names : inwd[n] = wd) => hits # {}
  BY WatcherAssumption
<1>3. hits # {} => first \in hits
  BY <1>1, Smallest
<1>4. findFile(wd) = IF hits = {} THEN NoName ELSE LogList[first]
  BY DEF findFile
<1>. HIDE DEF first
<1>. QED
  BY <1>1, <1>2, <1>3, <1>4

-----------------------------------------------------------------------------
(* What the steps do to the pending events.                                *)

LEMMA QueuedRecords ==
  ASSUME NEW q \in Seq(EventRecords), NEW e \in EventRecords
  PROVE  Queued(q, e) \in Seq(EventRecords)
  BY EventRecordsType DEF Queued

LEMMA QueuedExtends ==
  ASSUME NEW q \in Seq(EventRecords), NEW e \in EventRecords, e # Overflow,
         \A k \in 1..Len(Queued(q, e)) : Queued(q, e)[k] # Overflow
  PROVE  Queued(q, e) \in Seq(EventRecords) /\ Extended(q, Queued(q, e), e)
<1>1. Len(q) \in Nat /\ (q # <<>> => Len(q) >= 1)
  BY EmptySeq
<1>2. \A x \in EventRecords :
        /\ Append(q, x) \in Seq(EventRecords) /\ Len(Append(q, x)) = Len(q) + 1
        /\ Append(q, x)[Len(q) + 1] = x
        /\ \A k \in 1..Len(q) : Append(q, x)[k] = q[k]
  BY AppendProperties
<1>3. Overflow \in EventRecords
  BY EventRecordsType
<1>4. CASE q # <<>> /\ q[Len(q)] = e
  BY <1>1, <1>4 DEF Queued, Extended
<1>5. CASE Queued(q, e) = Append(q, e)
  BY <1>1, <1>2, <1>5 DEF Extended
<1>6. CASE Queued(q, e) = Append(q, Overflow)
  <2>1. Queued(q, e)[Len(q) + 1] = Overflow /\ Len(q) + 1 \in 1..Len(Queued(q, e))
    BY <1>1, <1>2, <1>3, <1>6
  <2>. QED
    BY <2>1
<1>7. CASE Queued(q, e) = q /\ q # <<>> /\ q[Len(q)] = Overflow
  <2>1. Len(q) \in 1..Len(q)
    BY <1>1, <1>7
  <2>. QED
    BY <1>7, <2>1
<1>. QED
  BY <1>4, <1>5, <1>6, <1>7 DEF Queued

\* What follows an event of the queue.
LEMMA QueueExtends ==
  ASSUME TypeInv, UNCHANGED llad, NEW e \in EventRecords,
         queue' \in Seq(EventRecords), Extended(queue, queue', e)
  PROVE  Extended(Pending, Pending', e)
<1>1. /\ Doing \in Seq(EventRecords) /\ chunk \in Seq(EventRecords)
      /\ queue \in Seq(EventRecords)
      /\ chunk \o queue \in Seq(EventRecords) /\ chunk \o queue' \in Seq(EventRecords)
  BY PendingType, ConcatProperties
<1>2. Extended(chunk \o queue, chunk \o queue', e)
  BY <1>1, ConcatExtended
<1>3. Extended(Doing \o (chunk \o queue), Doing \o (chunk \o queue'), e)
  BY <1>1, <1>2, ConcatExtended
<1>4. Doing' = Doing /\ chunk' = chunk
  BY DEF llad, Doing
<1>. QED
  BY <1>3, <1>4 DEF Pending

LEMMA NotifyDirPending ==
  ASSUME TypeInv, UNCHANGED llad, dirWatched, NothingLost', NEW n \in Names,
         NEW m \in {"delete", "create", "movedto", "attrib", "movedfrom"},
         NotifyDir(m, n)
  PROVE  Extended(Pending, Pending', DirEvent(m, n))
<1>1. DirEvent(m, n) \in EventRecords /\ DirEvent(m, n) # Overflow
  BY EventRecordsType DEF Masks, DirEvent, Overflow
<1>2. queue' = Queued(queue, DirEvent(m, n))
  BY DEF NotifyDir
<1>3. queue' \in Seq(EventRecords) /\ Extended(queue, queue', DirEvent(m, n))
  BY <1>1, <1>2, PendingType, QueuedExtends DEF NothingLost
<1>. QED
  BY <1>1, <1>3, QueueExtends

LEMMA NotifyFilePending ==
  ASSUME TypeInv, UNCHANGED llad, NothingLost', NEW i \in Files, NotifyFile(i)
  PROVE  /\ watchOf[i] = NoWatch => Pending' = Pending
         /\ watchOf[i] # NoWatch => Extended(Pending, Pending', FileEvent(watchOf[i]))
<1>1. CASE watchOf[i] = NoWatch
  BY <1>1 DEF NotifyFile, Pending, Doing, llad
<1>2. CASE watchOf[i] # NoWatch
  <2>1. watchOf[i] \in Nat
    BY DEF TypeInv, TypeOK, NoWatch, DirWd
  <2>2. FileEvent(watchOf[i]) \in EventRecords /\ FileEvent(watchOf[i]) # Overflow
    BY <2>1, EventRecordsType DEF FileEvent, Overflow
  <2>3. queue' = Queued(queue, FileEvent(watchOf[i]))
    BY <1>2 DEF NotifyFile
  <2>4. queue' \in Seq(EventRecords) /\ Extended(queue, queue', FileEvent(watchOf[i]))
    BY <2>2, <2>3, PendingType, QueuedExtends DEF NothingLost
  <2>. QED
    BY <1>2, <2>2, <2>4, QueueExtends
<1>. QED
  BY <1>1, <1>2

\* A renamed file is two events, one after the other.
LEMMA RenamePending ==
  ASSUME TypeInv, UNCHANGED llad, dirWatched, NothingLost',
         NEW n \in Names, NEW m \in Names, Rename(n, m)
  PROVE  \E p \in Seq(EventRecords) :
           /\ Extended(Pending, p, DirEvent("movedfrom", n))
           /\ Extended(p, Pending', DirEvent("movedto", m))
<1>. DEFINE e == DirEvent("movedfrom", n)
            f == DirEvent("movedto", m)
            q == Queued(queue, e)
<1>1. e \in EventRecords /\ e # Overflow /\ f \in EventRecords /\ f # Overflow
  BY EventRecordsType DEF Masks, DirEvent, Overflow
<1>2. queue' = Queued(q, f)
  BY DEF Rename
<1>3. queue \in Seq(EventRecords) /\ q \in Seq(EventRecords)
  BY <1>1, PendingType, QueuedRecords
<1>. HIDE DEF e, f, q
<1>4. \A k \in 1..Len(q) : q[k] # Overflow
  <2>1. Queued(q, f) = q \/ \E x \in EventRecords : Queued(q, f) = Append(q, x)
    BY <1>1, EventRecordsType DEF Queued
  <2>2. Len(q) <= Len(Queued(q, f)) /\ \A k \in 1..Len(q) : Queued(q, f)[k] = q[k]
    BY <1>3, <2>1, AppendProperties, LenProperties
  <2>3. Len(q) \in Nat /\ Len(Queued(q, f)) \in Nat
    BY <1>1, <1>3, QueuedRecords, LenProperties
  <2>. QED
    BY <1>2, <2>2, <2>3 DEF NothingLost
<1>5. Extended(queue, q, e)
  BY <1>1, <1>3, <1>4, QueuedExtends DEF q
<1>6. queue' \in Seq(EventRecords) /\ Extended(q, queue', f)
  BY <1>1, <1>2, <1>3, QueuedExtends DEF NothingLost
<1>. DEFINE p == Doing \o (chunk \o q)
<1>7. /\ Doing \in Seq(EventRecords) /\ chunk \in Seq(EventRecords)
      /\ chunk \o queue \in Seq(EventRecords) /\ chunk \o q \in Seq(EventRecords)
      /\ chunk \o queue' \in Seq(EventRecords) /\ p \in Seq(EventRecords)
  BY <1>3, <1>6, PendingType, ConcatProperties
<1>8. Extended(Pending, p, e)
  <2>1. Extended(chunk \o queue, chunk \o q, e)
    BY <1>1, <1>3, <1>5, <1>7, ConcatExtended
  <2>. QED
    BY <1>1, <1>7, <2>1, ConcatExtended DEF Pending
<1>9. Extended(p, Pending', f)
  <2>1. Extended(chunk \o q, chunk \o queue', f)
    BY <1>1, <1>3, <1>6, <1>7, ConcatExtended
  <2>2. Extended(p, Doing \o (chunk \o queue'), f)
    BY <1>1, <1>7, <2>1, ConcatExtended
  <2>3. Doing' = Doing /\ chunk' = chunk
    BY DEF llad, Doing
  <2>. QED
    BY <2>2, <2>3 DEF Pending
<1>. QED
  BY <1>7, <1>8, <1>9 DEF e, f

\* Steps that neither begin nor end the handling of an event.
LEMMA SamePending ==
  ASSUME TypeInv,
         \/ OpenLog \/ AllOpened \/ RegisterDir \/ RegisterFile \/ AllWatched
         \/ ReadEvents \/ logfile_close \/ CloseToReopen \/ OpenToScan
         \/ ReopenTruncated \/ GetLines
  PROVE  Pending' = Pending
<1>1. Doing = <<>> /\ Doing' = <<>>
  BY DEF Doing, OpenLog, AllOpened, RegisterDir, RegisterFile, AllWatched, ReadEvents,
         logfile_close, CloseToReopen, OpenToScan, ReopenTruncated, GetLines, Goes
<1>2. CASE ReadEvents
  <2>1. chunk \o queue = queue /\ queue \o <<>> = queue
    BY <1>2, PendingType, ConcatEmptySeq DEF ReadEvents
  <2>2. chunk' \o queue' = queue \o <<>>
    BY <1>2 DEF ReadEvents
  <2>. QED
    BY <1>1, <2>1, <2>2 DEF Pending
<1>3. CASE UNCHANGED <<chunk, queue>>
  BY <1>1, <1>3 DEF Pending
<1>. QED
  BY <1>2, <1>3 DEF OpenLog, AllOpened, RegisterDir, RegisterFile, AllWatched,
     logfile_close, CloseToReopen, OpenToScan, ReopenTruncated, GetLines, dirVars, contents

LEMMA PushedPending ==
  ASSUME NEW s \in Seq(EventRecords), NEW e \in EventRecords
  PROVE  /\ Len(<<e>> \o s) = Len(s) + 1 /\ (<<e>> \o s)[1] = e
         /\ \A k \in 1..Len(s) : (<<e>> \o s)[k + 1] = s[k]
         /\ Shortened(<<e>> \o s, <<>> \o s)
<1>. DEFINE p == <<e>> \o s
<1>1. <<e>> \in Seq(EventRecords) /\ Len(<<e>>) = 1 /\ <<e>>[1] = e /\ Len(s) \in Nat
  BY LenProperties
<1>2. /\ Len(p) = Len(<<e>>) + Len(s)
      /\ \A k \in 1..Len(<<e>>) + Len(s) :
           p[k] = IF k <= Len(<<e>>) THEN <<e>>[k] ELSE s[k - Len(<<e>>)]
  BY <1>1, ConcatProperties
<1>. HIDE DEF p
<1>3. Len(p) = Len(s) + 1 /\ p[1] = e
  BY <1>1, <1>2
<1>4. ASSUME NEW k \in 1..Len(s)
      PROVE  p[k + 1] = s[k]
  <2>1. k + 1 \in 1..1 + Len(s) /\ ~(k + 1 <= 1) /\ (k + 1) - 1 = k
    BY <1>1
  <2>. QED
    BY <1>1, <1>2, <2>1
<1>5. <<>> \o s = s
  BY ConcatEmptySeq
<1>6. Shortened(p, s)
  BY <1>3, <1>4 DEF Shortened
<1>. QED
  BY <1>3, <1>4, <1>5, <1>6 DEF p

\* Steps that do what an event calls for, or find out that it is nothing.
LEMMA DonePending ==
  ASSUME TypeInv, RemoveWatch \/ AddWatch \/ CheckFile
  PROVE  /\ Shortened(Pending, Pending')
         /\ pc = "unwatch" => Pending[1] = DirEvent("delete", cur)
         /\ pc = "watch"   => Pending[1] = DirEvent("attrib", cur)
         /\ pc = "scan"    => Pending[1] = FileEvent(inwd[cur])
<1>1. Doing' = <<>> /\ UNCHANGED <<chunk, queue>>
  BY DEF Doing, RemoveWatch, AddWatch, CheckFile, Goes, dirVars, Watch, inotify
<1>2. cur \in Names /\ inwd[cur] \in Nat
  BY DEF RemoveWatch, AddWatch, CheckFile, Goes, TypeInv, TypeOK, Shape, Handling
<1>3. PICK e \in EventRecords : /\ Doing = <<e>>
                                /\ pc = "unwatch" => e = DirEvent("delete", cur)
                                /\ pc = "watch"   => e = DirEvent("attrib", cur)
                                /\ pc = "scan"    => e = FileEvent(inwd[cur])
  <2>1. /\ DirEvent("delete", cur) \in EventRecords
        /\ DirEvent("attrib", cur) \in EventRecords
        /\ FileEvent(inwd[cur]) \in EventRecords
    BY <1>2, EventRecordsType DEF Masks
  <2>2. pc \in {"unwatch", "watch", "scan"}
    BY DEF RemoveWatch, AddWatch, CheckFile, Goes
  <2>. QED
    BY <2>1, <2>2 DEF Doing
<1>. DEFINE s == chunk \o queue
<1>4. s \in Seq(EventRecords)
  BY PendingType
<1>5. Pending = <<e>> \o s /\ Pending' = <<>> \o s
  BY <1>1, <1>3 DEF Pending
<1>. HIDE DEF s
<1>. QED
  BY <1>3, <1>4, <1>5, PushedPending

\* The head of the chunk becomes the event that is being handled, or it is
\* dropped.
LEMMA HandlePending ==
  ASSUME TypeInv, HandleEvent
  PROVE  /\ Len(Pending) >= 1 /\ Pending[1] = Head(chunk)
         /\ pc' = "unwatch" => Replaced(Pending, Pending', DirEvent("delete", cur'))
         /\ pc' = "watch"   => Replaced(Pending, Pending', DirEvent("attrib", cur'))
         /\ pc' = "scan"    => Pending' = Pending /\ Pending[1] = FileEvent(inwd[cur'])
         /\ pc' = "loop"    => Shortened(Pending, Pending')
<1>. DEFINE e == Head(chunk)
            s == Tail(chunk) \o queue
<1>1. /\ pc = "loop" /\ chunk # <<>> /\ chunk' = Tail(chunk)
      /\ UNCHANGED <<queue, inwd>>
  BY DEF HandleEvent, dirVars
<1>2. /\ e \in EventRecords /\ e \in Events /\ Tail(chunk) \in Seq(EventRecords)
      /\ s \in Seq(EventRecords)
  BY <1>1, PendingType, HeadTailProperties, ConcatProperties DEF TypeInv, TypeOK
<1>3. Pending = <<e>> \o s
  <2>1. chunk = <<e>> \o Tail(chunk) /\ <<e>> \in Seq(EventRecords)
    BY <1>1, <1>2, PendingType
  <2>2. (<<e>> \o Tail(chunk)) \o queue = <<e>> \o s
    BY <1>2, <2>1, PendingType, ConcatAssociative
  <2>3. Pending = <<>> \o (chunk \o queue)
    BY <1>1 DEF Pending, Doing
  <2>4. <<>> \o (chunk \o queue) = chunk \o queue
    BY PendingType, ConcatEmptySeq
  <2>. QED
    BY <2>1, <2>2, <2>3, <2>4, Zenon
<1>. HIDE DEF e
<1>4. chunk' \o queue' = s
  BY <1>1
<1>5. /\ pc' = "unwatch" => Pending' = <<DirEvent("delete", cur')>> \o s
      /\ pc' = "watch"   => Pending' = <<DirEvent("attrib", cur')>> \o s
      /\ pc' = "scan"    => Pending' = <<FileEvent(inwd[cur'])>> \o s
      /\ pc' = "loop"    => Pending' = <<>> \o s
  BY <1>1, <1>4 DEF Pending, Doing
<1>. HIDE DEF s
<1>6. ASSUME NEW f \in EventRecords
      PROVE  Replaced(<<e>> \o s, <<f>> \o s, f)
  <2>1. /\ Len(<<e>> \o s) = Len(s) + 1 /\ Len(<<f>> \o s) = Len(s) + 1
        /\ (<<f>> \o s)[1] = f /\ Len(s) \in Nat
        /\ \A k \in 1..Len(s) : (<<e>> \o s)[k + 1] = s[k] /\ (<<f>> \o s)[k + 1] = s[k]
    BY <1>2, PushedPending, LenProperties
  <2>2. \A k \in 2..Len(s) + 1 : k - 1 \in 1..Len(s) /\ (k - 1) + 1 = k
    BY <2>1
  <2>. QED
    BY <2>1, <2>2 DEF Replaced
<1>7. pc' \in {"unwatch", "watch"} =>
        /\ cur' \in Names
        /\ DirEvent("delete", cur') \in EventRecords
        /\ DirEvent("attrib", cur') \in EventRecords
  BY <1>1, EventRecordsType DEF HandleEvent, Masks
<1>8. pc' = "scan" => e = FileEvent(inwd[cur'])
  <2>1. SUFFICES ASSUME pc' = "scan" PROVE e = FileEvent(inwd[cur'])
    OBVIOUS
  <2>2. cur' \in Names /\ e.mask = "modify" /\ cur' = findFile(e.wd)
    BY <1>1, <2>1 DEF HandleEvent, Modified, e
  <2>3. inwd[cur'] = e.wd
    BY <2>2, FindFile, LogDirectoryAssumption
  <2>4. e = FileEvent(e.wd)
    BY <1>2, <2>2 DEF Events, FileEvent, DirEvent, Overflow
  <2>. QED
    BY <2>3, <2>4
<1>9. Len(Pending) >= 1 /\ Pending[1] = e
  BY <1>2, <1>3, PushedPending, LenProperties
<1>10. pc' = "loop" => Shortened(Pending, Pending')
  BY <1>2, <1>3, <1>5, PushedPending
<1>11. pc' = "scan" => Pending' = Pending
  BY <1>3, <1>5, <1>8
<1>. QED
  BY <1>3, <1>5, <1>6, <1>7, <1>8, <1>9, <1>10, <1>11 DEF e

-----------------------------------------------------------------------------
(* A log file that is gone is let go, whatever happens to the files once   *)
(* everything is watched: until then an event that says so is pending.     *)

Away(e, n) == e.mask \in {"delete", "movedfrom"} /\ e.name = n

AwayIn(p, n) == \E k \in 1..Len(p) : Away(p[k], n)

LetGo(n) == inwd[n] = NoWatch /\ (file[n] = Closed \/ (pc = "close" /\ cur = n))

\* If nothing changes before everything is watched nothing is queued either,
\* and the directory is watched, if there is a log file at all.
Begun ==
  /\ Starting => queue = <<>> /\ chunk = <<>>
  /\ pc = "watchdir" => dirWatched \/ todo = LogList
  /\ ~Starting => dirWatched \/ Names = {}

GoneInv ==
  \A n \in Names : entry[n] = NoFile => LetGo(n) \/ AwayIn(Pending, n)

LEMMA BegunStep ==
  ASSUME Calm, TypeInv, Begun, [Next]_vars
  PROVE  Begun'
<1>1. CASE Others
  <2>1. ~Starting /\ UNCHANGED <<llad, dirWatched>>
    BY <1>1 DEF Others, Environment, Write, Truncate, Remove, Create, Replace, Grant,
                Revoke, Link, Rename, inotify
  <2>. QED
    BY <2>1 DEF Begun, Starting, llad
<1>2. CASE UNCHANGED vars
  BY <1>2 DEF vars, dirVars, llad, Begun, Starting
<1>3. CASE AllOpened \/ RegisterDir \/ RegisterFile \/ OpenLog
  <2>1. UNCHANGED <<queue, chunk>> /\ Starting
    BY <1>3 DEF AllOpened, RegisterDir, RegisterFile, OpenLog, dirVars, Starting, Goes
  <2>2. pc' \in {"open", "watchdir", "watchfile"}
    BY <1>3 DEF AllOpened, RegisterDir, RegisterFile, OpenLog, Goes
  <2>3. pc' = "watchdir" => dirWatched' \/ todo' = LogList
    BY <1>3 DEF AllOpened, RegisterDir, RegisterFile, OpenLog, Goes, Watch, inotify, TypeInv,
                Shape
  <2>. QED
    BY <2>1, <2>2, <2>3 DEF Begun, Starting
<1>4. CASE AllWatched
  <2>1. LogList = <<>> => Names = {}
    BY WatcherAssumption
  <2>. QED
    BY <1>4, <2>1 DEF AllWatched, Goes, dirVars, Begun, Starting
<1>5. CASE \/ ReadEvents \/ HandleEvent \/ RemoveWatch \/ logfile_close \/ AddWatch
           \/ CloseToReopen \/ CheckFile \/ OpenToScan \/ ReopenTruncated \/ GetLines
  <2>1. ~Starting /\ pc' \notin {"open", "watchdir", "watchfile"}
    BY <1>5 DEF ReadEvents, HandleEvent, RemoveWatch, logfile_close, AddWatch, CloseToReopen,
                CheckFile, OpenToScan, ReopenTruncated, GetLines, Goes, Starting
  <2>2. dirWatched' = dirWatched
    BY <1>5 DEF ReadEvents, HandleEvent, RemoveWatch, logfile_close, AddWatch, CloseToReopen,
                CheckFile, OpenToScan, ReopenTruncated, GetLines, dirVars, inotify, Watch
  <2>. QED
    BY <2>1, <2>2 DEF Begun, Starting
<1>. QED
  BY <1>1, <1>2, <1>3, <1>4, <1>5 DEF Next, MainThread, Asleep

\* What a change of the files adds is at the end.
LEMMA OthersPending ==
  ASSUME Calm, TypeInv, Begun, NothingLost', Others, NEW n \in Names
  PROVE  /\ Len(Pending) <= Len(Pending')
         /\ \A k \in 1..Len(Pending) : Pending'[k] = Pending[k]
         /\ entry[n] # NoFile /\ entry'[n] = NoFile => AwayIn(Pending', n)
<1>1. dirWatched /\ UNCHANGED llad
  BY DEF Others, Begun
<1>2. Len(Pending) \in Nat /\ Len(Pending') \in Nat /\ TypeInv'
  BY PendingType, OthersType
<1>. DEFINE Goal == /\ Len(Pending) <= Len(Pending')
                    /\ \A k \in 1..Len(Pending) : Pending'[k] = Pending[k]
                    /\ entry[n] # NoFile /\ entry'[n] = NoFile => AwayIn(Pending', n)
<1>3. ASSUME NEW e, Extended(Pending, Pending', e),
             entry'[n] = NoFile => entry[n] = NoFile \/ Away(e, n)
      PROVE  Goal
  BY <1>2, <1>3 DEF Extended, AwayIn
<1>4. CASE \E i \in Files : Write(i) \/ Truncate(i)
  <2>1. PICK i \in Files : NotifyFile(i) /\ entry' = entry
    BY <1>4 DEF Write, Truncate
  <2>. QED
    BY <1>1, <1>2, <1>3, <2>1, NotifyFilePending
<1>5. CASE \E m \in Names : Remove(m)
  <2>1. PICK m \in Names : Remove(m)
    BY <1>5
  <2>2. Extended(Pending, Pending', DirEvent("delete", m))
    BY <1>1, <2>1, NotifyDirPending DEF Remove
  <2>3. entry'[n] = NoFile => entry[n] = NoFile \/ n = m
    BY <2>1 DEF Remove, TypeInv, TypeOK
  <2>4. n = m => Away(DirEvent("delete", m), n)
    BY DEF Away, DirEvent
  <2>. QED
    BY <1>3, <2>2, <2>3, <2>4
<1>6. CASE \E m \in Names : Create(m) \/ Replace(m) \/ Grant(m) \/ Revoke(m)
  <2>1. PICK m \in Names : Create(m) \/ Replace(m) \/ Grant(m) \/ Revoke(m)
    BY <1>6
  <2>2. PICK e : Extended(Pending, Pending', e)
    BY <1>1, <2>1, NotifyDirPending DEF Create, Replace, Grant, Revoke
  <2>3. entry'[n] = NoFile => entry[n] = NoFile
    BY <2>1 DEF Create, Replace, Grant, Revoke, NewFile, TypeInv, TypeOK, NoFile
  <2>. QED
    BY <1>3, <2>2, <2>3
<1>7. CASE \E m, l \in Names : Link(m, l)
  <2>1. PICK m, l \in Names : Link(m, l)
    BY <1>7
  <2>2. Extended(Pending, Pending', DirEvent("create", l))
    BY <1>1, <2>1, NotifyDirPending DEF Link
  <2>3. entry'[n] = NoFile => entry[n] = NoFile
    BY <2>1 DEF Link, TypeInv, TypeOK, NoFile
  <2>. QED
    BY <1>3, <2>2, <2>3
<1>8. CASE \E m, l \in Names : Rename(m, l)
  <2>1. PICK m, l \in Names : Rename(m, l)
    BY <1>8
  <2>2. PICK p \in Seq(EventRecords) :
          /\ Extended(Pending, p, DirEvent("movedfrom", m))
          /\ Extended(p, Pending', DirEvent("movedto", l))
    BY <1>1, <2>1, RenamePending
  <2>3. entry'[n] = NoFile => entry[n] = NoFile \/ n = m
    BY <2>1 DEF Rename, TypeInv, TypeOK, NoFile
  <2>4. n = m => Away(DirEvent("movedfrom", m), n)
    BY DEF Away, DirEvent
  <2>5. Len(p) \in Nat
    BY LenProperties
  <2>6. /\ Len(Pending) <= Len(p) /\ Len(p) <= Len(Pending') /\ Len(p) \in 1..Len(p)
        /\ \A k \in 1..Len(Pending) : p[k] = Pending[k]
        /\ \A k \in 1..Len(p) : Pending'[k] = p[k]
        /\ p[Len(p)] = DirEvent("movedfrom", m)
    BY <1>2, <2>2, <2>5 DEF Extended
  <2>7. n = m => AwayIn(Pending', n)
    BY <1>2, <2>4, <2>5, <2>6 DEF AwayIn
  <2>. QED
    BY <1>2, <2>3, <2>5, <2>6, <2>7
<1>. QED
  BY <1>4, <1>5, <1>6, <1>7, <1>8 DEF Others, Environment

LEMMA AwayShortened ==
  ASSUME NEW p, NEW q, NEW n, Len(p) \in Nat, Len(q) \in Nat,
         Shortened(p, q), AwayIn(p, n), ~Away(p[1], n)
  PROVE  AwayIn(q, n)
<1>1. PICK k \in 1..Len(p) : Away(p[k], n)
  BY DEF AwayIn
<1>2. k # 1
  BY <1>1
<1>3. k - 1 \in 1..Len(q) /\ (k - 1) + 1 = k
  BY <1>1, <1>2 DEF Shortened
<1>. QED
  BY <1>1, <1>3 DEF Shortened, AwayIn

LEMMA AwayReplaced ==
  ASSUME NEW p, NEW q, NEW e, NEW n, Len(p) \in Nat, Len(q) \in Nat,
         Replaced(p, q, e), AwayIn(p, n), Away(p[1], n) => Away(e, n)
  PROVE  AwayIn(q, n)
<1>1. PICK k \in 1..Len(p) : Away(p[k], n)
  BY DEF AwayIn
<1>2. k = 1 \/ k \in 2..Len(q)
  BY <1>1 DEF Replaced
<1>. QED
  BY <1>1, <1>2 DEF Replaced, AwayIn

\* An event of the kind is never dropped: it leads to fileDeleted, which
\* ends with the stream closed.
LEMMA GoneStep ==
  ASSUME Calm, TypeInv, Begun, NothingLost', GoneInv, [Next]_vars
  PROVE  GoneInv'
<1>. SUFFICES ASSUME NEW n \in Names, entry'[n] = NoFile
              PROVE  LetGo(n)' \/ AwayIn(Pending', n)
  BY DEF GoneInv
<1>1. TypeInv'
  BY TypeStep
<1>2. Len(Pending) \in Nat /\ Len(Pending') \in Nat
  BY <1>1, PendingType
<1>3. CASE Others
  <2>1. CASE entry[n] # NoFile
    BY <1>3, <2>1, OthersPending
  <2>2. CASE entry[n] = NoFile
    <3>1. LetGo(n) => LetGo(n)'
      BY <1>3 DEF Others, llad, LetGo, Closed
    <3>2. AwayIn(Pending, n) => AwayIn(Pending', n)
      BY <1>2, <1>3, OthersPending DEF AwayIn
    <3>. QED
      BY <2>2, <3>1, <3>2 DEF GoneInv
  <2>. QED
    BY <2>1, <2>2
<1>4. CASE UNCHANGED vars
  BY <1>4 DEF vars, dirVars, llad, GoneInv, LetGo, AwayIn, Pending, Doing, Closed
<1>5. ASSUME MainThread
      PROVE  entry' = entry
  BY <1>5 DEF MainThread, OpenLog, AllOpened, RegisterDir, RegisterFile, AllWatched,
              ReadEvents, HandleEvent, RemoveWatch, logfile_close, AddWatch, CloseToReopen,
              CheckFile, OpenToScan, ReopenTruncated, GetLines, dirVars
<1>6. ASSUME MainThread
      PROVE  Found(n) = NoFile /\ (LetGo(n) \/ AwayIn(Pending, n))
  BY <1>5, <1>6 DEF GoneInv, Found
<1>7. CASE \/ OpenLog \/ AllOpened \/ RegisterDir \/ RegisterFile \/ AllWatched
           \/ ReadEvents \/ logfile_close \/ CloseToReopen \/ OpenToScan
           \/ ReopenTruncated \/ GetLines
  <2>1. Pending' = Pending
    BY <1>7, SamePending
  <2>2. LetGo(n) \/ AwayIn(Pending, n)
    BY <1>6, <1>7 DEF MainThread
  <2>3. Found(n) = NoFile
    BY <1>6, <1>7 DEF MainThread
  <2>4. CASE AllOpened \/ RegisterDir \/ AllWatched \/ ReadEvents
    BY <2>1, <2>2, <2>4 DEF AllOpened, RegisterDir, AllWatched, ReadEvents, Goes, LetGo, Closed
  <2>5. CASE OpenLog \/ OpenToScan \/ CloseToReopen \/ ReopenTruncated \/ logfile_close
    <3>1. (inwd' = inwd /\ pc # "close") \/ logfile_close
      BY <2>5 DEF OpenLog, OpenToScan, CloseToReopen, ReopenTruncated, Goes
    <3>2. file'[n] = file[n] \/ file'[n] = Closed
      <4>1. n \in DOMAIN file
        BY DEF TypeInv, TypeOK
      <4>. QED
        BY <2>3, <2>5, <4>1
           DEF OpenLog, OpenToScan, CloseToReopen, ReopenTruncated, logfile_close
    <3>3. CASE logfile_close
      BY <2>1, <2>2, <3>2, <3>3 DEF logfile_close, Goes, LetGo, Closed, TypeInv, TypeOK
    <3>. QED
      BY <2>1, <2>2, <3>1, <3>2, <3>3 DEF LetGo, Closed
  <2>6. CASE RegisterFile
    <3>1. inwd'[n] = inwd[n] \/ inwd'[n] = NoWatch
      BY <2>3, <2>6 DEF RegisterFile, Watch, TypeInv, TypeOK
    <3>2. file' = file /\ pc # "close"
      BY <2>6 DEF RegisterFile, Goes
    <3>. QED
      BY <2>1, <2>2, <3>1, <3>2 DEF LetGo, Closed
  <2>7. CASE GetLines
    <3>1. cur \in Names /\ file[cur] # Closed /\ pc = "gets" /\ inwd' = inwd
      BY <2>7 DEF GetLines, Closed, TypeInv, Shape, Handling
    <3>2. n # cur => file'[n] = file[n]
      BY <2>7 DEF GetLines, TypeInv, TypeOK
    <3>. QED
      BY <2>1, <2>2, <3>1, <3>2 DEF LetGo, Closed
  <2>. QED
    BY <1>7, <2>4, <2>5, <2>6, <2>7
<1>8. CASE RemoveWatch \/ AddWatch \/ CheckFile
  <2>1. /\ Shortened(Pending, Pending')
        /\ pc = "unwatch" => Pending[1] = DirEvent("delete", cur)
        /\ pc = "watch"   => Pending[1] = DirEvent("attrib", cur)
        /\ pc = "scan"    => Pending[1] = FileEvent(inwd[cur])
    BY <1>8, DonePending
  <2>2. /\ cur \in Names /\ file' = file /\ pc # "close"
        /\ LetGo(n) \/ AwayIn(Pending, n)
        /\ Found(n) = NoFile
    BY <1>6, <1>8 DEF MainThread, RemoveWatch, AddWatch, CheckFile, Goes, TypeInv, Shape,
                      Handling
  <2>3. LetGo(n) => LetGo(n)'
    <3>1. inwd'[n] = inwd[n] \/ inwd'[n] = NoWatch
      BY <1>8, <2>2 DEF RemoveWatch, AddWatch, CheckFile, Watch, TypeInv, TypeOK
    <3>. QED
      BY <2>2, <3>1 DEF LetGo, Closed
  <2>4. CASE Away(Pending[1], n)
    <3>1. RemoveWatch /\ n = cur
      <4>1. AddWatch => pc = "watch"
        BY DEF AddWatch
      <4>2. CheckFile => pc = "scan"
        BY DEF CheckFile
      <4>3. RemoveWatch => pc = "unwatch"
        BY DEF RemoveWatch, Goes
      <4>. QED
        BY <1>8, <2>1, <2>4, <4>1, <4>2, <4>3 DEF Away, DirEvent, FileEvent
    <3>. QED
      BY <3>1 DEF RemoveWatch, Goes, LetGo, TypeInv, TypeOK
  <2>. QED
    BY <1>2, <2>1, <2>2, <2>3, <2>4, AwayShortened
<1>9. CASE HandleEvent
  <2>1. /\ Len(Pending) >= 1 /\ Pending[1] = Head(chunk)
        /\ pc' = "unwatch" => Replaced(Pending, Pending', DirEvent("delete", cur'))
        /\ pc' = "watch"   => Replaced(Pending, Pending', DirEvent("attrib", cur'))
        /\ pc' = "scan"    => Pending' = Pending
        /\ pc' = "loop"    => Shortened(Pending, Pending')
    BY <1>9, HandlePending
  <2>2. LetGo(n) => LetGo(n)'
    BY <1>9 DEF HandleEvent, LetGo, Closed
  <2>3. LetGo(n) \/ AwayIn(Pending, n)
    BY <1>6, <1>9 DEF MainThread
  <2>4. CASE Away(Pending[1], n)
    <3>1. Disappeared(Head(chunk), n)
      BY <2>1, <2>4 DEF Away, Disappeared
    <3>2. pc' = "unwatch" /\ cur' = n
      BY <1>9, <3>1 DEF HandleEvent, Disappeared, Appeared, Modified
    <3>3. Pending'[1] = DirEvent("delete", n) /\ 1 \in 1..Len(Pending')
      BY <1>2, <2>1, <3>2 DEF Replaced
    <3>. QED
      BY <3>3 DEF AwayIn, Away, DirEvent
  <2>5. CASE ~Away(Pending[1], n)
    <3>1. pc' \in {"unwatch", "watch", "scan", "loop"}
      BY <1>9 DEF HandleEvent
    <3>. QED
      BY <1>2, <2>1, <2>2, <2>3, <2>5, <3>1, AwayShortened, AwayReplaced
  <2>. QED
    BY <2>4, <2>5
<1>. QED
  BY <1>3, <1>4, <1>7, <1>8, <1>9 DEF Next, MainThread, Asleep


LEMMA GoneInit == Init => Begun /\ GoneInv
<1>1. Init => Begun
  BY DEF Init, DirInit, Begun, Starting
<1>2. Init => GoneInv
  BY DEF Init, GoneInv, LetGo, Closed
<1>. QED
  BY <1>1, <1>2

\* Whatever happens to the log files once they are watched, in whatever order
\* llad learns of it: when it sleeps, a log file that is not there is neither
\* watched nor open.  It rests on nothing having changed before (Calm), and on
\* inotify not having dropped an event.
THEOREM GoneLetGo ==
  ASSUME Calm
  PROVE  Spec /\ []NothingLost => []GoneIsLetGo
<1>. DEFINE Inv == TypeInv /\ Begun /\ GoneInv
<1>1. Init => Inv
  BY TypeInit, GoneInit
<1>2. Inv /\ NothingLost' /\ [Next]_vars => Inv'
  BY TypeStep, BegunStep, GoneStep
<1>3. Inv => GoneIsLetGo
  <2>. SUFFICES ASSUME Inv, Idle, NEW n \in Names, entry[n] = NoFile
                PROVE  inwd[n] = NoWatch /\ file[n] = Closed
    BY DEF GoneIsLetGo
  <2>1. Len(Pending) = 0
    <3>1. Pending = <<>> \o (<<>> \o <<>>)
      BY DEF Idle, Pending, Doing
    <3>2. <<>> \in Seq(EventRecords)
      BY EmptySeq
    <3>. QED
      BY <3>1, <3>2, ConcatEmptySeq, EmptySeq
  <2>2. ~AwayIn(Pending, n)
    BY <2>1 DEF AwayIn
  <2>. QED
    BY <2>2 DEF Idle, GoneInv, LetGo
<1>. QED
  BY <1>1, <1>2, <1>3, PTL DEF Spec

-----------------------------------------------------------------------------
(* When nothing is lost: a line is one event at most, another change two.  *)

RoomForAll == \A s \in Scenarios : s.lines + s.most + s.most <= QueueLimit

QueueInv == Len(queue) <= written + changes + changes /\ NothingLost

LEMMA QueuedRoom ==
  ASSUME NEW q \in Seq(EventRecords), NEW e \in EventRecords, e # Overflow,
         Len(q) < QueueLimit, \A k \in 1..Len(q) : q[k] # Overflow
  PROVE  LET r == Queued(q, e) IN
           /\ r \in Seq(EventRecords) /\ Len(r) <= Len(q) + 1
           /\ \A k \in 1..Len(r) : r[k] # Overflow
<1>1. Queued(q, e) = q \/ Queued(q, e) = Append(q, e)
  BY DEF Queued
<1>2. /\ Append(q, e) \in Seq(EventRecords) /\ Len(Append(q, e)) = Len(q) + 1
      /\ Append(q, e)[Len(q) + 1] = e
      /\ \A k \in 1..Len(q) : Append(q, e)[k] = q[k]
  BY AppendProperties
<1>3. Len(q) \in Nat
  BY LenProperties
<1>. QED
  BY <1>1, <1>2, <1>3

LEMMA QueueStep ==
  ASSUME RoomForAll, TypeInv, QueueInv, [Next]_vars
  PROVE  QueueInv'
<1>1. /\ queue \in Seq(EventRecords) /\ Len(queue) \in Nat
      /\ written \in Nat /\ changes \in Nat /\ QueueLimit \in Nat
      /\ Len(queue) <= written + changes + changes
      /\ \A k \in 1..Len(queue) : queue[k] # Overflow
  <2>1. scenario.lines \in Nat /\ scenario.most \in Nat /\ QueueLimit \in Nat
    BY LogDirectoryAssumption DEF TypeInv, TypeOK
  <2>. QED
    BY <2>1, PendingType, LenProperties DEF QueueInv, NothingLost, TypeInv, TypeOK
<1>2. TypeInv' /\ written' + changes' + changes' <= QueueLimit
  <2>1. TypeInv'
    BY TypeStep
  <2>2. scenario' \in Scenarios /\ written' \in 0..scenario'.lines
          /\ changes' \in 0..scenario'.most
    BY <2>1 DEF TypeInv, TypeOK
  <2>3. scenario'.lines \in Nat /\ scenario'.most \in Nat
    BY <2>2, LogDirectoryAssumption
  <2>4. scenario'.lines + scenario'.most + scenario'.most <= QueueLimit
    BY <2>2 DEF RoomForAll
  <2>5. \A w, l, c, m, q \in Nat :
          w \in 0..l /\ c \in 0..m /\ l + m + m <= q => w + c + c <= q
    OBVIOUS
  <2>6. written' \in Nat /\ changes' \in Nat /\ QueueLimit \in Nat
    BY <1>1, <2>2, <2>3
  <2>7. written' + changes' + changes' <= QueueLimit
    BY <2>2, <2>3, <2>4, <2>5, <2>6
  <2>. QED
    BY <2>1, <2>7
<1>3. /\ written' \in Nat /\ changes' \in Nat
      /\ written' >= written /\ changes' >= changes
  <2>1. written' \in {written, written + 1} /\ changes' \in {changes, changes + 1}
    BY DEF Next, Asleep, MainThread, Others, Environment, vars, dirVars, contents,
       OpenLog, AllOpened, RegisterDir, RegisterFile, AllWatched, ReadEvents, HandleEvent,
       RemoveWatch, logfile_close, AddWatch, CloseToReopen, CheckFile, OpenToScan,
       ReopenTruncated, GetLines, Write, Truncate, Remove, Create, Replace, NewFile, Grant,
       Revoke, Link, Rename, Change
  <2>. QED
    BY <1>1, <2>1
<1>4. ASSUME NEW e \in EventRecords, e # Overflow, queue' \in {queue, Queued(queue, e)},
             written' + changes' + changes' > written + changes + changes
      PROVE  QueueInv'
  <2>1. Len(queue) < QueueLimit
    <3>1. \A l, w, c, x, y, q \in Nat :
            l <= w + c + c /\ x + y + y <= q /\ x + y + y > w + c + c => l < q
      OBVIOUS
    <3>. QED
      BY <1>1, <1>2, <1>3, <1>4, <3>1
  <2>2. Len(queue') \in Nat /\ Len(queue') <= Len(queue) + 1
          /\ \A k \in 1..Len(queue') : queue'[k] # Overflow
    BY <1>1, <1>4, <2>1, QueuedRoom, LenProperties
  <2>. QED
    <3>1. \A l, m, w, c, x, y \in Nat :
            m <= l + 1 /\ l <= w + c + c /\ x + y + y > w + c + c => m <= x + y + y
      OBVIOUS
    <3>. QED
      BY <1>1, <1>3, <1>4, <2>2, <3>1 DEF QueueInv, NothingLost
<1>5. CASE UNCHANGED queue
  BY <1>1, <1>3, <1>5 DEF QueueInv, NothingLost
<1>6. CASE \E i \in Files : Write(i) \/ Truncate(i)
  <2>1. PICK i \in Files : Write(i) \/ Truncate(i)
    BY <1>6
  <2>2. watchOf[i] \in Nat
    BY DEF TypeInv, TypeOK, NoWatch, DirWd
  <2>3. FileEvent(watchOf[i]) \in EventRecords /\ FileEvent(watchOf[i]) # Overflow
    BY <2>2, EventRecordsType DEF FileEvent, Overflow
  <2>4. queue' \in {queue, Queued(queue, FileEvent(watchOf[i]))}
    BY <2>1 DEF Write, Truncate, NotifyFile
  <2>5. written' + changes' + changes' > written + changes + changes
    BY <1>1, <2>1 DEF Write, Truncate, Change
  <2>. QED
    BY <1>4, <2>3, <2>4, <2>5
<1>7. CASE \E m, n \in Names : \/ Remove(n) \/ Create(n) \/ Replace(n) \/ Grant(n)
                               \/ Revoke(n) \/ Link(m, n)
  <2>1. PICK m, n \in Names : \/ Remove(n) \/ Create(n) \/ Replace(n) \/ Grant(n)
                              \/ Revoke(n) \/ Link(m, n)
    BY <1>7
  <2>2. PICK k \in {"delete", "create", "movedto", "attrib"} :
          queue' \in {queue, Queued(queue, DirEvent(k, n))}
    BY <2>1 DEF Remove, Create, Replace, Grant, Revoke, Link, NotifyDir
  <2>3. DirEvent(k, n) \in EventRecords /\ DirEvent(k, n) # Overflow
    BY EventRecordsType DEF Masks, DirEvent, Overflow
  <2>4. written' + changes' + changes' > written + changes + changes
    BY <1>1, <2>1 DEF Remove, Create, Replace, Grant, Revoke, Link, NewFile, Change, contents
  <2>. QED
    BY <1>4, <2>2, <2>3, <2>4
<1>8. CASE \E m, n \in Names : Rename(m, n)
  <2>1. PICK m, n \in Names : Rename(m, n)
    BY <1>8
  <2>. DEFINE e == DirEvent("movedfrom", m)
              f == DirEvent("movedto", n)
  <2>2. e \in EventRecords /\ e # Overflow /\ f \in EventRecords /\ f # Overflow
    BY EventRecordsType DEF Masks, DirEvent, Overflow
  <2>3. written' = written /\ changes' = changes + 1
    BY <2>1 DEF Rename, Change, contents
  <2>4. Len(queue) + 1 < QueueLimit
    BY <1>1, <1>2, <2>3
  <2>5. queue' = queue \/ queue' = Queued(Queued(queue, e), f)
    BY <2>1 DEF Rename
  <2>. HIDE DEF e, f
  <2>6. LET q == Queued(queue, e) IN
          /\ q \in Seq(EventRecords) /\ Len(q) \in Nat /\ Len(q) <= Len(queue) + 1
          /\ \A k \in 1..Len(q) : q[k] # Overflow
    BY <1>1, <2>2, <2>4, QueuedRoom, LenProperties
  <2>7. LET q == Queued(Queued(queue, e), f) IN
          /\ Len(q) \in Nat /\ Len(q) <= Len(queue) + 2
          /\ \A k \in 1..Len(q) : q[k] # Overflow
    <3>. DEFINE q == Queued(queue, e)
    <3>1. /\ q \in Seq(EventRecords) /\ Len(q) < QueueLimit
          /\ \A k \in 1..Len(q) : q[k] # Overflow
      BY <1>1, <2>4, <2>6
    <3>2. LET r == Queued(q, f) IN
            /\ r \in Seq(EventRecords) /\ Len(r) <= Len(q) + 1
            /\ \A k \in 1..Len(r) : r[k] # Overflow
      BY <2>2, <3>1, QueuedRoom
    <3>. QED
      BY <1>1, <2>6, <3>2, LenProperties
  <2>. QED
    BY <1>1, <1>5, <2>3, <2>5, <2>7 DEF QueueInv, NothingLost
<1>9. CASE MainThread \/ Asleep \/ UNCHANGED vars
  <2>1. CASE ReadEvents
    <3>1. queue' = <<>> /\ Len(<<>>) = 0
      BY <2>1 DEF ReadEvents
    <3>2. Len(queue') = 0 /\ Len(queue') \in Nat
      BY <3>1
    <3>3. written' \in Nat /\ changes' \in Nat
      BY <1>3
    <3>4. \A l, w, c \in Nat : l = 0 => l <= w + c + c
      OBVIOUS
    <3>5. Len(queue') <= written' + changes' + changes'
      BY <3>2, <3>3, <3>4, Zenon
    <3>6. NothingLost'
      BY <3>2 DEF NothingLost
    <3>. QED
      BY <3>5, <3>6 DEF QueueInv
  <2>2. CASE ~ReadEvents
    BY <1>5, <1>9, <2>2 DEF MainThread, Asleep, vars, dirVars, contents,
       OpenLog, AllOpened, RegisterDir, RegisterFile, AllWatched, HandleEvent,
       RemoveWatch, logfile_close, AddWatch, CloseToReopen, CheckFile, OpenToScan,
       ReopenTruncated, GetLines
  <2>. QED
    BY <2>1, <2>2
<1>. QED
  BY <1>6, <1>7, <1>8, <1>9 DEF Next, Others, Environment

\* inotify drops nothing if its queue has room for every event there will
\* ever be: the theorems that ask for it are not empty.
THEOREM NothingLostWithRoom ==
  ASSUME RoomForAll
  PROVE  Spec => []NothingLost
<1>1. Init => QueueInv
  BY LogDirectoryAssumption DEF Init, DirInit, QueueInv, NothingLost
<1>2. QueueInv => NothingLost
  BY DEF QueueInv
<1>. QED
  BY <1>1, <1>2, TypeInvCorrect, QueueStep, PTL DEF Spec

=============================================================================
