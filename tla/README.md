# llad, specified

TLA+ modules for the Linux Log Action Daemon (`src/`), the TLC configurations
that check them, and TLAPS proofs. llad follows a list of log files with
inotify and, for every new line that matches a pattern, starts a thread that
runs a command and watches over it.

## The system

| part | source | state | operations | talks to |
|---|---|---|---|---|
| Main program | `llad.c` | none | options, `Config_init`, `Daemon_daemonize(svcmain)`, `Config_done`; `svcmain`: open the logs, watch them, wait for actions | calls all others |
| Daemon | `daemon.c` | pidfile, signal dispositions | `Daemon_daemonize`, logging | forks; calls back `svcmain` |
| Config | `config.c` | list of sections and actions; parser state kept between lines | `Config_init`, iterators, `Config_done` | its strings are borrowed by Logfile and Action until `Config_done` |
| Logfile | `logfile.c` | per log file: name, stream, list of actions | `LogfileList_init`, `logfile_scan`, `logfile_close` | scans hand lines to Action |
| Watcher | `watcher.c` | inotify descriptor, watch descriptors, `running`, `lastSigNum` | `Watcher_init`, `watchloop` with its handlers `fileModified`, `fileDeleted`, `fileCreated`, `sighdl`, `Watcher_done` | kernel queue; signals; Logfile |
| Action | `action.c` | `numThreads` with its mutex, semaphores `threadsLock` and `forceExit`; per execution a thread, a pipe, a process | `action_matchAndExecChain`, `actionExec` (`readLine`, `actionWaitEnd`), `Action_waitForPending` | main thread and controlling threads share the counter and the semaphores; processes share pipes |
| Utilities, packaging | `util.c`, `debian/`, `examples/` | none | | |

What is hard about it:

* Action: many threads, a failing call at any point, two semaphores used as
  flags, commands that ignore signals, hold pipes open or stay silent.
  Right means: the count is right, every command is ended and reaped, and a
  shutdown ends everything it promises to end.
* Watcher and Logfile: everything they look at belongs to others, and changes
  between two system calls; events tell of a past. Right means: whenever llad
  goes to sleep it follows the right file to its end, and every line was
  handed on once, in order.
* Watch loop: a signal handler between any two statements. Right means: a
  stopping signal stops the daemon.
* Daemon: several starts of llad, their children and a file in a directory,
  with crashes. Right means: one daemon, and the pidfile names it.
* Config: a character machine that keeps its state between lines and between
  buffers. Right means: what was written is what is parsed, or the file is
  rejected, and never half an action is taken over.
* Main program: all of these together, in one process whose signals may be
  delivered to any thread. Right means: a stop ends the daemon, and nothing
  it executed is left behind.

## The modules

| module | models | checked by | proved in |
|---|---|---|---|
| `PendingActions` | what `svcmain` is promised of the actions (abstract) | | |
| `Action` | `action.c` from a match to the end of the thread, `Action_waitForPending`, the end of `main`; implements `PendingActions` | `MCAction`, itself | `ActionProofs` |
| `Timing` | `Action` with seconds; extends `Action` | `MCAction` | `ActionProofs` |
| `WatchLoop` | the main thread in `watcher.c`, and signals | `Llad`, itself | `LladProofs` |
| `Llad` | `svcmain`: `WatchLoop` and `Action` as one process; implements `Action` | itself | `LladProofs` |
| `LogDirectory` | log files, writers, rotators, the inotify queue (environment) | `MCWatcher` | |
| `Watcher` | handlers in `watcher.c`, scanning in `logfile.c`; extends `LogDirectory` | `MCWatcher` | `WatcherProofs`, `RotationProofs`, `OrderProofs` |
| `Daemon` | the pidfile in `daemon.c`, between several starts | `MCDaemon` | `DaemonProofs` |
| `Config` | the parser in `config.c`, on any text | `MCStartup` | `ConfigProofs` |
| `ConfigFile` | somebody who writes such a file; extends `Config` | `MCStartup` | `FileProofs` |
| `Startup` | from the file to the log files and their actions: `LogfileList_init` in `logfile.c`, the chain in `action.c`; extends `ConfigFile` | `MCStartup` | `ConfigProofs`, `FileProofs` |

Correspondence in general: a place in `pc` is a point between two calls that
touch shared state (or that may block); an action is the code from one such
point to the next; branches are disjuncts; a call that may fail has a disjunct
for it, but for those listed under "Not modelled". `PROJECT.json` maps every
definition to its lines. Operators named "Faulty variant for TLC" are not part of
any specification: each is one operation with a plausible mistake, used to show
that a property notices it.

**Action.** One member of `Threads` is one execution: the controlling thread
(`pc`, `counter`), its process (`child`, `signalled`), and its pipe (`pipe`
for its contents, `writeEnd` for the end still open in the daemon, `holders`
for the processes that have it open). `fork` copies all of `writeEnd` into
`holders`: the pipes of the others too, for they are not close-on-exec.
`counter` is the `counter--` of `readLine` and `actionWaitEndLoop`, a second
each. `MatchLine` stands for a line that matches and the building of its
arguments. `WholeLines` says whether a command may stop within a line,
`Interruptible` whether a handled signal may reach a controlling thread.

**Timing.** A behaviour with a clock is one on an idle machine: `Tick` is a
second in which only `sleep` and `select` let time pass (`asleep`), and it
comes when nothing else can happen at once (`Urgent`). `elapsed` counts the
seconds of the second wait of `Action_waitForPending`. Behaviours without a
clock are those of `Action`; one run checks both.

**WatchLoop.** `Signal` may happen at all places in `SignalPlaces`: it runs
`sighdl` at once and, if the thread sleeps in `read`, ends that with EINTR.
`asked` remembers that a stopping signal was handled. Events are only counted.

**Llad.** `WatchLoop` with its variables, and `Action` as the instance `A`
whose `pc` is `thread`. The main thread is in one place of either: a line
matches only while an event is handled (`LineMatches`), the loop stands still
during a launch, and `WaitForPending` follows the loop. `SignalToThread` is the
delivery of a signal to a controlling thread: it runs `sighdl` and may end that
thread's last `waitpid`, but does not wake the main thread from `read`.

**LogDirectory and Watcher.** Files are numbers, names refer to them, a file
may have lost its name (deleted, moved away) and still be written to. Lines
are numbered in the order of writing; 0 is what was there before. Events are
queued as inotify does: equal neighbours are merged, a full queue gets one
overflow event. In `Watcher` each system call that looks at the directory is a
step of its own (`inotify_add_watch`, `fopen`, `fstat`, reading), so files
change between them; `matched` is the history of lines handed to
`action_matchAndExecChain`. `StickyEOF` chooses the C library: whether a
stream that has seen the end of its file reads again (glibc before 2.28) or
not (ISO C). `Scenarios` are sets of changes with bounds; a behaviour belongs to
one of them (`scenario`), so that a run can ask one question of many changes and
another of few.

**Daemon.** A member of `Instances` is one start of llad: the process that was
started (`parent`), the one it forks (`child`), and the pid of the latter. The
pidfile is a name (`entry`) and files: a file that lost its name can still be
written to. `orderly` is a history variable: starts came one after the other,
as from the init script, and none was killed before it was done. Concurrent and
interrupted starts are in the same runs and proofs; what needs `orderly` says so.

**Config.** A symbol stands for a character; the words `pattern` and `command`
are one symbol each, since `strncmp` looks at seven characters; `Cut` stands
between two buffers of `fgets`, wherever a line is too long. `at` is the place
between two symbols: `nextLine` and `loadConfigEntries` (`line`, `rest`,
`section`), `parseActions` (`actions`, `blank`) and `parseWord` (`word`). The
static variables are `step`, `action`, `blockval` (`parseActions`), `word`,
`qst`, `esc` (`parseWord`), `actionInProgress` and `needFullLine`. `text` is
what was written and is not read yet; the specification writes any text at all.
`Fails` is an error return up to `Config_init`, or `exit`.

**ConfigFile, Startup.** `writer` goes through the grammar and lays names and
values out with quotes, escapes, blanks, comments and cut lines; `meant` is what
it means. A `Slip` is a stray symbol. `Files` are kinds of files with their
bounds; a behaviour writes one of them (`kind`), so that one run has files in every
layout and files of several sections. In `Startup`, `resolved` is the canonical
name that `realpath` gives to each section handled so far.

## The runs

Passing runs (TLC explores the whole state space):

| run | question | bounds |
|---|---|---|
| `action_safety` | Do counter, mutex, semaphores, tokens and processes agree, whatever fails, and does `Action` implement `PendingActions`? On an idle machine, when has a forced shutdown ended all executions? | 2 threads, 2 tries to read and 1 for each other timeout, signals to any thread, with and without a clock |
| `action_liveness` | Does every silent command get ended, and does forcing stop all reading? | 2 threads, whole lines, no clock, SIGTERM without delay once the pipe is closed (`PipeWait = 0`), 1 try otherwise |
| `llad` | Is a handled stop final, does it end the process, is nothing left behind, and are the executions those of `Action`? | 1 execution, queue of 2, signals everywhere |
| `watcher_rotate` | Rotation by deletion, moving or renaming: is llad at the end of the right files whenever it sleeps, and was nothing skipped? | 2 names, 3 files, 2 lines, 3 changes |
| `watcher_all` | Anything at all: are descriptors distinct, is what is gone let go? Rotations and truncations together: is llad at the end of the right files whenever it sleeps? One rotation or two truncations: once, and in order? | 2 names, 2 files; 2 lines and 3 changes, or 4 lines and 2 changes |
| `daemon` | One daemon, named by the pidfile, through crashes and reused pids? Concurrent starts, killed anywhere: is a stopped daemon forgotten? | 3 starts |
| `startup` | Is a file in any layout, cut off anywhere, read as it was meant? With a mistake: does the parser end, and do its flags agree? Has each log file one `Logfile`, with all its actions in order? | 1 log file, buffer of 3, and: 1 action and 3 characters of newline, quote, backslash, `#`; or 2 sections, 2 actions and 3 characters; or the same with 2 characters and 1 slip |

Why the bounds are enough. Two threads are the fewest with a first, a last,
one to pass the token to, and a foreign pipe end to inherit; the accounting and
`EndedInTime` are proved for any number. A timeout of one try has all the outcomes
of a longer one (ends at once, ends after a try, never); a thread that reads needs
a second one, or it stops by itself in the second in which it would see the token.
For the watcher, a chunk of events can hold a whole rotation with two files, and
what was missed can only show with a third; a second file of the list is the first
that `findFile` can miss. Three starts are a daemon, one that takes its place, and
one that meets the leftovers. `QueueLimit = 9` is never reached; `ScanComplete = 9`
means that no file is too long to be read from its start, except in `watcher_all`,
where it is 2. For the parser, three characters are one each for name, pattern and command, or an
escaped character between two others; the second section is the first that may
meet state of the section before, and the proofs hold for any text. One
execution in `llad` meets every place of the loop; its refinement is proved for
any number.

Some passing runs leave something out because the property fails with it, as
the findings below say: `Calm = TRUE` keeps the files still while llad starts,
`StickyEOF = FALSE` chooses the older C library, and `CaughtUp` is not checked
together with `replace`, `revoke` and `link`, which are in `watcher_all`:
there `RotatedCaughtUp` speaks of the behaviours without them, and
`InOrderOnce` of a single rotation or two truncations. `NothingSkipped` and
`WrittenIsMatched` are checked without truncation: `copytruncate` loses what is written
between the truncation and its discovery, for llad then starts at the new end.

`ReadsWhatWasMeant` is for files whose lines are cut by the end of a buffer within
words only (and after a backslash outside of quotes), not within comments, blanks
or between a quoted backslash and a quote.

Deadlock is checked everywhere; `Terminated`, `Exited`, `Asleep` and `Quiet` name
the states where the system may rest.

### Fairness

`Action`: every thread that can take a step of its own takes it (the scheduler
runs it, `sleep` and `select` return), a process that got SIGKILL ends, and the
mutex and the semaphore are eventually obtained by the main thread when they
stay free. Nothing makes a command write or end, a line match, the daemon
stop, or the timeouts of `Action_waitForPending` expire.
`WatchLoop`, `Watcher`: the main thread takes a step when it can; no signal,
event or change of a file is forced. `Llad`: the same, and the timed waits of
`Action_waitForPending` expire, as `sem_timedwait` does; nothing makes a
controlling thread or a command get on, so `StopEnds` does not rely on them.
`ConfigFile`, `Startup`: the parser goes on while there is text; nothing makes
the file end, and `Finishes` speaks of files that do. `Daemon` states no liveness.

### Findings

The violation runs each check one statement of the repository, quoted in
`PROJECT.json`, that the code does not keep:

* `action_stuck`: `fgets` on the pipe blocks on an unfinished line; then
  neither the timeout nor the forced shutdown is noticed (`action.c:327`).
* `action_time`: the second wait of `Action_waitForPending` is `termWait + pipeWait +
  2` seconds "until all should have finished" (`action.c:561`). A thread that tries
  `sem_trywait(&forceExit)` while another one holds the token sleeps for another
  second; of three threads one can miss it twice, and the daemon gives up while
  the time for its command is not over (`action.c:567`). Of two threads each can
  miss it once at most, and for that there is time. The configuration has three
  silent commands; its constraint `Silent` only shortens the search.
* `watch_busy`: a SIGTERM while events are handled is not acted upon before
  the next signal (`watcher.c:434`).
* `watcher_replaced`: a file renamed over a log file is not noticed
  (`watcher.c:392`).
* `config_word`: a `}` at the beginning of a line ends a block while a quoted
  word is being read (`config.c:347`). `parseWord` keeps the open quote, the rest
  of the file disappears in it, and the file is accepted without a message.

The same models show more, when a configuration is changed as said here:

* `ActionSafety.cfg`, without the second disjunct of `EndedMeansReaped`: a
  handled signal can interrupt the last `waitpid`, and the killed command stays
  a zombie (`action.c:253`). Without `verdict = "finished"` in
  `ConfigOutlivesUse`: `Config_done` frees names that threads still use when
  the daemon gives up on them (`llad.c:84`).
* `WatchBusy.cfg`, `SignalPlaces = {"started"}`: a SIGTERM between
  `initSignals()` and `running = 1` is forgotten (`watcher.c:252`). With
  signals everywhere, `lastSigNum` may also hold a later signal than the one
  that stopped llad when it is logged (`watcher.c:479`).
* `WatcherReplaced.cfg`, with a scenario of two lines and no changes but `write`,
  and `StickyEOF = TRUE`: only the first change of an open file is read
  (`logfile.c:377`). With two names and `QueueLimit = 1`: an overflow event is
  dropped (`watcher.c:459`). With two names, one file and `link`: of two names
  for one file only the first is read (`watcher.c:300`). With `create`, `grant`
  and `revoke`: a file that was watched but could not be opened stays unopened
  (`logfile.c:323`).
* `WatcherRotate.cfg`, `Calm = FALSE`: what is written between the opening and
  the watching of a log file raises no event (`logfile.c:179`).
* `WatcherAll.cfg`, with three files and a scenario of four changes for which
  `InOrderOnce` is asked: create, delete
  and create in one chunk of events hands lines on twice (`watcher.c:402`).
* `MCDaemon`, `RemovedIsStale` without `orderly`: a start that finds the pidfile
  of another one between its `fopen` (253) and the `fclose` of its parent (281)
  cannot read a pid, removes the file, and both daemons run (`daemon.c:229`). A
  start that is killed between the two leads there as well.
* With the defaults, `exitWait` and the second wait (`LastWait`) are 34 seconds
  together, more than the 30 of `debian/init.d:68`.
* `MCStartup`, by what `Config` does: an empty pattern or
  command is accepted, since the length of the name is tested (`config.c:504`);
  a file may end within a name (`config.c:607`); `patternfoo` is a pattern
  (`config.c:414`); the rest of a comment that is longer than a buffer is parsed
  (`config.c:51`); a backslash and the quote after it are not taken together when
  a buffer ends between them (`config.c:136`).
* Read in the code, not modelled: a relative pidfile is unlinked after
  `chdir("/")` and stays behind (`daemon.c:353`).
* `daemon.c:229` takes any process with the pid of the pidfile for llad:
  `recycled` lets a leftover pidfile refuse a start although no daemon runs.

## The proofs

Checked by TLAPS, for all values of the constants under the assumptions the
modules name (`ActionAssumption`, `DaemonAssumption`, `WatchLoopAssumption`,
`LladAssumption`, `LogDirectoryAssumption`, `WatcherAssumption`,
`ConfigAssumption`, `ConfigFileAssumption`, `StartupAssumption`).

**ActionProofs.** `IInv` is inductive: the types; `LockHeld` (the holder of the
mutex, and only it, is within one of the two critical sections); `OneLaunch`
and `LastPosts` (who is about to count or to post); `CountAgrees` and
`FlagAgrees`; `ForceExitKept`; `ChildAgrees` (what a thread at each place knows
of its process). `CountAgrees` alone is not inductive: that a decrement is by
one and of a counted thread needs the mutex and the places; `FlagAgrees` needs
that only the last thread posts. Most steps of a thread and all of a process
are *quiet*, they leave the accounting alone (`ControllingIsQuiet`,
`QuietKeepsAcc`); the rest change the counted set by one element
(`CountedGrows`, `CountedShrinks`). From it: `TypeCorrect`, `CountIsRight`,
`FlagIsRight`, `TokenIsKept`, `KillsOwnChild`, `NoZombies`, `ConfigIsKept`, and
`Refinement`: `Spec` implies
`PendingActions`, each step being a step of it or a stutter.
For `Timing`, `TimedInv`: a thread is *early* while it may still have a full
`select` of a second, or the rest of one, before it looks for the token, and
each second that passes with the token there takes one thread at least out of
that set, because one thread at a time can miss the token to a neighbour that has
it. So `elapsed` and the number of early threads together stay within
`Cardinality(Threads) + 1` (`InTime`), and what a thread has left of its waits
once it has seen the token (`Left`) is counted from there. `TimedInvariance`
gives `ThreadsEndInTime`: `EndedInTime`, the waits and one second per thread, for
any number of threads. For one or two threads this is within the
`termWait + pipeWait + 2` seconds of the code; for three `ForcedInTime` is false
(`action_time`).

**DaemonProofs.** `IInv` is the types, `Owned` (a pid is only ever in the file
its start opened, written last; a stopped daemon's file has no name) and, as long
as starts are orderly, `Orderly` (a start past its check is alone with the
pidfile; a daemon whose start has returned is named in it). `Forgotten` needs
`Owned` only and so holds for any interleaving of starts and crashes; `OnlyOne`,
`Recorded` and `NoneRemoved` need `Orderly`, which every step keeps that leaves
`orderly` true.

**LladProofs, WatchLoop.** `IInv` is the types, and two facts about places: the handlers
are installed exactly from `initSignals` to `doneSignals`, and `running` is set
only inside the loop. A handler may run at any place (`HandlerStep`) and must
keep both. From it `TypeCorrect`, `Undisturbed` and `NoRestart`.

**LladProofs, Llad.** Every step of `Llad` is a step of `WatchLoop`, of `Action` or a
stutter of both: `LaunchStep`, `ThreadStep` and their like say so action by
action, for `Action` as `Llad` uses it and as `ActionProofs` has it. The
refinement mapping hides that the daemon may end without having watched
(`mainSeen`): nothing was launched then, so it looks as if it still watched.
`DaemonImplementsAction` makes the theorems of `ActionProofs` theorems about the
daemon; `NothingLeft` follows with the invariant that ties the two programs
together: executions exist only once the loop was entered, and when the wait has
said that all are finished, no thread is counted and each one reaped or killed
its command. `StillUndisturbed` is `Undisturbed` in the composition, where the
handler also runs on threads that `WatchLoop` does not know.

**WatcherProofs.** For any changes of the files. `TypeInv` is the types and what
they rest on: nothing is queued or watched before the directory is, and a stream
on no file is closed. `Pending` is all that llad has still to learn, as one
sequence: the event being handled, the chunk, the queue. Every step leaves it as
it is, extends it at the end, takes its head away or puts an equivalent event
there (`OthersPending`, `PushedPending`, `DonePending`, `HandlePending`); what is
said of events pending needs only these four. `GoneInv`, that a log file that is
gone is let go or an event that says so is pending, gives `GoneLetGo`. It and
`RotationProofs` rest on `Calm` and on no event being dropped (`NothingLost`);
`NothingLostWithRoom` shows that none is when `QueueLimit` is at least the lines
and twice the other changes of each scenario (`RoomForAll`).

**RotationProofs.** For `Rotating` behaviours: log files are written to, removed,
renamed to each other, created again, made readable and truncated, in any number,
between any two system calls of a handler. `CaughtUp` says what holds in the end;
the invariant (`RotationInv`) says how far the directory and what llad holds of it
may be apart meanwhile: by what pending events announce. `Announced`: in the end
they say of each name what is so, and a watched name goes away before it comes
into being. `Holds`: what is watched under a name is its file, or the name's
going away is pending. `Tracked`: a file that is not announced to go is watched
and its stream at the end, or being read, or `modify` is pending; or its coming is.
`Shares`: two names have one descriptor only after a rename whose two events are
pending in their order, so `findFile` never takes the wrong one for good. None of
them is inductive without the others. From it `RotationsCaughtUp` (with a C
library that reads on, `~StickyEOF`) and, for any constants whose scenarios only
rotate and have room, `FollowedForever`.
`Handed`, that what is before the position of a stream was handed on or was there
before the start, gives `RotationsSkipNothing` for files that are not truncated
and short enough to be read from their start (`Short`), and
`NothingSkippedForever` from assumptions about constants only. The constants of
`watcher_rotate` satisfy these: 2 + 2 * 3 <= 9 events, 2 + 1 <= 9 lines.

**OrderProofs.** For `Plain` behaviours: written to, deleted, created, truncated;
at any moment, before everything is watched as well, with any queue and any C
library. A stream has not passed on what is after its position (`Ahead`), and of a
file that has the name of a log file but is not the one open nothing was passed on
(`Fresh`). With `FileLines` (numbers rise in a file, no line is in two) this gives
`OnceWhileOpen`: each line once, those of a file in their order, no old line, as
long as llad does not close a file that still has the name (`StaysOpen`).
It may close one: a name is created, deleted and created again before llad has read
the first event, llad opens the last file, then the deletion makes it close that,
and the creation makes it read the same lines again. `Counted` shows that it takes
three changes: every pending deletion of a name costs one, one more if the name is
there again, one more if the name had come into being (or its file had been
truncated) before. With `Leaving` and `Unheld`, which say that what is about to be let go is not
the file that has the name, `StaysOpen` follows where `scenario.most <= 2`, and
`OnceInOrder` states `InOrderOnce` without any assumption.

**ConfigProofs.** The text is arbitrary: any sequence of symbols, written at any
time. `IInv` is the types, `FlagsAgree`, `InSection` (actions are looked for only
in a section, also when the next line is to be taken whole) and that no action has
an empty name. The types alone, which say that every action read has a name, a
pattern and a command, are not inductive: that an action has a name when its block
ends comes from `FlagsAgree`, and that there is a section to append it to from
`InSection`. `ConfigFile` and `Startup` only write texts and read
`config`, and the kind of file stays the one that was chosen (`KindKept`), so each
implies the specification of `Config` (`FilesAreTexts`, `StartupReads`), and what
was proved for any text holds for them (`StartupFlags`).
`WatchedOnce` is about the list that `LogfileList_init` builds: names in it are
distinct, and they are the canonical names of the sections handled (`Resolved`), so
each has exactly one `Logfile`, in however many sections it occurs. It uses that no
canonical name is `none`, the mark of an ignored section: `realpath` returns
absolute paths.
`ChainsRight` is about the chains of actions: that of a log file is what all its
sections give, in the order of the file. The expected chain is a concatenation
over the sections (`FlattenSeq`), a recursive function of the library; what the
proof needs of it, that an empty part adds nothing (`FlattenOnce`) and a last part
goes to the end (`FlattenAppend`), is an induction over sequences, done here by
taking the smallest counterexample (`Smallest`), which needs no theorem with an
operator as parameter.

**FileProofs.** `ReadsWhatWasMeant` relates two programs that are apart: the
writer runs ahead of the parser, which looks ahead. A *point* is how far the
writer was between two symbols of the file: its state, what it had meant, whether
a backslash or a newline came before. `Follows(p, c, r)` says that a writer at `p`
may write `c` and is then at `r`; `Leads(p, t, q)` that the text `t` leads from `p`
to `q` in that way. The invariant, `Understood`: as long as nothing slipped in, the
text written and not yet read leads from a point where the parser is (`Place`) to
where the writer is (`Ends`). `Place` says for each kind of point where in the
code the parser may be there and what it holds: outside of words (`Outside`),
inside of one (`Inside`, after a whole line was asked for as well), behind a word
that `parseWord` has returned and the writer has not closed yet (`Past`), in a
comment or title (`Beside`), at the end of the file (`Over`). A point is more than
a state of the writer: one action may write two or three symbols (`EscapedReaches`), and
between them the writer never is, but the parser may be.

The proof has three parts. Whatever follows a point is a point (`PointsFollow`):
names and values fit into the buffer, a word is begun only where one is expected,
a block is only in a section. What the writer writes leads from where it was to
where it is (`WriterStep`). And each step of the parser reads a symbol for what it
is at that point (`ParserStep`): `PlainFollows`, `QuotedFollows`, `EscapedFollows`
and `BesideFollows` list what may come, the code's guards leave one of these over,
and where the code would fail or would fill the buffer (`NeverFull`) none. The
look-ahead of `parseWord` in quotes is right because the writer never closes a
quote after a backslash (`BackslashRead`), and because a buffer does not end
between a backslash and the quote it escapes: where one does, the code reads
something else (see above). `ReadRight` is for `FileSpec`, `StartupReadRight` for
`StartupSpec`; neither bounds the file. Together with `ChainsRight` it
says that the chains of actions llad starts with are those of the file.

Only model-checked: all liveness (`StuckIsEnded`, `ForcedStopsReading`,
`StopNoticed`, `StopEnds`, `WrittenIsMatched`, `Finishes`), which is out of the
prover's reach. Every invariant that a run expects to hold has a theorem.

## Not modelled

Calls that fail, where the code calls it impossible or the reason is none of the
modelled ones:

* `waitpid(WNOHANG)` (`action.c:207`) has no error in `Poll`: it could only be
  `ECHILD`, and a thread asks for its own child, which nobody has reaped
  (`ChildAgrees`, proved).
* `inotify_add_watch` on a directory (`watcher.c:147`) always succeeds
  (`RegisterDir`). The code says "impossible case"; it can fail for a directory that
  may be searched but not read, or with `ENOSPC`. Then what happens to the names
  goes unnoticed, and neither `CaughtUp` nor `GoneIsLetGo` would hold.
* `inotify_add_watch` on a file (`watcher.c:90`, `404`) fails when the file is
  missing or cannot be read, not with `ENOSPC` (`Watch`). Then only a creation or a
  change of the attributes of that name tries again, and meanwhile `CaughtUp` would
  not hold.
* `fopen` in `logfile_scan` (`logfile.c:323`) fails for the same two reasons, not
  with `EMFILE` (`OpenToScan`), which many open pipes make possible. The next
  event for the file tries again.
* `IN_IGNORED` is not queued: llad passes over it, but it needs room, which
  `QueueLimit` and `RoomForAll` do not count.

And: patterns and the arguments built from matches; log messages; how a path becomes
canonical (`Startup` chooses a name); the filter of llad's own lines and lines
that come in pieces; several directories; `--no-detach` beyond its effect on
signals; libpopt, libpcre, allocation failure (the process ends); `util.c`,
packaging and examples.

## Plan

1. An abstract specification of following a log file, which `Watcher` implements
   when files are only rotated.
2. Partial lines and the own-line filter of `logfile_scan`
   (`logfile.c:376-397`): a line is handed on in pieces, each of them filtered
   alone; and offsets that a forked child shares.
