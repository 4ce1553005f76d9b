------------------------------ MODULE Startup ------------------------------
(***************************************************************************)
(* From the configuration file to the log files that are watched: Config,  *)
(* then LogfileList_init (src/src/logfile.c), which makes a Logfile with   *)
(* compiled actions (src/src/action.c) out of each section, or gives its   *)
(* actions to the Logfile that already has the same canonical name.        *)
(***************************************************************************)
EXTENDS ConfigFile, FiniteSets, SequencesExt

CONSTANTS
  Paths,        \* canonical names of log files
  BadPatterns   \* patterns that pcre_compile refuses

ASSUME StartupAssumption ==
  /\ BadPatterns \subseteq Seq(Symbols)
  /\ "none" \notin Paths

VARIABLES
  firstLog,  \* the list of Logfile objects: their name and their actions
  resolved   \* of the sections handled: the canonical name, or "none"

startupVars == <<allVars, firstLog, resolved>>

StartupInit == FileInit /\ firstLog = <<>> /\ resolved = <<>>

\* createActions with action_appendNew: a bad pattern is left out.
CreateActions(section) ==
  FlattenSeq([i \in 1 .. Len(section.actions) |->
    IF section.actions[i].pattern \in BadPatterns THEN <<>>
    ELSE <<section.actions[i]>>])

\* The iterators of Config.
Section == config[Len(resolved) + 1]
MoreSections == at = "accepted" /\ Len(resolved) < Len(config)

\* The directory is missing or is none, or the section has no actions left:
\* the log file is not watched.
IgnoreSection ==
  /\ MoreSections
  /\ resolved' = Append(resolved, "none")
  /\ UNCHANGED <<allVars, firstLog>>

\* Faulty variant for TLC: the new actions come first.
Prepend(chain, actions) == actions \o chain

\* action_append: find the end of the chain.
AppendActions(chain, actions) == chain \o actions

\* Faulty variant for TLC: nobody looks whether the name is known.
AnotherLogfile(path) ==
  /\ MoreSections
  /\ CreateActions(Section) # <<>>
  /\ resolved' = Append(resolved, path)
  /\ firstLog' = Append(firstLog, [name |-> path, actions |-> CreateActions(Section)])
  /\ UNCHANGED allVars

\* logfile_new; realpath may lead different names to the same file.
NewLogfile(path) ==
  /\ MoreSections
  /\ CreateActions(Section) # <<>>
  /\ resolved' = Append(resolved, path)
  /\ LET same == {i \in 1 .. Len(firstLog) : firstLog[i].name = path}
     IN  firstLog' =
           IF same = {}
           THEN Append(firstLog, [name |-> path, actions |-> CreateActions(Section)])
           ELSE [i \in 1 .. Len(firstLog) |->
                  IF i \in same
                  THEN [firstLog[i] EXCEPT !.actions = AppendActions(@, CreateActions(Section))]
                  ELSE firstLog[i]]
  /\ UNCHANGED allVars

StartupNext ==
  \/ FileNext /\ UNCHANGED <<firstLog, resolved>>
  \/ IgnoreSection
  \/ \E path \in Paths : NewLogfile(path)

StartupSpec ==
  /\ StartupInit /\ [][StartupNext]_startupVars
  /\ WF_startupVars(Parse /\ UNCHANGED <<fileVars, firstLog, resolved>>)

-----------------------------------------------------------------------------
\* However many sections name a log file, by whatever paths: it has one Logfile,
\* so it is watched once and its lines are read once.
OneLogfile ==
  \A path \in Paths :
    Cardinality({i \in 1 .. Len(firstLog) : firstLog[i].name = path})
      = (IF \E i \in 1 .. Len(resolved) : resolved[i] = path THEN 1 ELSE 0)

\* For a canonical name, all actions that can match, in the order of the file.
ActionsFor(path) ==
  FlattenSeq([i \in 1 .. Len(resolved) |->
    IF resolved[i] = path THEN CreateActions(config[i]) ELSE <<>>])

\* Every action of the configuration that can match ends up in the chain of
\* its log file, once and in the order of the file, in whatever way sections
\* are spread over the file and over names of the same log file.
ChainsInOrder ==
  \A i \in 1 .. Len(firstLog) :
    firstLog[i].actions = ActionsFor(firstLog[i].name)

=============================================================================
