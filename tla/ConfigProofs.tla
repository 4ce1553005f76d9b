---------------------------- MODULE ConfigProofs ----------------------------
(***************************************************************************)
(* Proofs about Config, for any text and any size of the buffer for a      *)
(* word: the flag that survives the parser is right, and an action that    *)
(* was read is whole.  And about Startup and ConfigFile, which implement   *)
(* Config: whatever the writer of a file does is writing some text.        *)
(***************************************************************************)
EXTENDS Startup, SequenceTheorems, FiniteSetTheorems,
        WellFoundedInduction, TLAPS

\* The parser looks for actions only in a section.
InSection ==
  \/ at \in {"actions", "blank", "word"}
  \/ at \notin Ended /\ needFullLine
  => config # <<>>

\* The inductive invariant.
IInv ==
  /\ TypeOK
  /\ FlagsAgree
  /\ InSection
  /\ action.name # <<>>

\* Symbols make words, and no word is a NULL pointer.
LEMMA NoneIsNoWord == None \notin Seq(Symbols)
<1>1. "none" \notin Symbols
  BY ConfigAssumption
     DEF ConfigAssumption, Symbols, Special, Escape, Quotes, White, Newline,
         Pattern, Command
<1>. QED
  BY <1>1 DEF None

\* What is consumed is a symbol, and a text is left.
LEMMA Consumed ==
  ASSUME TypeOK, text # <<>>
  PROVE  /\ Tail(text) \in Seq(Symbols \cup {Cut})
         /\ ~AtEnd => Char \in Symbols
  BY HeadTailProperties DEF TypeOK, AtEnd, Char

\* Failing keeps everything but the sections.
LEMMA FailStep ==
  ASSUME IInv, NEW how \in Ended, Fails(how)
  PROVE  IInv'
  BY DEF IInv, TypeOK, FlagsAgree, InSection, Fails, Places,
         Ended, source, blocks, words

\* A step that only reads, and goes to another place.
LEMMA ReadStep ==
  ASSUME IInv, UNCHANGED <<blocks, words, config>>,
         text' \in Seq(Symbols \cup {Cut}), complete' \in BOOLEAN,
         needFullLine' \in BOOLEAN, title' \in Seq(Symbols),
         at' \in Places, at' = "section" => ~actionInProgress,
         InSection'
  PROVE  IInv'
  BY DEF IInv, TypeOK, FlagsAgree, blocks, words

\* A step that takes a word for the action that is being read.
LEMMA TakeStep ==
  ASSUME IInv, at = "word", at' = "blank",
         UNCHANGED <<source, needFullLine, title, config>>,
         word' = <<>>, qst' = "normal", esc' = FALSE,
         step' \in Steps \ {"START"}, blockval' \in {Pattern, Command},
         action' \in [name : Values, pattern : Values, command : Values],
         action'.name \notin {None, <<>>}, actionInProgress' = TRUE
  PROVE  IInv'
<1>1. TypeOK'
  <2>1. word' \in Seq(Symbols) /\ Len(word') <= BufSize
    BY ConfigAssumption DEF ConfigAssumption
  <2>2. at' \in Places /\ step' \in Steps
    BY DEF Places
  <2>. QED
    BY <2>1, <2>2 DEF IInv, TypeOK, source
<1>2. FlagsAgree'
  BY DEF FlagsAgree
<1>3. InSection'
  BY DEF IInv, InSection
<1>. QED
  BY <1>1, <1>2, <1>3 DEF IInv

-----------------------------------------------------------------------------
(* Steps that read no word and end no block.                               *)

\* Lines.
LEMMA LineStep ==
  ASSUME IInv,
         \/ Open \/ EndOfFile \/ FullLine \/ Indentation \/ IgnoredLine
         \/ RestOfLine \/ ActionsLine
  PROVE  IInv'
<1>. text \in Seq(Symbols \cup {Cut}) /\ complete \in BOOLEAN
     /\ needFullLine \in BOOLEAN /\ InSection /\ title \in Seq(Symbols)
  BY DEF IInv, TypeOK
<1>. USE DEF InSection, Places, Ended, source
<1>1. CASE Open
  BY <1>1, ReadStep, FailStep DEF Open
<1>2. CASE EndOfFile
  BY <1>2, ReadStep, FailStep DEF EndOfFile
<1>3. CASE FullLine
  BY <1>3, ReadStep DEF FullLine
<1>4. CASE IgnoredLine
  BY <1>4, ReadStep DEF IgnoredLine
<1>5. CASE ActionsLine
  BY <1>5, ReadStep DEF ActionsLine
<1>6. CASE Indentation
  BY <1>6, ReadStep, Consumed DEF Indentation, Consume, parser, IInv
<1>7. CASE RestOfLine
  BY <1>7, ReadStep, Consumed DEF RestOfLine, Consume, NewLine, AtEnd, IInv
<1>. QED
  BY <1>1, <1>2, <1>3, <1>4, <1>5, <1>6, <1>7

\* Sections.
LEMMA SectionStep ==
  ASSUME IInv, SectionStart \/ SectionTitle
  PROVE  IInv'
<1>. /\ text \in Seq(Symbols \cup {Cut}) /\ complete \in BOOLEAN
     /\ needFullLine \in BOOLEAN /\ title \in Seq(Symbols)
     /\ InSection
  BY DEF IInv, TypeOK
<1>1. CASE SectionStart
  <2>1. CASE actionInProgress
    BY <1>1, <2>1, FailStep DEF SectionStart, Ended
  <2>2. CASE ~actionInProgress
    <3>1. /\ UNCHANGED <<blocks, words, config, needFullLine, complete>>
          /\ text' = Tail(text) /\ text # <<>>
          /\ at' = "section" /\ title' = <<>> /\ needFullLine = FALSE
      BY <1>1, <2>2 DEF SectionStart, Consume
    <3>. QED
      BY <2>2, <3>1, Consumed, ReadStep DEF IInv, InSection, Places
  <2>. QED
    BY <2>1, <2>2
<1>2. CASE SectionTitle
  <2>1. CASE AtEnd
    BY <1>2, <2>1, FailStep DEF SectionTitle, Ended
  <2>2. CASE ~AtEnd
    <3>1. /\ UNCHANGED <<blocks, words, needFullLine, complete>>
          /\ text' = Tail(text) /\ text # <<>> /\ at = "section"
      BY <1>2, <2>2 DEF SectionTitle, AtEnd, Consume
    <3>2. text' \in Seq(Symbols \cup {Cut}) /\ Char \in Symbols
      BY <2>2, <3>1, Consumed DEF IInv
    <3>3. CASE Char # "]"
      <4>1. at' = at /\ config' = config /\ title' = Append(title, Char)
        BY <1>2, <2>2, <3>3 DEF SectionTitle
      <4>2. title' \in Seq(Symbols) /\ at' \in Places
        BY <3>1, <3>2, <4>1 DEF Places
      <4>. QED
        BY <3>1, <3>2, <4>1, <4>2, ReadStep DEF IInv, InSection, FlagsAgree
    <3>4. CASE Char = "]"
      <4>. DEFINE new == [name |-> title, actions |-> <<>>]
      <4>1. new \in SectionType /\ new.actions = <<>>
        BY DEF SectionType
      <4>2. at' = "rest" /\ title' = <<>> /\ config' = Append(config, new)
        BY <1>2, <2>2, <3>4 DEF SectionTitle
      <4>. HIDE DEF new
      <4>3. config' \in Seq(SectionType) /\ config' # <<>>
        BY <4>1, <4>2 DEF IInv, TypeOK
      <4>5. TypeOK'
        BY <3>1, <3>2, <4>2, <4>3 DEF IInv, TypeOK, Places, blocks, words
      <4>. QED
        BY <3>1, <4>2, <4>3, <4>5 DEF IInv, FlagsAgree, InSection, blocks
    <3>. QED
      BY <3>3, <3>4
  <2>. QED
    BY <2>1, <2>2
<1>. QED
  BY <1>1, <1>2

\* parseActions between words.
LEMMA BetweenStep ==
  ASSUME IInv, LineParsed \/ SkipWhitespace \/ Punctuation \/ WordExpected
  PROVE  IInv'
<1>. USE DEF IInv, TypeOK, FlagsAgree, InSection, Places, Ended,
             source, blocks, words
<1>1. CASE LineParsed
  BY <1>1, Consumed DEF LineParsed, NewLine, AtEnd
<1>2. CASE SkipWhitespace
  BY <1>2, Consumed DEF SkipWhitespace, Consume, AtEnd
<1>3. CASE Punctuation
  BY <1>3, FailStep, Consumed DEF Punctuation, Expect, Consume, AtEnd, Steps
<1>4. CASE WordExpected
  BY <1>4 DEF WordExpected
<1>. QED
  BY <1>1, <1>2, <1>3, <1>4

-----------------------------------------------------------------------------
(* Words.                                                                  *)

\* parseWord inside of a word.
LEMMA WordStep ==
  ASSUME IInv, Escaped \/ Quoted \/ Unquoted \/ Incomplete \/ BufferFull
  PROVE  IInv'
<1>. USE DEF IInv, TypeOK, FlagsAgree, InSection, Places, Ended,
             source, blocks, words
<1>1. ASSUME InWord
      PROVE  /\ Tail(text) \in Seq(Symbols \cup {Cut})
             /\ Append(word, Char) \in Seq(Symbols)
             /\ Len(Append(word, Char)) <= BufSize
  BY <1>1, Consumed, ConfigAssumption DEF InWord, AtEnd, ConfigAssumption
<1>2. CASE Escaped
  BY <1>1, <1>2 DEF Escaped, Copies, Consume, InsideWord
<1>3. CASE Quoted
  BY <1>1, <1>3 DEF Quoted, Copies, Consume, InsideWord
<1>4. CASE Unquoted
  BY <1>1, <1>4 DEF Unquoted, Copies, Consume, InsideWord
<1>5. CASE Incomplete
  BY <1>5, Consumed DEF Incomplete, NewLine, AtEnd
<1>6. CASE BufferFull
  BY <1>6, FailStep DEF BufferFull
<1>. QED
  BY <1>2, <1>3, <1>4, <1>5, <1>6

\* parseActions with a word.
LEMMA ReturnStep ==
  ASSUME IInv, ActionName \/ PropertyName \/ PropertyValue
  PROVE  IInv'
<1>. USE DEF Returned, WordEnds, InWord
<1>1. /\ word \in Values /\ word # None
      /\ action \in [name : Values, pattern : Values, command : Values]
      /\ action.name # <<>> /\ blockval \in {Pattern, Command}
      /\ actionInProgress \in BOOLEAN
      /\ step # "START" => actionInProgress /\ action.name # None
  BY NoneIsNoWord DEF Values, IInv, TypeOK, FlagsAgree
<1>2. CASE ActionName
  <2>1. CASE word = <<>>
    BY <1>2, <2>1, FailStep DEF ActionName, Ended
  <2>2. CASE word # <<>>
    BY <1>1, <1>2, <2>2, TakeStep DEF ActionName, Steps
  <2>. QED
    BY <2>1, <2>2
<1>3. CASE PropertyName
  <2>1. CASE \E p \in {Pattern, Command} : Names(p) /\ action[p] = None
    BY <1>1, <1>3, <2>1, TakeStep DEF PropertyName, Steps, Names
  <2>2. CASE ~ \E p \in {Pattern, Command} : Names(p) /\ action[p] = None
    BY <1>3, <2>2, FailStep DEF PropertyName, Ended
  <2>. QED
    BY <2>1, <2>2
<1>4. CASE PropertyValue
  <2>1. action' = [action EXCEPT ![blockval] = word] /\ step = "BLOCK_VALUE"
    BY <1>1, <1>4 DEF PropertyValue
  <2>2. /\ action' \in [name : Values, pattern : Values, command : Values]
        /\ action'.name = action.name
    BY <1>1, <2>1 DEF Pattern, Command
  <2>. QED
    BY <1>1, <1>4, <2>1, <2>2, TakeStep DEF PropertyValue, Steps
<1>. QED
  BY <1>2, <1>3, <1>4

\* The end of a block: what was read becomes an action of the last section.
LEMMA BlockEndStep ==
  ASSUME IInv, BlockEnd
  PROVE  IInv'
<1>1. CASE ~BlockComplete
  BY <1>1, FailStep DEF BlockEnd, Ended
<1>2. CASE BlockComplete
  <2>. DEFINE n == Len(config)
              new == [config[n] EXCEPT !.actions = Append(@, action)]
  <2>1. /\ action \in ActionType
        /\ action.name \notin {None, <<>>}
        /\ action.pattern # None /\ action.command # None
    BY <1>2 DEF BlockEnd, BlockComplete, IInv, TypeOK, FlagsAgree, Values,
                ActionType
  <2>2. config \in Seq(SectionType) /\ n \in 1 .. Len(config)
    <3>1. config \in Seq(SectionType) /\ config # <<>>
      BY DEF BlockEnd, IInv, TypeOK, InSection
    <3>. QED
      BY <3>1
  <2>3. /\ new \in SectionType
        /\ new.actions = Append(config[n].actions, action)
    <3>1. config[n] \in SectionType
      BY <2>2
    <3>2. Append(config[n].actions, action) \in Seq(ActionType)
      BY <2>1, <3>1 DEF SectionType
    <3>. QED
      BY <3>1, <3>2 DEF SectionType
  <2>4. /\ config' = [config EXCEPT ![n] = new]
        /\ UNCHANGED <<blockval, words, needFullLine, title, complete>>
        /\ text' = Tail(text) /\ text # <<>>
        /\ at' = "blank" /\ step' = "START" /\ action' = NoAction
        /\ actionInProgress' = FALSE
    BY <1>2 DEF BlockEnd, Consume, AtEnd
  <2>. HIDE DEF new
  <2>5. config' \in Seq(SectionType) /\ config' # <<>>
    BY <2>2, <2>3, <2>4
  <2>7. NoAction \in [name : Values, pattern : Values, command : Values]
    BY DEF NoAction, Values
  <2>8. NoAction.name = None /\ None # <<>>
    BY DEF NoAction, None
  <2>9. TypeOK'
    BY <2>4, <2>5, <2>7, Consumed DEF IInv, TypeOK, Places, Steps, words
  <2>. QED
    BY <2>4, <2>5, <2>8, <2>9 DEF IInv, FlagsAgree, InSection
<1>. QED
  BY <1>1, <1>2

-----------------------------------------------------------------------------
(* The invariant and what follows from it.                                 *)

\* IInv holds in every reachable state, whatever the text.
THEOREM Invariance == Spec => []IInv
<1>1. Init => IInv
  <2>. SUFFICES ASSUME Init PROVE IInv
    OBVIOUS
  <2>1. NoAction \in [name : Values, pattern : Values, command : Values]
    BY DEF NoAction, Values
  <2>2. NoAction.name = None /\ None # <<>>
    BY DEF NoAction, None
  <2>3. TypeOK
    <3>1. word \in Seq(Symbols) /\ Len(word) <= BufSize
      BY ConfigAssumption DEF Init, ConfigAssumption
    <3>2. /\ text \in Seq(Symbols \cup {Cut}) /\ title \in Seq(Symbols)
          /\ config \in Seq(SectionType)
      BY DEF Init
    <3>3. at \in Places /\ step \in Steps
      BY DEF Init, Places, Steps
    <3>. QED
      BY <2>1, <3>1, <3>2, <3>3 DEF Init, TypeOK, Pattern
  <2>. QED
    BY <2>2, <2>3
       DEF Init, IInv, FlagsAgree, InSection
<1>2. ASSUME IInv, Parse \/ Finish \/ \E s \in Seq(Symbols \cup {Cut}) : Write(s)
      PROVE  IInv'
  <2>1. CASE Parse
    BY <1>2, <2>1, LineStep, SectionStep, BetweenStep, WordStep, ReturnStep,
       BlockEndStep DEF Parse
  <2>2. CASE Finish
    BY <1>2, <2>2 DEF Finish, parser, IInv, TypeOK, FlagsAgree, InSection, blocks, words
  <2>3. CASE \E s \in Seq(Symbols \cup {Cut}) : Write(s)
    BY <1>2, <2>3 DEF Write, parser, IInv, TypeOK, FlagsAgree, InSection, blocks, words
  <2>. QED
    BY <1>2, <2>1, <2>2, <2>3
<1>3. ASSUME IInv, UNCHANGED vars
      PROVE  IInv'
  BY <1>3 DEF vars, source, parser, IInv, TypeOK, FlagsAgree, InSection, blocks, words
<1>. QED
  BY <1>1, <1>2, <1>3, PTL DEF Spec

\* The variables stay in their ranges, whatever the text.
THEOREM TypeCorrect == Spec => []TypeOK
<1>1. IInv => TypeOK
  BY DEF IInv
<1>. QED
  BY <1>1, Invariance, PTL

\* Whatever the text, the flag that decides whether a file is accepted says
\* whether the parser is within an action.
THEOREM FlagsRight == Spec => []FlagsAgree
<1>1. IInv => FlagsAgree
  BY DEF IInv
<1>. QED
  BY <1>1, Invariance, PTL

-----------------------------------------------------------------------------
(* A file that somebody writes, and what llad makes of it, are instances   *)
(* of any text, whatever the values of their constants.                    *)

Texts == Seq(Symbols \cup {Cut})

\* Something is written, and the parser does nothing.
Adds == \E s \in Texts : Write(s)

\* The symbols that a writer uses are symbols.
LEMMA KnownSymbols ==
  ASSUME kind \in Files
  PROVE
  /\ {Escape, "=", "{", "}", "[", "]", "#", Pattern, Command, Cut}
       \cup Quotes \cup White \cup kind.chars \cup kind.strays
       \subseteq Symbols \cup {Cut}
  /\ \A c \in Symbols \cup {Cut} :
       {<<c>>, Line(c), <<Escape>> \o Line(c), <<Escape, Cut>> \o Line(c),
        <<Escape, c>>} \subseteq Texts
<1>1. {Escape, "=", "{", "}", "[", "]", "#", Pattern, Command, Cut}
       \cup Quotes \cup White \subseteq Symbols \cup {Cut}
  BY DEF Symbols, Special
<1>2. kind.chars \cup kind.strays \subseteq Symbols \cup {Cut}
  BY ConfigFileAssumption DEF ConfigFileAssumption, Symbols
<1>3. ASSUME NEW c \in Symbols \cup {Cut}
      PROVE  {<<c>>, Line(c), <<Escape>> \o Line(c),
              <<Escape, Cut>> \o Line(c), <<Escape, c>>} \subseteq Texts
  <2>. DEFINE K == Symbols \cup {Cut}
  <2>. Escape \in K /\ Newline \in K /\ Cut \in K /\ c \in K
    BY <1>1 DEF White
  <2>. HIDE DEF K
  <2>1. <<c>> \in Seq(K) /\ <<Escape, c>> \in Seq(K) /\ <<Newline, Cut>> \in Seq(K)
        /\ <<Escape>> \in Seq(K) /\ <<Escape, Cut>> \in Seq(K)
    OBVIOUS
  <2>2. Line(c) \in Texts
    BY <2>1 DEF Line, Texts, K
  <2>. QED
    BY <2>1, <2>2 DEF Texts, K
<1>. QED
  BY <1>1, <1>2, <1>3

\* Each step of a writer writes some text, or ends it.
LEMMA WritingAdds ==
  ASSUME kind \in Files, WriteFile
  PROVE  Adds \/ Finish
<1>1. ASSUME NEW s \in Texts, Writes(s)
      PROVE  Adds
  BY <1>1 DEF Writes, Adds
<1>2. CASE WriteBlank
  BY <1>1, <1>2, KnownSymbols DEF WriteBlank
<1>3. CASE WriteComment
  BY <1>1, <1>3, KnownSymbols DEF WriteComment, White
<1>4. CASE WriteSection
  BY <1>1, <1>4, KnownSymbols DEF WriteSection
<1>5. CASE WriteBareChar
  BY <1>1, <1>5, KnownSymbols DEF WriteBareChar, WriteAs
<1>6. CASE WriteQuotedChar
  BY <1>1, <1>6, KnownSymbols DEF WriteQuotedChar, WriteAs
<1>7. CASE WriteQuote
  BY <1>1, <1>7, KnownSymbols DEF WriteQuote
<1>8. CASE WriteProperty
  BY <1>1, <1>8, KnownSymbols DEF WriteProperty
<1>9. CASE WriteLongLine
  BY <1>1, <1>9, KnownSymbols DEF WriteLongLine
<1>10. CASE WritePunctuation
  BY <1>1, <1>10, KnownSymbols DEF WritePunctuation
<1>11. CASE Slip
  BY <1>1, <1>11, KnownSymbols DEF Slip
<1>12. CASE EndFile
  BY <1>12 DEF EndFile
<1>. QED
  BY <1>2, <1>3, <1>4, <1>5, <1>6, <1>7, <1>8, <1>9, <1>10, <1>11, <1>12
     DEF WriteFile

\* Every step of the writer and the parser is one of Config, or none.
LEMMA FileStep ==
  ASSUME kind \in Files, [FileNext]_allVars
  PROVE  [Parse \/ Finish \/ \E s \in Seq(Symbols \cup {Cut}) : Write(s)]_vars
<1>1. CASE WriteFile
  BY <1>1, WritingAdds DEF Adds, Texts
<1>2. CASE Terminated \/ UNCHANGED allVars
  BY <1>2 DEF Terminated, allVars
<1>. QED
  BY <1>1, <1>2 DEF FileNext

\* The file is of a kind that there is.
Known == kind \in Files

\* It is of one kind from its first symbol to its last.
LEMMA KindKept ==
  ASSUME [FileNext]_allVars
  PROVE  kind' = kind
<1>1. CASE WriteFile
  BY <1>1 DEF WriteFile, WriteBlank, WriteComment, WriteSection, WriteBareChar,
              WriteQuotedChar, WriteAs, WriteQuote, WriteProperty, WriteLongLine,
              WritePunctuation, Slip, EndFile, fileVars
<1>. QED
  BY <1>1 DEF FileNext, Terminated, allVars, fileVars

\* A file and its reader implement Config.
THEOREM FilesAreTexts == FileSpec => Spec
<1>1. FileInit => Init /\ Known
  BY DEF FileInit, Known
<1>2. Known /\ [FileNext]_allVars
        => /\ Known'
           /\ [Parse \/ Finish \/ \E s \in Seq(Symbols \cup {Cut}) : Write(s)]_vars
  BY FileStep, KindKept DEF Known
<1>. QED
  BY <1>1, <1>2, PTL DEF FileSpec, Spec

\* So do all of the start of llad: making the log files changes nothing that
\* was read.
THEOREM StartupReads == StartupSpec => Spec
<1>1. StartupInit => Init /\ Known
  BY DEF StartupInit, FileInit, Known
<1>2. Known /\ [StartupNext]_startupVars
        => /\ Known'
           /\ [Parse \/ Finish \/ \E s \in Seq(Symbols \cup {Cut}) : Write(s)]_vars
  <2>. SUFFICES ASSUME Known, [StartupNext]_startupVars
                PROVE  /\ Known'
                       /\ [Parse \/ Finish
                            \/ \E s \in Seq(Symbols \cup {Cut}) : Write(s)]_vars
    OBVIOUS
  <2>1. CASE FileNext
    BY <2>1, FileStep, KindKept DEF Known
  <2>2. CASE UNCHANGED allVars
    BY <2>2 DEF allVars, fileVars, Known
  <2>. QED
    BY <2>1, <2>2
       DEF StartupNext, IgnoreSection, MoreSections, NewLogfile, startupVars
<1>. QED
  BY <1>1, <1>2, PTL DEF StartupSpec, Spec

\* For the log files llad starts with: whatever the file, no word outgrows the
\* buffer, and the flag that says whether the parser is within an action is
\* right.
THEOREM StartupFlags == StartupSpec => [](TypeOK /\ FlagsAgree)
<1>1. IInv => TypeOK /\ FlagsAgree
  BY DEF IInv
<1>. QED
  BY <1>1, StartupReads, Invariance, PTL

-----------------------------------------------------------------------------
(* The list of log files.                                                  *)

IsSeq(s) == Len(s) \in Nat /\ s = [i \in 1..Len(s) |-> s[i]]

\* There is one Logfile for each canonical name that was found.
Resolved ==
  /\ IsSeq(firstLog) /\ IsSeq(resolved)
  /\ \A i, j \in 1..Len(firstLog) : firstLog[i].name = firstLog[j].name => i = j
  /\ \A i \in 1..Len(firstLog) : \E k \in 1..Len(resolved) : resolved[k] = firstLog[i].name
  /\ \A k \in 1..Len(resolved) :
       resolved[k] = "none" \/ \E i \in 1..Len(firstLog) : firstLog[i].name = resolved[k]

LEMMA AppendIsSeq ==
  ASSUME NEW s, IsSeq(s), NEW x
  PROVE  /\ IsSeq(Append(s, x)) /\ Len(Append(s, x)) = Len(s) + 1
         /\ Append(s, x)[Len(s) + 1] = x
         /\ \A i \in 1..Len(s) : Append(s, x)[i] = s[i]
<1>. DEFINE S == {s[i] : i \in 1..Len(s)} \cup {x}
<1>1. s \in Seq(S) /\ x \in S
  BY DEF IsSeq
<1>. HIDE DEF S
<1>2. /\ Append(s, x) \in Seq(S) /\ Len(Append(s, x)) = Len(s) + 1
      /\ Append(s, x)[Len(s) + 1] = x
      /\ \A i \in 1..Len(s) : Append(s, x)[i] = s[i]
  BY <1>1, AppendProperties
<1>3. IsSeq(Append(s, x))
  BY <1>2, LenProperties DEF IsSeq
<1>. QED
  BY <1>2, <1>3

LEMMA ResolvedStep ==
  ASSUME Resolved, [StartupNext]_startupVars
  PROVE  Resolved'
<1>1. CASE UNCHANGED <<firstLog, resolved>>
  BY <1>1 DEF Resolved, IsSeq
<1>2. CASE IgnoreSection
  <2>1. resolved' = Append(resolved, "none") /\ firstLog' = firstLog
    BY <1>2 DEF IgnoreSection
  <2>2. /\ IsSeq(resolved') /\ Len(resolved') = Len(resolved) + 1
        /\ resolved'[Len(resolved) + 1] = "none"
        /\ \A i \in 1..Len(resolved) : resolved'[i] = resolved[i]
    BY <2>1, AppendIsSeq DEF Resolved
  <2>3. Len(resolved) \in Nat
    BY DEF Resolved, IsSeq
  <2>4. /\ \A k \in 1..Len(resolved') : k \in 1..Len(resolved) \/ k = Len(resolved) + 1
        /\ \A k \in 1..Len(resolved) : k \in 1..Len(resolved')
    BY <2>2, <2>3
  <2>. QED
    BY <2>1, <2>2, <2>4 DEF Resolved, IsSeq
<1>3. ASSUME NEW path \in Paths, NewLogfile(path)
      PROVE  Resolved'
  <2>. DEFINE same == {i \in 1..Len(firstLog) : firstLog[i].name = path}
  <2>1. resolved' = Append(resolved, path)
    BY <1>3 DEF NewLogfile
  <2>2. /\ IsSeq(resolved') /\ Len(resolved') = Len(resolved) + 1
        /\ resolved'[Len(resolved) + 1] = path
        /\ \A i \in 1..Len(resolved) : resolved'[i] = resolved[i]
    BY <2>1, AppendIsSeq DEF Resolved
  <2>3. Len(resolved) \in Nat /\ Len(firstLog) \in Nat
    BY DEF Resolved, IsSeq
  <2>4. /\ \A k \in 1..Len(resolved') : k \in 1..Len(resolved) \/ k = Len(resolved) + 1
        /\ \A k \in 1..Len(resolved) : k \in 1..Len(resolved')
        /\ Len(resolved) + 1 \in 1..Len(resolved')
    BY <2>2, <2>3
  <2>5. CASE same = {}
    <3>. DEFINE new == [name |-> path, actions |-> CreateActions(Section)]
    <3>1. firstLog' = Append(firstLog, new) /\ new.name = path
      BY <1>3, <2>5 DEF NewLogfile
    <3>. HIDE DEF new
    <3>2. /\ IsSeq(firstLog') /\ Len(firstLog') = Len(firstLog) + 1
          /\ firstLog'[Len(firstLog) + 1] = new
          /\ \A i \in 1..Len(firstLog) : firstLog'[i] = firstLog[i]
      BY <3>1, AppendIsSeq DEF Resolved
    <3>3. /\ \A i \in 1..Len(firstLog') : i \in 1..Len(firstLog) \/ i = Len(firstLog) + 1
          /\ \A i \in 1..Len(firstLog) : i \in 1..Len(firstLog')
          /\ Len(firstLog) + 1 \in 1..Len(firstLog')
      BY <2>3, <3>2
    <3>4. \A i, j \in 1..Len(firstLog') : firstLog'[i].name = firstLog'[j].name => i = j
      BY <2>5, <3>1, <3>2, <3>3 DEF Resolved
    <3>5. \A i \in 1..Len(firstLog') :
            \E k \in 1..Len(resolved') : resolved'[k] = firstLog'[i].name
      BY <2>2, <2>4, <3>1, <3>2, <3>3 DEF Resolved
    <3>6. ASSUME NEW k \in 1..Len(resolved'), resolved'[k] # "none"
          PROVE  \E i \in 1..Len(firstLog') : firstLog'[i].name = resolved'[k]
      <4>1. CASE k \in 1..Len(resolved)
        <5>1. PICK i \in 1..Len(firstLog) : firstLog[i].name = resolved[k]
          BY <2>2, <3>6, <4>1 DEF Resolved
        <5>. QED
          BY <2>2, <3>2, <3>3, <4>1, <5>1
      <4>2. CASE k = Len(resolved) + 1
        BY <2>2, <3>1, <3>2, <3>3, <4>2
      <4>. QED
        BY <2>4, <4>1, <4>2
    <3>. QED
      BY <2>2, <3>2, <3>4, <3>5, <3>6 DEF Resolved
  <2>6. CASE same # {}
    <3>1. firstLog' = [i \in 1..Len(firstLog) |->
                        IF i \in same
                        THEN [firstLog[i] EXCEPT
                                !.actions = AppendActions(@, CreateActions(Section))]
                        ELSE firstLog[i]]
      BY <1>3, <2>6 DEF NewLogfile
    <3>2. Len(firstLog') = Len(firstLog) /\ IsSeq(firstLog')
      BY <2>3, <3>1 DEF IsSeq
    <3>3. \A i \in 1..Len(firstLog) : firstLog'[i].name = firstLog[i].name
      BY <3>1
    <3>4. \E i \in 1..Len(firstLog) : firstLog[i].name = path
      BY <2>6
    <3>5. \A i, j \in 1..Len(firstLog') : firstLog'[i].name = firstLog'[j].name => i = j
      BY <3>2, <3>3 DEF Resolved
    <3>6. \A i \in 1..Len(firstLog') :
            \E k \in 1..Len(resolved') : resolved'[k] = firstLog'[i].name
      BY <2>2, <2>4, <3>2, <3>3 DEF Resolved
    <3>7. ASSUME NEW k \in 1..Len(resolved'), resolved'[k] # "none"
          PROVE  \E i \in 1..Len(firstLog') : firstLog'[i].name = resolved'[k]
      <4>1. CASE k \in 1..Len(resolved)
        <5>1. PICK i \in 1..Len(firstLog) : firstLog[i].name = resolved[k]
          BY <2>2, <3>7, <4>1 DEF Resolved
        <5>. QED
          BY <2>2, <3>2, <3>3, <4>1, <5>1
      <4>2. CASE k = Len(resolved) + 1
        BY <2>2, <3>2, <3>3, <3>4, <4>2
      <4>. QED
        BY <2>4, <4>1, <4>2
    <3>. QED
      BY <2>2, <3>2, <3>5, <3>6, <3>7 DEF Resolved
  <2>. QED
    BY <2>5, <2>6
<1>. QED
  BY <1>1, <1>2, <1>3 DEF StartupNext, startupVars

\* Whatever the file says and wherever its paths lead, each log file that
\* sections name is watched once: one Logfile has its canonical name.
THEOREM WatchedOnce == StartupSpec => []OneLogfile
<1>1. StartupInit => Resolved
  <2>1. IsSeq(<<>>) /\ Len(<<>>) = 0
    BY DEF IsSeq
  <2>. QED
    BY <2>1 DEF StartupInit, Resolved
<1>2. Resolved => OneLogfile
  <2>. SUFFICES ASSUME Resolved, NEW path \in Paths
                PROVE  Cardinality({i \in 1..Len(firstLog) : firstLog[i].name = path})
                         = IF \E i \in 1..Len(resolved) : resolved[i] = path THEN 1 ELSE 0
    BY DEF OneLogfile
  <2>. DEFINE same == {i \in 1..Len(firstLog) : firstLog[i].name = path}
  <2>1. CASE \E k \in 1..Len(resolved) : resolved[k] = path
    <3>1. path # "none"
      BY StartupAssumption
    <3>2. PICK i \in 1..Len(firstLog) : firstLog[i].name = path
      BY <2>1, <3>1 DEF Resolved
    <3>3. same = {i}
      BY <3>2 DEF Resolved
    <3>. QED
      BY <2>1, <3>3, FS_Singleton
  <2>2. CASE ~\E k \in 1..Len(resolved) : resolved[k] = path
    <3>1. same = {}
      BY <2>2 DEF Resolved
    <3>. QED
      BY <2>2, <3>1, FS_EmptySet
  <2>. QED
    BY <2>1, <2>2
<1>. QED
  BY <1>1, <1>2, ResolvedStep, PTL DEF StartupSpec

-----------------------------------------------------------------------------
(* FlattenSeq.  Its recursive function exists and is the only one of its   *)
(* kind, by induction written out with smallest counterexamples.           *)

\* A set of natural numbers has a smallest member.
LEMMA Smallest ==
  ASSUME NEW T \in SUBSET Nat, T # {}
  PROVE  \E k \in T : \A j \in T : k <= j
<1>. DEFINE R     == StrictSubsetOrdering(Nat)
            Below == {1..k : k \in T}
<1>1. IsWellFoundedOn(R, FiniteSubsetsOf(Nat))
  BY FS_StrictSubsetOrderingWellFounded
<1>2. Below \subseteq FiniteSubsetsOf(Nat) /\ Below # {}
  <2>1. \A k \in Nat : IsFiniteSet(1..k) /\ 1..k \in SUBSET Nat
    BY FS_Interval
  <2>. QED
    BY <2>1 DEF FiniteSubsetsOf
<1>3. PICK x \in Below : \A y \in Below : ~(<<y, x>> \in R)
  BY <1>1, <1>2, WFMin
<1>4. PICK k \in T : x = 1..k
  BY <1>3
<1>5. ASSUME NEW j \in T, ~(k <= j)
      PROVE  FALSE
  <2>1. 1..j \in SUBSET Nat /\ 1..k \in SUBSET Nat /\ 1..j \subseteq 1..k /\ k \in 1..k
          /\ k \notin 1..j
    BY <1>5
  <2>2. 1..j # 1..k
    BY <2>1
  <2>3. <<1..j, 1..k>> \in R
    BY <2>1, <2>2 DEF StrictSubsetOrdering
  <2>. QED
    BY <1>3, <1>4, <2>3
<1>. QED
  BY <1>5

\* The recursive function in FlattenSeq.
Flattens(f, s) ==
  f = [i \in 1..Len(s) |-> IF i = 1 THEN s[i] ELSE f[i - 1] \o s[i]]

LEMMA FlattenOnce ==
  ASSUME NEW S, NEW s \in Seq(Seq(S)), NEW f, NEW g,
         Flattens(f, s), Flattens(g, s)
  PROVE  f = g
<1>. DEFINE n == Len(s)
            Differ == {i \in 1..n : f[i] # g[i]}
<1>1. n \in Nat
  OBVIOUS
<1>2. f = [i \in 1..n |-> f[i]] /\ g = [i \in 1..n |-> g[i]]
  BY DEF Flattens
<1>3. \A i \in 1..n : /\ f[i] = IF i = 1 THEN s[i] ELSE f[i - 1] \o s[i]
                      /\ g[i] = IF i = 1 THEN s[i] ELSE g[i - 1] \o s[i]
  BY DEF Flattens
<1>. HIDE DEF n
<1>4. CASE Differ # {}
  <2>. Differ \in SUBSET Nat
    BY <1>1
  <2>1. PICK i \in Differ : \A j \in Differ : i <= j
    BY <1>4, Smallest
  <2>2. i # 1
    BY <1>3
  <2>3. i - 1 \in 1..n /\ i - 1 \notin Differ
    BY <1>1, <2>1, <2>2
  <2>. QED
    BY <1>3, <2>2, <2>3
<1>. QED
  BY <1>2, <1>4

LEMMA FlattenExists ==
  ASSUME NEW S, NEW s \in Seq(Seq(S))
  PROVE  \E f \in [1..Len(s) -> Seq(S)] : Flattens(f, s)
<1>. DEFINE None_(n) == \E t \in Seq(Seq(S)) :
                          Len(t) = n /\ ~\E f \in [1..n -> Seq(S)] : Flattens(f, t)
            Bad == {n \in Nat : None_(n)}
<1>1. CASE Bad # {}
  <2>1. PICK n \in Bad : \A m \in Bad : n <= m
    BY <1>1, Smallest
  <2>2. PICK t \in Seq(Seq(S)) :
               Len(t) = n /\ ~\E f \in [1..n -> Seq(S)] : Flattens(f, t)
    BY <2>1
  <2>. HIDE DEF Bad
  <2>3. n \in Nat /\ t \in [1..n -> Seq(S)]
    BY <2>2
  <2>4. CASE n = 0
    <3>1. [i \in 1..n |-> <<>>] \in [1..n -> Seq(S)]
      OBVIOUS
    <3>2. Flattens([i \in 1..n |-> <<>>], t)
      BY <2>2, <2>4 DEF Flattens
    <3>. QED
      BY <2>2, <3>1, <3>2
  <2>5. CASE n # 0
    <3>. DEFINE m == n - 1
                u == [i \in 1..m |-> t[i]]
    <3>1. m \in Nat /\ m \notin Bad /\ n = m + 1
      BY <2>1, <2>3, <2>5
    <3>2. u \in Seq(Seq(S)) /\ Len(u) = m
      BY <2>3, <3>1
    <3>3. PICK f \in [1..m -> Seq(S)] : Flattens(f, u)
      BY <3>1, <3>2 DEF Bad
    <3>. DEFINE last == IF n = 1 THEN t[n] ELSE f[m] \o t[n]
                g == [i \in 1..n |-> IF i = n THEN last ELSE f[i]]
    <3>. HIDE DEF m
    <3>4. last \in Seq(S)
      <4>1. t[n] \in Seq(S)
        BY <2>3, <2>5
      <4>2. n # 1 => f[m] \in Seq(S)
        BY <3>1, <3>3
      <4>. QED
        BY <4>1, <4>2
    <3>. HIDE DEF last
    <3>5. g \in [1..n -> Seq(S)]
      BY <3>1, <3>3, <3>4
    <3>6. ASSUME NEW i \in 1..n
          PROVE  g[i] = IF i = 1 THEN t[i] ELSE g[i - 1] \o t[i]
      <4>1. CASE i = n
        <5>1. g[i] = last
          BY <4>1
        <5>2. n # 1 => g[n - 1] = f[m]
          BY <2>3, <2>5, <3>1
        <5>. QED
          BY <3>1, <4>1, <5>1, <5>2 DEF last
      <4>2. CASE i # n
        <5>1. i \in 1..m /\ u[i] = t[i] /\ g[i] = f[i]
          BY <2>3, <3>1, <4>2
        <5>2. f[i] = IF i = 1 THEN u[i] ELSE f[i - 1] \o u[i]
          BY <3>2, <3>3, <5>1 DEF Flattens
        <5>3. i # 1 => g[i - 1] = f[i - 1]
          BY <2>3, <3>1, <5>1
        <5>. QED
          BY <5>1, <5>2, <5>3
      <4>. QED
        BY <4>1, <4>2
    <3>7. Flattens(g, t)
      BY <2>2, <3>6 DEF Flattens
    <3>. QED
      BY <2>2, <3>5, <3>7
  <2>. QED
    BY <2>4, <2>5
<1>. QED
  BY <1>1

\* Flattening adds what is appended.
LEMMA FlattenAppend ==
  ASSUME NEW S, NEW s \in Seq(Seq(S)), NEW x \in Seq(S)
  PROVE  /\ FlattenSeq(s) \in Seq(S)
         /\ FlattenSeq(Append(s, x)) = FlattenSeq(s) \o x
<1>. DEFINE Only(f, t) == f \in [1..Len(t) -> Seq(S)] /\ Flattens(f, t)
                          /\ FlattenSeq(t) = IF Len(t) = 0 THEN t ELSE f[Len(t)]
<1>1. ASSUME NEW t \in Seq(Seq(S))
      PROVE  \E f : Only(f, t)
  <2>1. PICK f \in [1..Len(t) -> Seq(S)] : Flattens(f, t)
    BY FlattenExists
  <2>. DEFINE h == CHOOSE g : Flattens(g, t)
  <2>2. Flattens(h, t)
    BY <2>1
  <2>3. FlattenSeq(t) = IF Len(t) = 0 THEN t ELSE h[Len(t)]
    BY DEF FlattenSeq, Flattens
  <2>. HIDE DEF h
  <2>4. h = f
    BY <2>1, <2>2, FlattenOnce
  <2>. QED
    BY <2>1, <2>3, <2>4
<1>2. PICK f : Only(f, s)
  BY <1>1
<1>. DEFINE n == Len(s)
            t == Append(s, x)
<1>3. /\ n \in Nat /\ t \in Seq(Seq(S)) /\ Len(t) = n + 1
      /\ t[n + 1] = x /\ \A i \in 1..n : t[i] = s[i]
  BY AppendProperties
<1>4. PICK g : Only(g, t)
  BY <1>1, <1>3
<1>. DEFINE h == [i \in 1..n |-> g[i]]
<1>. HIDE DEF t
<1>5. Flattens(h, s)
  <2>1. ASSUME NEW i \in 1..n
        PROVE  h[i] = IF i = 1 THEN s[i] ELSE h[i - 1] \o s[i]
    <3>1. i \in 1..Len(t) /\ t[i] = s[i]
      BY <1>3
    <3>2. g[i] = IF i = 1 THEN t[i] ELSE g[i - 1] \o t[i]
      BY <1>4, <3>1 DEF Flattens
    <3>3. i # 1 => i - 1 \in 1..n
      BY <1>3
    <3>. QED
      BY <3>1, <3>2, <3>3
  <2>. QED
    BY <2>1 DEF Flattens
<1>6. h = f
  BY <1>2, <1>5, FlattenOnce
<1>7. FlattenSeq(t) = g[n + 1]
  BY <1>3, <1>4
<1>8. CASE n = 0
  <2>1. s = <<>> /\ FlattenSeq(s) = s
    BY <1>2, <1>8
  <2>2. g[n + 1] = x
    BY <1>3, <1>4, <1>8 DEF Flattens
  <2>3. <<>> \o x = x
    BY ConcatEmptySeq
  <2>4. FlattenSeq(s) = <<>> /\ <<>> \in Seq(S)
    BY <2>1
  <2>5. FlattenSeq(Append(s, x)) = x
    BY <1>7, <2>2 DEF t
  <2>. QED
    BY <2>3, <2>4, <2>5
<1>9. CASE n # 0
  <2>1. FlattenSeq(s) = f[n] /\ f[n] \in Seq(S)
    <3>1. n \in 1..n
      BY <1>3, <1>9
    <3>. QED
      BY <1>2, <1>9, <3>1
  <2>2. n + 1 \in 1..Len(t) /\ n + 1 # 1 /\ (n + 1) - 1 = n /\ n \in 1..n
    BY <1>3, <1>9
  <2>3. g[n + 1] = g[n] \o x
    BY <1>3, <1>4, <2>2 DEF Flattens
  <2>4. g[n] = f[n]
    BY <1>6, <2>2
  <2>. QED
    BY <1>7, <2>1, <2>3, <2>4 DEF t
<1>. QED
  BY <1>8, <1>9

-----------------------------------------------------------------------------
(* The chains of actions.                                                  *)

\* createActions makes a chain of actions.
LEMMA CreatedType ==
  ASSUME NEW section \in SectionType
  PROVE  CreateActions(section) \in Seq(ActionType)
<1>. DEFINE parts == [i \in 1..Len(section.actions) |->
                       IF section.actions[i].pattern \in BadPatterns THEN <<>>
                       ELSE <<section.actions[i]>>]
<1>1. section.actions \in Seq(ActionType)
  BY DEF SectionType
<1>2. \A i \in 1..Len(section.actions) : parts[i] \in Seq(ActionType)
  BY <1>1
<1>3. parts \in Seq(Seq(ActionType))
  BY <1>1, <1>2
<1>4. CreateActions(section) = FlattenSeq(parts)
  BY DEF CreateActions
<1>. HIDE DEF parts
<1>5. FlattenSeq(parts) \in Seq(ActionType)
  <2>1. <<>> \in Seq(ActionType)
    OBVIOUS
  <2>. QED
    BY <1>3, <2>1, FlattenAppend
<1>. QED
  BY <1>4, <1>5

\* After the parser has ended, what it read stays.
LEMMA EndedStays ==
  ASSUME at \in Ended, [StartupNext]_startupVars
  PROVE  UNCHANGED <<at, config>>
<1>1. CASE Parse
  BY <1>1 DEF Parse, Open, EndOfFile, FullLine, Indentation, IgnoredLine,
     RestOfLine, SectionStart, SectionTitle, ActionsLine, LineParsed,
     SkipWhitespace, Punctuation, BlockEnd, WordExpected, Escaped, Quoted,
     Unquoted, Incomplete, BufferFull, ActionName, PropertyName,
     PropertyValue, WordEnds, InWord, Ready, Ended
<1>2. CASE WriteFile
  <2>1. ASSUME NEW s, Writes(s) PROVE UNCHANGED parser
    BY <2>1 DEF Writes, Write
  <2>2. UNCHANGED parser
    BY <1>2, <2>1
       DEF WriteFile, WriteBlank, WriteComment, WriteSection, WriteBareChar,
           WriteQuotedChar, WriteAs, WriteQuote, WriteProperty, WriteLongLine,
           WritePunctuation, Slip, EndFile, Finish
  <2>. QED
    BY <2>2 DEF parser
<1>3. CASE UNCHANGED allVars
  BY <1>3 DEF allVars, vars, source, parser
<1>. QED
  BY <1>1, <1>2, <1>3
     DEF StartupNext, FileNext, Terminated, IgnoreSection, NewLogfile, startupVars

Parts(path) ==
  [i \in 1..Len(resolved) |->
    IF resolved[i] = path THEN CreateActions(config[i]) ELSE <<>>]

LogfileType == [name : Paths, actions : Seq(ActionType)]

\* The chains hold what the sections that were handled say: a name that is
\* not in the list has no actions so far.
Chained ==
  /\ firstLog \in Seq(LogfileType)
  /\ resolved \in Seq(Paths \cup {"none"})
  /\ Len(resolved) <= Len(config)
  /\ resolved # <<>> => at = "accepted"
  /\ ChainsInOrder
  /\ \A path \in Paths :
       (\A i \in 1..Len(firstLog) : firstLog[i].name # path)
         => ActionsFor(path) = <<>>

\* What one more section adds to the actions for a log file.
LEMMA OneMorePart ==
  ASSUME config \in Seq(SectionType), Chained, MoreSections,
         NEW r \in Paths \cup {"none"},
         resolved' = Append(resolved, r), config' = config
  PROVE  /\ CreateActions(Section) \in Seq(ActionType)
         /\ resolved' \in Seq(Paths \cup {"none"})
         /\ Len(resolved') <= Len(config')
         /\ \A path : /\ ActionsFor(path) \in Seq(ActionType)
                      /\ ActionsFor(path)' =
                           IF r = path THEN ActionsFor(path) \o CreateActions(Section)
                                       ELSE ActionsFor(path)
<1>. DEFINE n == Len(resolved)
<1>1. /\ n \in Nat /\ n < Len(config) /\ Section = config[n + 1]
      /\ Len(config) \in Nat
  BY DEF Chained, MoreSections, Section
<1>2. \A i \in 1..Len(config) : CreateActions(config[i]) \in Seq(ActionType)
  BY CreatedType
<1>3. CreateActions(Section) \in Seq(ActionType)
  BY <1>1, <1>2
<1>4. /\ resolved' \in Seq(Paths \cup {"none"}) /\ Len(resolved') = n + 1
      /\ resolved'[n + 1] = r /\ \A i \in 1..n : resolved'[i] = resolved[i]
  BY AppendProperties DEF Chained
<1>5. ASSUME NEW path
      PROVE  /\ ActionsFor(path) \in Seq(ActionType)
             /\ ActionsFor(path)' =
                  IF r = path THEN ActionsFor(path) \o CreateActions(Section)
                              ELSE ActionsFor(path)
  <2>. DEFINE x == IF r = path THEN CreateActions(Section) ELSE <<>>
  <2>1. Parts(path) \in Seq(Seq(ActionType)) /\ Len(Parts(path)) = n
    <3>1. \A i \in 1..n : Parts(path)[i] \in Seq(ActionType)
      BY <1>1, <1>2 DEF Parts
    <3>. QED
      BY <1>1, <3>1 DEF Parts
  <2>2. x \in Seq(ActionType)
    BY <1>3
  <2>3. Parts(path)' = Append(Parts(path), x)
    <3>1. /\ Len(Append(Parts(path), x)) = n + 1
          /\ Append(Parts(path), x) \in Seq(Seq(ActionType))
          /\ Append(Parts(path), x)[n + 1] = x
          /\ \A i \in 1..n : Append(Parts(path), x)[i] = Parts(path)[i]
      BY <2>1, <2>2, AppendProperties
    <3>2. ASSUME NEW i \in 1..(n + 1)
          PROVE  Append(Parts(path), x)[i] =
                   IF resolved'[i] = path THEN CreateActions(config[i]) ELSE <<>>
      <4>1. CASE i = n + 1
        BY <1>1, <1>4, <3>1, <4>1
      <4>2. CASE i # n + 1
        <5>1. i \in 1..n
          BY <1>1, <4>2
        <5>2. Parts(path)[i] = IF resolved[i] = path THEN CreateActions(config[i])
                                                     ELSE <<>>
          BY <5>1 DEF Parts
        <5>. QED
          BY <1>4, <3>1, <5>1, <5>2
      <4>. QED
        BY <4>1, <4>2
    <3>3. Append(Parts(path), x) = [i \in 1..(n + 1) |-> Append(Parts(path), x)[i]]
      BY <1>1, <3>1
    <3>4. Parts(path)' = [i \in 1..(n + 1) |->
                           IF resolved'[i] = path THEN CreateActions(config[i]) ELSE <<>>]
      BY <1>4 DEF Parts, CreateActions
    <3>. QED
      BY <3>2, <3>3, <3>4
  <2>4. ActionsFor(path) = FlattenSeq(Parts(path)) /\ ActionsFor(path)' = FlattenSeq(Parts(path)')
    BY DEF ActionsFor, Parts
  <2>. HIDE DEF x
  <2>5. FlattenSeq(Parts(path)) \in Seq(ActionType)
        /\ FlattenSeq(Append(Parts(path), x)) = FlattenSeq(Parts(path)) \o x
    BY <2>1, <2>2, FlattenAppend
  <2>6. FlattenSeq(Parts(path)) \o <<>> = FlattenSeq(Parts(path))
    BY <2>5, ConcatEmptySeq
  <2>. QED
    BY <2>3, <2>4, <2>5, <2>6 DEF x
<1>. QED
  BY <1>1, <1>3, <1>4, <1>5

\* Before the first section is handled, there are no actions for any file.
LEMMA NoPartsYet ==
  resolved = <<>> => \A path : ActionsFor(path) = <<>>
<1>. SUFFICES ASSUME resolved = <<>>, NEW path
              PROVE  ActionsFor(path) = <<>>
  OBVIOUS
<1>1. Parts(path) = <<>>
  BY DEF Parts
<1>2. ActionsFor(path) = FlattenSeq(Parts(path))
  BY DEF ActionsFor, Parts
<1>3. FlattenSeq(<<>>) = <<>>
  BY DEF FlattenSeq
<1>. QED
  BY <1>1, <1>2, <1>3

\* Each step keeps what the chains hold.
LEMMA ChainedStep ==
  ASSUME TypeOK, TypeOK', Resolved, Chained, [StartupNext]_startupVars
  PROVE  Chained'
<1>. config \in Seq(SectionType) /\ config' \in Seq(SectionType)
  BY DEF TypeOK
<1>1. CASE UNCHANGED <<firstLog, resolved>>
  <2>1. CASE resolved # <<>>
    <3>1. UNCHANGED <<at, config>>
      BY <2>1, EndedStays DEF Chained, Ended
    <3>2. \A path : ActionsFor(path)' = ActionsFor(path)
      BY <1>1, <3>1 DEF ActionsFor, CreateActions
    <3>. QED
      BY <1>1, <2>1, <3>1, <3>2 DEF Chained, ChainsInOrder
  <2>2. CASE resolved = <<>>
    <3>1. firstLog = <<>>
      <4>1. Len(firstLog) \in Nat /\ Len(resolved) = 0
        BY <2>2 DEF Chained
      <4>2. Len(firstLog) = 0
        BY <4>1 DEF Resolved
      <4>. QED
        BY <4>2 DEF Chained
    <3>2. \A path : ActionsFor(path)' = <<>>
      <4>1. (resolved = <<>> => \A path : ActionsFor(path) = <<>>)'
        BY NoPartsYet, PTL
      <4>. QED
        BY <1>1, <2>2, <4>1
    <3>3. Len(resolved') <= Len(config')
      BY <1>1, <2>2
    <3>. QED
      BY <1>1, <2>2, <3>1, <3>2, <3>3 DEF Chained, ChainsInOrder
  <2>. QED
    BY <2>1, <2>2
<1>2. CASE IgnoreSection
  <2>1. /\ config' = config /\ at' = at /\ resolved' = Append(resolved, "none")
        /\ firstLog' = firstLog /\ at = "accepted" /\ MoreSections
    BY <1>2 DEF IgnoreSection, MoreSections, allVars, vars, parser
  <2>2. /\ resolved' \in Seq(Paths \cup {"none"})
        /\ Len(resolved') <= Len(config')
        /\ \A path \in Paths : ActionsFor(path)' = ActionsFor(path)
    BY <2>1, OneMorePart, StartupAssumption
  <2>3. \A i \in 1..Len(firstLog) : firstLog[i].name \in Paths
    <3>1. \A i \in 1..Len(firstLog) : firstLog[i] \in LogfileType
      BY DEF Chained
    <3>. QED
      BY <3>1 DEF LogfileType
  <2>. QED
    BY <2>1, <2>2, <2>3 DEF Chained, ChainsInOrder
<1>3. ASSUME NEW path \in Paths, NewLogfile(path)
      PROVE  Chained'
  <2>. DEFINE same  == {i \in 1..Len(firstLog) : firstLog[i].name = path}
              chain == CreateActions(Section)
              n     == Len(firstLog)
  <2>1. /\ config' = config /\ at' = at /\ resolved' = Append(resolved, path)
        /\ at = "accepted" /\ MoreSections
    BY <1>3 DEF NewLogfile, MoreSections, allVars, vars, parser
  <2>2. /\ resolved' \in Seq(Paths \cup {"none"})
        /\ Len(resolved') <= Len(config')
        /\ chain \in Seq(ActionType)
        /\ ActionsFor(path) \in Seq(ActionType)
        /\ ActionsFor(path)' = ActionsFor(path) \o chain
        /\ \A q : q # path => ActionsFor(q)' = ActionsFor(q)
    BY <2>1, OneMorePart
  <2>3. n \in Nat /\ \A i \in 1..n : firstLog[i] \in LogfileType
    BY DEF Chained
  <2>4. \A i \in 1..n : firstLog[i].actions = ActionsFor(firstLog[i].name)
    BY DEF Chained, ChainsInOrder
  <2>5. firstLog' =
          IF same = {}
          THEN Append(firstLog, [name |-> path, actions |-> chain])
          ELSE [i \in 1..n |->
                 IF i \in same
                 THEN [firstLog[i] EXCEPT !.actions = AppendActions(@, chain)]
                 ELSE firstLog[i]]
    BY <1>3 DEF NewLogfile
  <2>. HIDE DEF chain
  <2>6. CASE same = {}
    <3>. DEFINE new == [name |-> path, actions |-> chain]
    <3>1. new \in LogfileType /\ new.name = path /\ new.actions = chain
      BY <2>2 DEF LogfileType
    <3>2. firstLog' = Append(firstLog, new)
      BY <2>5, <2>6
    <3>. HIDE DEF new
    <3>3. /\ firstLog' \in Seq(LogfileType) /\ Len(firstLog') = n + 1
          /\ firstLog'[n + 1] = new /\ \A i \in 1..n : firstLog'[i] = firstLog[i]
      BY <3>1, <3>2, AppendProperties DEF Chained
    <3>4. ActionsFor(path)' = chain
      <4>1. ActionsFor(path) = <<>>
        BY <2>6 DEF Chained
      <4>2. <<>> \o chain = chain
        BY <2>2, ConcatEmptySeq
      <4>. QED
        BY <2>2, <4>1, <4>2
    <3>5. ChainsInOrder'
      <4>1. ASSUME NEW i \in 1..n
            PROVE  firstLog'[i].actions = ActionsFor(firstLog[i].name)'
        <5>1. firstLog[i].name # path
          BY <2>6
        <5>. QED
          BY <2>2, <2>4, <3>3, <5>1
      <4>2. ASSUME NEW i, i = n + 1
            PROVE  firstLog'[i].actions = ActionsFor(firstLog[i].name)'
        BY <3>1, <3>3, <3>4, <4>2
      <4>3. \A i \in 1..Len(firstLog') : i \in 1..n \/ i = n + 1
        BY <2>3, <3>3
      <4>. QED
        BY <4>1, <4>2, <4>3 DEF ChainsInOrder
    <3>6. ASSUME NEW q \in Paths, \A i \in 1..Len(firstLog') : firstLog'[i].name # q
          PROVE  ActionsFor(q)' = <<>>
      <4>1. q # path
        BY <2>3, <3>1, <3>3, <3>6
      <4>2. \A i \in 1..n : firstLog[i].name # q
        BY <2>3, <3>3, <3>6
      <4>. QED
        BY <2>2, <4>1, <4>2 DEF Chained
    <3>. QED
      BY <2>1, <2>2, <3>3, <3>5, <3>6 DEF Chained
  <2>7. CASE same # {}
    <3>1. /\ firstLog' = [i \in 1..n |->
                 IF i \in same
                 THEN [firstLog[i] EXCEPT !.actions = AppendActions(@, chain)]
                 ELSE firstLog[i]]
      BY <2>5, <2>7
    <3>2. ASSUME NEW i \in 1..n
          PROVE  /\ firstLog'[i] \in LogfileType
                 /\ firstLog'[i].name = firstLog[i].name
                 /\ firstLog'[i].actions = ActionsFor(firstLog[i].name)'
      <4>1. firstLog[i] \in LogfileType
        BY <2>3
      <4>2. CASE i \in same
        <5>1. firstLog'[i] = [firstLog[i] EXCEPT !.actions = firstLog[i].actions \o chain]
          BY <3>1, <4>2 DEF AppendActions
        <5>2. firstLog[i].actions \o chain \in Seq(ActionType)
          BY <2>2, <4>1 DEF LogfileType
        <5>3. /\ firstLog'[i] \in LogfileType
              /\ firstLog'[i].name = firstLog[i].name
              /\ firstLog'[i].actions = firstLog[i].actions \o chain
          BY <4>1, <5>1, <5>2 DEF LogfileType
        <5>4. firstLog[i].name = path /\ firstLog[i].actions = ActionsFor(path)
          BY <2>4, <4>2
        <5>. QED
          BY <2>2, <5>3, <5>4
      <4>3. CASE i \notin same
        <5>1. firstLog'[i] = firstLog[i] /\ firstLog[i].name # path
          BY <3>1, <4>3
        <5>. QED
          BY <2>2, <2>4, <4>1, <5>1
      <4>. QED
        BY <4>2, <4>3
    <3>3. firstLog' \in Seq(LogfileType) /\ Len(firstLog') = n
      <4>1. firstLog' = [i \in 1..n |-> firstLog'[i]]
        BY <3>1
      <4>. QED
        BY <2>3, <3>2, <4>1
    <3>4. ChainsInOrder'
      BY <3>2, <3>3 DEF ChainsInOrder
    <3>5. ASSUME NEW q \in Paths, \A i \in 1..Len(firstLog') : firstLog'[i].name # q
          PROVE  ActionsFor(q)' = <<>>
      <4>1. \A i \in 1..n : firstLog[i].name # q
        BY <3>2, <3>3, <3>5
      <4>2. q # path
        BY <2>7, <4>1
      <4>. QED
        BY <2>2, <4>1, <4>2 DEF Chained
    <3>. QED
      BY <2>1, <2>2, <3>3, <3>4, <3>5 DEF Chained
  <2>. QED
    BY <2>6, <2>7
<1>. QED
  BY <1>1, <1>2, <1>3 DEF StartupNext, startupVars

\* Whatever the file says and wherever its paths lead: the chain of a log
\* file holds all actions of its sections that can match, once and in the
\* order of the file.
THEOREM ChainsRight == StartupSpec => []ChainsInOrder
<1>1. StartupInit => Chained
  <2>. SUFFICES ASSUME StartupInit PROVE Chained
    OBVIOUS
  <2>1. firstLog = <<>> /\ resolved = <<>> /\ config = <<>>
    BY DEF StartupInit, FileInit, Init
  <2>2. \A path : ActionsFor(path) = <<>>
    BY <2>1, NoPartsYet
  <2>. QED
    BY <2>1, <2>2 DEF Chained, ChainsInOrder
<1>2. StartupInit => Resolved
  <2>1. IsSeq(<<>>) /\ Len(<<>>) = 0
    BY DEF IsSeq
  <2>. QED
    BY <2>1 DEF StartupInit, Resolved
<1>3. StartupSpec => []TypeOK
  BY StartupReads, TypeCorrect, PTL
<1>4. Chained => ChainsInOrder
  BY DEF Chained
<1>. QED
  BY <1>1, <1>2, <1>3, <1>4, ResolvedStep, ChainedStep, PTL DEF StartupSpec

=============================================================================
