------------------------------- MODULE Config -------------------------------
(***************************************************************************)
(* Parsing the configuration file: nextLine, parseWord, parseActions and   *)
(* loadConfigEntries of src/src/config.c, on any text at all.              *)
(*                                                                         *)
(* The text passes through text: what was written of it and is not yet     *)
(* read.  So a text needs no bound, and two texts are told apart only as   *)
(* long as the parser can.  A symbol stands for a character, except that   *)
(* Pattern and Command are the seven characters that parseActions looks    *)
(* for, a blank is any blank inside a line, and Cut stands between two     *)
(* buffers filled by fgets: after each newline, and anywhere in a line     *)
(* that is too long for one buffer.                                        *)
(***************************************************************************)
EXTENDS Naturals, Sequences

CONSTANTS
  Plain,     \* characters that mean nothing to the parser
  BufSize    \* size of the buffer for a word, without its final NUL

Cut     == "cut"
Newline == "newline"
Pattern == "pattern"
Command == "command"
Escape  == "escape"             \* a backslash
Quotes  == {"quote", "dblquote"}
White   == {" ", Newline}
Special == {Escape, "=", "{", "}"} \cup Quotes \cup White
Symbols == Plain \cup Special \cup {"[", "]", "#", Pattern, Command}

ASSUME ConfigAssumption ==
  /\ BufSize \in Nat \ {0}
  /\ Plain \cap ({Cut, "[", "]", "#", Pattern, Command} \cup Special) = {}
  /\ "none" \notin Plain

Steps == {"START", "NAME", "NAME_EQUALS", "BLOCK", "BLOCK_NAME", "BLOCK_VALUE"}
None  == <<"none">>   \* a NULL pointer

VARIABLES
  text,              \* symbols written and not yet read
  complete,          \* the file ends after text
  at,                \* what the parser is doing
  step,              \* st.step of parseActions
  action,            \* st.name, st.pattern and st.command
  blockval,          \* which of the two st.blockval points to
  word,              \* st.buf of parseWord
  qst,               \* st.qst, or the quote character that is open
  esc,               \* st.esc
  actionInProgress,  \* if TRUE, action still parsing
  needFullLine,      \* the next line is handed on as it is
  title,             \* the text between '[' and ptr2
  config             \* the sections, each with its actions

source == <<text, complete>>
words  == <<word, qst, esc>>
blocks == <<step, action, blockval, actionInProgress>>
parser == <<at, blocks, words, needFullLine, title, config>>
vars   == <<source, parser>>

NoAction == [name |-> None, pattern |-> None, command |-> None]
Ended    == {"accepted", "error", "full"}

Init ==
  /\ text = <<>> /\ complete = FALSE
  /\ at = "closed"
  /\ step = "START" /\ action = NoAction /\ blockval = "pattern"
  /\ word = <<>> /\ qst = "normal" /\ esc = FALSE
  /\ actionInProgress = FALSE /\ needFullLine = FALSE
  /\ title = <<>> /\ config = <<>>

-----------------------------------------------------------------------------
(* The text.  parseWord looks at the symbol after the next.                *)

Ready == at \notin Ended /\ (Len(text) >= 2 \/ complete)

\* *ptr = '\0'
AtEnd == text # <<>> => Head(text) = Cut
Char == Head(text)

Consume == text' = Tail(text) /\ UNCHANGED complete

\* The rest of the buffer is read: back to nextLine.
NewLine ==
  /\ AtEnd
  /\ text' = IF text = <<>> THEN <<>> ELSE Tail(text)
  /\ UNCHANGED complete
  /\ at' = "line"

\* A parser error: return 0 or -1, up to Config_init, which frees the list
\* (Config_done); or exit.
Fails(how) ==
  /\ at' = how
  /\ config' = <<>>
  /\ UNCHANGED <<source, blocks, words, needFullLine, title>>

-----------------------------------------------------------------------------
(* loadConfigEntries and nextLine.                                         *)

\* Config_init: fopen may fail.
Open ==
  /\ at = "closed"
  /\ \/ /\ at' = "line"
        /\ UNCHANGED <<source, blocks, words, needFullLine, title, config>>
     \/ Fails("error")

\* "end of file while action is incompete -> error"
EndOfFile ==
  /\ Ready /\ at = "line" /\ text = <<>>
  /\ IF actionInProgress
     THEN Fails("error")
     ELSE /\ at' = "accepted"
          /\ UNCHANGED <<source, blocks, words, needFullLine, title, config>>

\* "if fullLine requested, just give the next full line"
FullLine ==
  /\ Ready /\ at = "line" /\ text # <<>> /\ needFullLine
  /\ at' = "actions"
  /\ UNCHANGED <<source, blocks, words, needFullLine, title, config>>

\* "otherwise skip whitespace"; a buffer may end with it
Indentation ==
  /\ Ready /\ at = "line" /\ text # <<>> /\ ~needFullLine
  /\ Char \in {" ", Cut}
  /\ Consume
  /\ UNCHANGED parser

\* "if line is empty or only contains a comment, try next"; text before the
\* first section is passed over as well.
IgnoredLine ==
  /\ Ready /\ at = "line" /\ text # <<>> /\ ~needFullLine
  /\ \/ Char \in {Newline, "#"}
     \/ Char \notin {" ", "[", Cut} /\ config = <<>>
  /\ at' = "rest"
  /\ UNCHANGED <<source, blocks, words, needFullLine, title, config>>

RestOfLine ==
  /\ Ready /\ at = "rest"
  /\ IF AtEnd THEN NewLine ELSE Consume /\ UNCHANGED at
  /\ UNCHANGED <<blocks, words, needFullLine, title, config>>

SectionStart ==
  /\ Ready /\ at = "line" /\ text # <<>> /\ ~needFullLine
  /\ Char = "["
  /\ IF actionInProgress
     THEN Fails("error")
     ELSE /\ Consume
          /\ at' = "section"
          /\ title' = <<>>
          /\ UNCHANGED <<blocks, words, needFullLine, config>>

\* "search for matching ']'"
SectionTitle ==
  /\ Ready /\ at = "section"
  /\ IF AtEnd
     THEN Fails("error")
     ELSE /\ Consume
          /\ IF Char = "]"
             THEN /\ at' = "rest"
                  /\ title' = <<>>
                  /\ config' = Append(config, [name |-> title, actions |-> <<>>])
             ELSE /\ title' = Append(title, Char)
                  /\ UNCHANGED <<at, config>>
          /\ UNCHANGED <<blocks, words, needFullLine>>

ActionsLine ==
  /\ Ready /\ at = "line" /\ text # <<>> /\ ~needFullLine
  /\ Char \notin {" ", Newline, "#", "[", Cut} /\ config # <<>>
  /\ at' = "actions"
  /\ UNCHANGED <<source, blocks, words, needFullLine, title, config>>

-----------------------------------------------------------------------------
(* parseActions.  It is in one of three places: before a switch            *)
(* ("actions"), in the middle of a word, or after skipping some blanks.    *)

\* "parsing step complete"
LineParsed ==
  /\ Ready /\ at \in {"actions", "blank"} /\ AtEnd
  /\ NewLine
  /\ needFullLine' = FALSE
  /\ UNCHANGED <<blocks, words, title, config>>

SkipWhitespace ==
  /\ Ready /\ at = "blank" /\ ~AtEnd
  /\ IF Char \in White THEN Consume /\ UNCHANGED at
                        ELSE at' = "actions" /\ UNCHANGED source
  /\ UNCHANGED <<blocks, words, needFullLine, title, config>>

\* The three steps that expect one certain character.
Expect(from, char, to) ==
  /\ step = from
  /\ IF Char = char
     THEN /\ Consume
          /\ at' = "blank"
          /\ step' = to
          /\ UNCHANGED <<action, blockval, actionInProgress, words,
                         needFullLine, title, config>>
     ELSE Fails("error")

Punctuation ==
  /\ Ready /\ at = "actions" /\ ~AtEnd
  /\ \/ Expect("NAME", "=", "NAME_EQUALS")
     \/ Expect("NAME_EQUALS", "{", "BLOCK")
     \/ Expect("BLOCK_NAME", "=", "BLOCK_VALUE")

\* Faulty variant for TLC: one of the two is enough.
HalfComplete == action.pattern # None \/ action.command # None

\* "block is only complete with pattern and command"
BlockComplete == action.pattern # None /\ action.command # None

\* Faulty variant for TLC: the end of the block is not the end of the action.
BlockEndKeepsFlag ==
  /\ Ready /\ at = "actions" /\ ~AtEnd
  /\ step = "BLOCK" /\ Char = "}"
  /\ IF BlockComplete
     THEN /\ Consume
          /\ at' = "blank"
          /\ step' = "START"
          /\ action' = NoAction
          /\ config' = [config EXCEPT ![Len(config)].actions = Append(@, action)]
          /\ UNCHANGED <<actionInProgress, blockval, words, needFullLine, title>>
     ELSE Fails("error")

\* Nothing here asks whether a word is still being read.
BlockEnd ==
  /\ Ready /\ at = "actions" /\ ~AtEnd
  /\ step = "BLOCK" /\ Char = "}"
  /\ IF BlockComplete
     THEN /\ Consume
          /\ at' = "blank"
          /\ step' = "START"
          /\ action' = NoAction
          /\ actionInProgress' = FALSE
          /\ config' = [config EXCEPT ![Len(config)].actions = Append(@, action)]
          /\ UNCHANGED <<blockval, words, needFullLine, title>>
     ELSE Fails("error")

\* The steps that call parseWord.
WordExpected ==
  /\ Ready /\ at = "actions" /\ ~AtEnd
  /\ step \in {"START", "BLOCK", "BLOCK_VALUE"}
  /\ ~(step = "BLOCK" /\ Char = "}")
  /\ at' = "word"
  /\ UNCHANGED <<source, blocks, words, needFullLine, title, config>>

-----------------------------------------------------------------------------
(* parseWord.  Its state outlives the call.                                *)

InWord == Ready /\ at = "word" /\ ~AtEnd /\ Len(word) < BufSize

InsideWord == UNCHANGED <<at, blocks, needFullLine, title, config>>

Copies == Consume /\ word' = Append(word, Char)

\* "in escape mode, copy any next character and end escape mode"
Escaped ==
  /\ InWord /\ esc
  /\ Copies
  /\ esc' = FALSE
  /\ UNCHANGED qst /\ InsideWord

\* Faulty variant for TLC: any character can be escaped.
EscapeInQuote == Char = Escape

\* "in quote mode, only the quote character can be escaped"
EscapedQuote ==
  /\ Char = Escape
  /\ Len(text) >= 2 /\ text[2] = qst

Quoted ==
  /\ InWord /\ ~esc /\ qst \in Quotes
  /\ IF EscapedQuote
     THEN Consume /\ esc' = TRUE /\ UNCHANGED <<word, qst>>
     ELSE IF Char = qst
     THEN Consume /\ qst' = "normal" /\ UNCHANGED <<word, esc>>
     ELSE Copies /\ UNCHANGED <<qst, esc>>
  /\ InsideWord

Unquoted ==
  /\ InWord /\ ~esc /\ qst = "normal"
  /\ \/ /\ Char = Escape
        /\ Consume
        /\ esc' = TRUE
        /\ UNCHANGED <<word, qst>>
     \/ /\ Char \in Quotes
        /\ Consume
        /\ qst' = Char
        /\ UNCHANGED <<word, esc>>
     \/ /\ Char \notin Special
        /\ Copies
        /\ UNCHANGED <<qst, esc>>
  /\ InsideWord

\* "no complete word read before end of input string -> return nothing and
\* leave state"; parseActions returns 1.
Incomplete ==
  /\ Ready /\ at = "word" /\ AtEnd
  /\ NewLine
  /\ needFullLine' = TRUE
  /\ UNCHANGED <<blocks, words, title, config>>

\* "end of parsing buffer reached -> error"; exit
BufferFull ==
  /\ Ready /\ at = "word" /\ ~AtEnd /\ Len(word) >= BufSize
  /\ Fails("full")

-----------------------------------------------------------------------------
(* What parseActions does with a word that parseWord returns: the next     *)
(* character is one that ends it.  Blanks after it are skipped.            *)

WordEnds ==
  /\ InWord /\ ~esc /\ qst = "normal"
  /\ Char \in {"=", "{", "}"} \cup White

Returned ==
  /\ at' = "blank"
  /\ word' = <<>> /\ qst' = "normal" /\ esc' = FALSE
  /\ UNCHANGED <<source, needFullLine, title, config>>

ActionName ==
  /\ WordEnds /\ step = "START"
  /\ IF word = <<>>
     THEN Fails("error")
     ELSE /\ Returned
          /\ action' = [action EXCEPT !.name = word]
          /\ step' = "NAME"
          /\ actionInProgress' = TRUE
          /\ UNCHANGED blockval

\* strncmp(..., 7): what comes after the seven characters does not matter.
Names(property) == word # <<>> /\ Head(word) = property

\* Faulty variant for TLC: what is unknown is passed over.
PropertyNameLenient ==
  /\ WordEnds /\ step = "BLOCK"
  /\ Returned
  /\ IF \E p \in {Pattern, Command} : Names(p) /\ action[p] = None
     THEN /\ step' = "BLOCK_NAME"
          /\ blockval' = Head(word)
          /\ UNCHANGED <<action, actionInProgress>>
     ELSE UNCHANGED blocks

PropertyName ==
  /\ WordEnds /\ step = "BLOCK"
  /\ IF \E p \in {Pattern, Command} : Names(p) /\ action[p] = None
     THEN /\ Returned
          /\ step' = "BLOCK_NAME"
          /\ blockval' = Head(word)
          /\ UNCHANGED <<action, actionInProgress>>
     ELSE Fails("error")   \* empty, unknown, or the second of its kind

\* The code tests the length of the action's name here, which is not empty.
PropertyValue ==
  /\ WordEnds /\ step = "BLOCK_VALUE"
  /\ IF action.name = <<>>
     THEN Fails("error")
     ELSE /\ Returned
          /\ action' = [action EXCEPT ![blockval] = word]
          /\ step' = "BLOCK"
          /\ UNCHANGED <<blockval, actionInProgress>>

-----------------------------------------------------------------------------
Parse ==
  \/ Open \/ EndOfFile \/ FullLine \/ Indentation
  \/ IgnoredLine \/ RestOfLine
  \/ SectionStart \/ SectionTitle \/ ActionsLine
  \/ LineParsed \/ SkipWhitespace \/ Punctuation \/ BlockEnd \/ WordExpected
  \/ Escaped \/ Quoted \/ Unquoted \/ Incomplete \/ BufferFull
  \/ ActionName \/ PropertyName \/ PropertyValue

\* Any text.
Write(s) ==
  /\ ~complete
  /\ text' = text \o s
  /\ UNCHANGED <<complete, parser>>

Finish ==
  /\ ~complete
  /\ complete' = TRUE
  /\ UNCHANGED <<text, parser>>

Spec ==
  Init /\ [][Parse \/ Finish \/ \E s \in Seq(Symbols \cup {Cut}) : Write(s)]_vars

-----------------------------------------------------------------------------
Places      == {"closed", "line", "rest", "section", "actions", "blank", "word"} \cup Ended
Values      == Seq(Symbols) \cup {None}
ActionType  == [name : Seq(Symbols), pattern : Seq(Symbols), command : Seq(Symbols)]
SectionType == [name : Seq(Symbols), actions : Seq(ActionType)]

TypeOK ==
  /\ text \in Seq(Symbols \cup {Cut}) /\ complete \in BOOLEAN
  /\ at \in Places
  /\ step \in Steps /\ blockval \in {Pattern, Command}
  /\ action \in [name : Values, pattern : Values, command : Values]
  /\ word \in Seq(Symbols) /\ Len(word) <= BufSize
  /\ qst \in {"normal"} \cup Quotes /\ esc \in BOOLEAN
  /\ actionInProgress \in BOOLEAN /\ needFullLine \in BOOLEAN
  /\ title \in Seq(Symbols)
  /\ config \in Seq(SectionType)

\* "return 1 if line ends inside of a word, 0 otherwise": a line is only
\* looked at as the first of something when no word is being read.
FullLineInWord ==
  at = "line" /\ ~needFullLine => word = <<>> /\ qst = "normal" /\ ~esc

\* Whatever the text, the flag that survives the parser is right: an action
\* is in progress from its name to the end of its block; then, and only then,
\* it has a name, and no section begins.
FlagsAgree ==
  /\ actionInProgress <=> step # "START"
  /\ actionInProgress <=> action.name # None
  /\ at = "section" => ~actionInProgress

\* The parser does not turn in circles: when the file has ended, so does the
\* parsing of it, for good as nothing follows on either.
Finishes == []<>(complete => at \in Ended)

=============================================================================
