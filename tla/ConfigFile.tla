----------------------------- MODULE ConfigFile -----------------------------
(***************************************************************************)
(* Config reading a file that somebody writes: a well-formed one in any    *)
(* layout (quotes, escapes, line breaks, comments, lines longer than the   *)
(* buffer), with at most kind.maxSlips stray symbols, cut off anywhere.    *)
(* The module says what a layout means, so that what is read can be        *)
(* compared with what was meant.                                           *)
(***************************************************************************)
EXTENDS Config

CONSTANT Files   \* what a file may be made of, with bounds: chars, the
                 \* characters of names and values, maxChars of them at most;
                 \* how many actions and sections; strays, the symbols that
                 \* may slip in, and how many of those

ASSUME ConfigFileAssumption ==
  Files \subseteq [chars : SUBSET (Plain \cup Special \cup {"[", "]", "#"}),
                  maxChars : Nat, maxActions : Nat, maxSections : Nat,
                  strays : SUBSET (Symbols \cup {Cut}), maxSlips : Nat]

VARIABLES
  kind,    \* the one of Files that is written
  writer,  \* step: where in the grammar it is (as in Config); mode: "out" of
           \* words, in a "bare" word, inside a quote, in a "comment" or a
           \* section "title"; fresh: nothing but blanks in this line yet;
           \* word, action, prop: what it writes; chars, begun: how many
           \* characters and actions so far
  meant,   \* the sections and complete actions written
  slips

fileVars == <<kind, writer, meant, slips>>
allVars  == <<vars, fileVars>>

FileInit ==
  /\ Init
  /\ kind \in Files
  /\ writer = [step |-> "START", mode |-> "out", fresh |-> TRUE, word |-> <<>>,
               action |-> NoAction, prop |-> "pattern",
               chars |-> 0, begun |-> 0]
  /\ meant = <<>>
  /\ slips = 0

\* fgets never gives an empty buffer.
Writes(s) ==
  /\ at \notin Ended \cup {"closed"} /\ Len(text) < 2
  /\ Head(s) = Cut => text # <<>> /\ text[Len(text)] # Cut
  /\ Write(s)
Line(c)   == IF c = Newline THEN <<Newline, Cut>> ELSE <<c>>

\* w after the end of the word in it, if there is one.
Closed(w) ==
  IF w.mode # "bare" THEN [w EXCEPT !.fresh = FALSE] ELSE
  LET out == [w EXCEPT !.mode = "out", !.fresh = FALSE, !.word = <<>>] IN
  CASE w.step = "START" ->
         [out EXCEPT !.step = "NAME", !.action.name = w.word, !.begun = @ + 1]
    [] w.step = "BLOCK" ->
         [out EXCEPT !.step = "BLOCK_NAME", !.prop = Head(w.word)]
    [] w.step = "BLOCK_VALUE" ->
         [out EXCEPT !.step = "BLOCK", !.action[w.prop] = w.word]

\* A bare word may end here: the name of an action is not empty.
MayClose ==
  /\ writer.mode \in {"out", "bare"}
  /\ ~(writer.mode = "bare" /\ writer.step = "START" /\ writer.word = <<>>)

WriteBlank == \E c \in White :
  /\ MayClose
  /\ Writes(Line(c))
  /\ writer' = [Closed(writer) EXCEPT !.fresh = c = Newline \/ writer.fresh]
  /\ UNCHANGED <<kind, meant, slips>>

\* Comments are of interest when "#" is one of the characters.
WriteComment ==
  /\ \/ /\ writer.mode = "out" /\ writer.fresh /\ "#" \in kind.chars
        /\ Writes(<<"#">>)
        /\ writer' = [writer EXCEPT !.mode = "comment"]
     \/ /\ writer.mode = "comment"
        /\ \E c \in kind.chars \ {Newline} : Writes(<<c>>)
        /\ UNCHANGED writer
     \/ /\ writer.mode = "comment"
        /\ Writes(Line(Newline))
        /\ writer' = [writer EXCEPT !.mode = "out", !.fresh = TRUE]
  /\ UNCHANGED <<kind, meant, slips>>

\* A section; what follows its title in the line is ignored.
WriteSection ==
  /\ \/ /\ writer.mode = "out" /\ writer.fresh /\ writer.step = "START"
        /\ Len(meant) < kind.maxSections
        /\ Writes(<<"[">>)
        /\ writer' = [writer EXCEPT !.mode = "title"]
        /\ UNCHANGED meant
     \/ /\ writer.mode = "title"
        /\ \E c \in kind.chars \ {Newline, "]"} :
             /\ writer.chars < kind.maxChars
             /\ Writes(<<c>>)
             /\ writer' = [writer EXCEPT !.word = Append(@, c), !.chars = @ + 1]
        /\ UNCHANGED meant
     \/ /\ writer.mode = "title"
        /\ Writes(<<"]">>)
        /\ meant' = Append(meant, [name |-> writer.word, actions |-> <<>>])
        /\ writer' = [writer EXCEPT !.mode = "comment", !.word = <<>>]
  /\ UNCHANGED <<kind, slips>>

\* Where a name or a value may begin or go on.
InName ==
  /\ meant # <<>>
  /\ writer.step \in {"START", "BLOCK_VALUE"}
  /\ writer.step = "START" => writer.begun < kind.maxActions

\* One more character of the word, as s.
WriteAs(c, s) ==
  /\ InName
  /\ writer.chars < kind.maxChars /\ Len(writer.word) + 1 < BufSize
  /\ Writes(s)
  /\ writer' = [writer EXCEPT !.mode = IF @ = "out" THEN "bare" ELSE @,
                              !.fresh = FALSE,
                              !.word = Append(@, c), !.chars = @ + 1]
  /\ UNCHANGED <<kind, meant, slips>>

\* Outside of quotes, a backslash goes before what has a meaning there, and
\* the line may be cut after it.
WriteBareChar == \E c \in kind.chars :
  /\ writer.mode \in {"out", "bare"}
  /\ \/ /\ c \notin Special
        /\ c \in {"#", "["} => ~(writer.mode = "out" /\ writer.fresh)
        /\ WriteAs(c, <<c>>)
     \/ WriteAs(c, <<Escape>> \o Line(c))
     \/ WriteAs(c, <<Escape, Cut>> \o Line(c))

WriteQuotedChar == \E c \in kind.chars :
  /\ writer.mode \in Quotes
  /\ WriteAs(c, IF c = writer.mode THEN <<Escape, c>> ELSE Line(c))

\* After a backslash a quote would be taken for an escaped one.
WriteQuote == \E q \in Quotes :
  /\ \/ /\ writer.mode \in {"out", "bare"} /\ InName
        /\ writer' = [writer EXCEPT !.mode = q, !.fresh = FALSE]
     \/ /\ writer.mode = q
        /\ writer.word # <<>> => writer.word[Len(writer.word)] # Escape
        /\ writer' = [writer EXCEPT !.mode = "bare"]
  /\ Writes(<<q>>)
  /\ UNCHANGED <<kind, meant, slips>>

WriteProperty == \E p \in {Pattern, Command} :
  /\ writer.mode = "out" /\ writer.step = "BLOCK" /\ writer.action[p] = None
  /\ Writes(<<p>>)
  /\ writer' = [writer EXCEPT !.mode = "bare", !.fresh = FALSE, !.word = <<p>>]
  /\ UNCHANGED <<kind, meant, slips>>

\* A line gets too long within a word, or within blanks before an equals sign
\* or a brace.
WriteLongLine ==
  /\ writer.mode \in {"bare"} \cup Quotes
  /\ Writes(<<Cut>>)
  /\ UNCHANGED fileVars

WritePunctuation ==
  /\ MayClose
  /\ LET w == Closed(writer) IN
     \/ /\ w.step \in {"NAME", "BLOCK_NAME"}
        /\ Writes(<<"=">>)
        /\ writer' = [w EXCEPT !.step = IF @ = "NAME" THEN "NAME_EQUALS"
                                                      ELSE "BLOCK_VALUE"]
        /\ UNCHANGED meant
     \/ /\ w.step = "NAME_EQUALS"
        /\ Writes(<<"{">>)
        /\ writer' = [w EXCEPT !.step = "BLOCK"]
        /\ UNCHANGED meant
     \/ /\ w.step = "BLOCK" /\ None \notin {w.action.pattern, w.action.command}
        /\ Writes(<<"}">>)
        /\ meant' = [meant EXCEPT ![Len(meant)].actions = Append(@, w.action)]
        /\ writer' = [w EXCEPT !.step = "START", !.action = NoAction]
  /\ UNCHANGED <<kind, slips>>

\* A stray symbol, or a line that is cut in a bad place.
Slip == \E c \in kind.strays :
  /\ slips < kind.maxSlips
  /\ Writes(Line(c))
  /\ slips' = slips + 1
  /\ UNCHANGED <<kind, writer, meant>>

\* The file may end anywhere.
EndFile == at \notin Ended \cup {"closed"} /\ Finish /\ UNCHANGED fileVars

WriteFile ==
  \/ WriteBlank \/ WriteComment \/ WriteSection \/ WriteBareChar
  \/ WriteQuotedChar \/ WriteQuote \/ WriteProperty \/ WriteLongLine
  \/ WritePunctuation \/ Slip \/ EndFile

Terminated == at \in Ended /\ UNCHANGED allVars

FileNext == (Parse /\ UNCHANGED fileVars) \/ WriteFile \/ Terminated

FileSpec ==
  /\ FileInit /\ [][FileNext]_allVars
  /\ WF_allVars(Parse /\ UNCHANGED fileVars)

-----------------------------------------------------------------------------
\* A file without mistakes is read as it was meant, in whatever layout; and
\* when it was cut off, what is accepted is all of it but the name of a last
\* action: the end of a file within a block never goes unnoticed.
ReadsWhatWasMeant ==
  slips = 0 =>
    /\ at = "accepted" => config = meant /\ writer.step = "START"
    /\ at = "error" /\ complete => writer.step # "START" \/ writer.mode = "title"
    /\ at = "error" /\ ~complete => text = <<>> /\ meant = <<>>
    /\ at # "full"

=============================================================================
