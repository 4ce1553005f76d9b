----------------------------- MODULE MCStartup -----------------------------
(* Instances of Startup for TLC: "a" is no pattern. *)
EXTENDS Startup

Refused == {<<"a">>}

\* One action in every layout, of all characters with a meaning.
OneAction ==
  [chars |-> {Newline, "dblquote", Escape, "#"}, maxChars |-> 3, maxActions |-> 1,
   maxSections |-> 1, strays |-> {}, maxSlips |-> 0]

\* Two sections for one log file, two actions.
Sections ==
  [chars |-> {"a"}, maxChars |-> 3, maxActions |-> 2,
   maxSections |-> 2, strays |-> {}, maxSlips |-> 0]

\* The same with a stray equals sign or brace.
Slipped ==
  [chars |-> {"a"}, maxChars |-> 2, maxActions |-> 2,
   maxSections |-> 2, strays |-> {"=", "}"}, maxSlips |-> 1]

\* A stray quote in an otherwise well-formed file.
StrayQuote ==
  [chars |-> {"a"}, maxChars |-> 1, maxActions |-> 1,
   maxSections |-> 1, strays |-> {"dblquote"}, maxSlips |-> 1]

AnyFile  == {OneAction, Sections, Slipped}
Unclosed == {StrayQuote}
=============================================================================
