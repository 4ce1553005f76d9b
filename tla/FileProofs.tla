----------------------------- MODULE FileProofs -----------------------------
(***************************************************************************)
(* Proofs about ConfigFile: a file without mistakes is read as it was      *)
(* meant, whatever it says, in whatever layout, however long it is and     *)
(* wherever it ends.                                                       *)
(*                                                                         *)
(* The writer runs ahead of the parser, by no more than is needed to look  *)
(* ahead.  The invariant says that the text between the two leads from     *)
(* what the parser has understood to what the writer has meant: every      *)
(* symbol of it is one that a writer may write where the one before it has *)
(* led to.                                                                 *)
(***************************************************************************)
EXTENDS ConfigProofs

-----------------------------------------------------------------------------
(* A file without mistakes, symbol by symbol.  Between two symbols of it   *)
(* is a point: how far the writer of the file was there.  The text that is *)
(* written and not yet read leads from the point where the parser is to    *)
(* the one where the writer is.                                            *)

WriterType ==
  [step : Steps, mode : {"out", "bare", "comment", "title"} \cup Quotes,
   fresh : BOOLEAN, word : Seq(Symbols),
   action : [name : Values, pattern : Values, command : Values],
   prop : {Pattern, Command}, chars : Nat, begun : Nat]

\* esc: after a backslash; nl: before the Cut that belongs to a newline; cut:
\* after a Cut.
PointType ==
  [w : WriterType, meant : Seq(SectionType),
   esc : BOOLEAN, nl : BOOLEAN, cut : BOOLEAN]

InWords == {"bare"} \cup Quotes

\* What is so at every point.
Sound(p) ==
  /\ p.w.mode # "title" => Len(p.w.word) < BufSize
  /\ p.w.step # "START" => BufSize > 1 /\ p.w.action.name # None
  /\ p.w.step # "START" \/ p.w.mode \in InWords => p.meant # <<>>
  /\ p.w.mode \in {"out", "comment"} => p.w.word = <<>>
  /\ p.w.mode = "title" => p.w.step = "START"
  /\ p.w.mode \in InWords =>
       ~p.w.fresh /\ p.w.step \in {"START", "BLOCK", "BLOCK_VALUE"}
  /\ p.w.mode \in InWords /\ p.w.step = "BLOCK" =>
       /\ p.w.mode = "bare" /\ ~p.esc
       /\ \E prop \in {Pattern, Command} :
            p.w.word = <<prop>> /\ p.w.action[prop] = None
  /\ p.esc => p.w.mode \in InWords /\ ~p.nl
  /\ p.nl => p.w.mode \in InWords \/ (p.w.mode = "out" /\ p.w.fresh)

Point == {p \in PointType : Sound(p)}

Goes(w, m, e, n) ==
  [w |-> w, meant |-> m, esc |-> e, nl |-> n, cut |-> FALSE]

\* MayClose, at any point.
Closes(w) ==
  /\ w.mode \in {"out", "bare"}
  /\ ~(w.mode = "bare" /\ w.step = "START" /\ w.word = <<>>)

Begins(w) ==
  [w EXCEPT !.mode = IF @ = "out" THEN "bare" ELSE @, !.fresh = FALSE]

Spells(w, c) ==
  [w EXCEPT !.mode = IF @ = "out" THEN "bare" ELSE @, !.fresh = FALSE,
            !.word = Append(@, c), !.chars = @ + 1]

\* InName, at any point; and with room for one more character.
Naming(p) == p.meant # <<>> /\ p.w.step \in {"START", "BLOCK_VALUE"}
Room(p)   == Naming(p) /\ Len(p.w.word) + 1 < BufSize

\* The symbols between words.
Cuts(p, c, q) ==
  /\ c = Cut /\ ~p.cut
  /\ p.nl \/ p.w.mode = "bare" \/ (p.w.mode \in Quotes /\ ~p.esc)
  /\ q = [w |-> p.w, meant |-> p.meant, esc |-> p.esc, nl |-> FALSE,
          cut |-> TRUE]

Blanks(p, c, q) ==
  /\ c \in White /\ Closes(p.w)
  /\ q = Goes([Closed(p.w) EXCEPT !.fresh = c = Newline \/ p.w.fresh],
              p.meant, FALSE, c = Newline)

Comments(p, c, q) ==
  \/ /\ p.w.mode = "out" /\ p.w.fresh /\ c = "#"
     /\ q = Goes([p.w EXCEPT !.mode = "comment"], p.meant, FALSE, FALSE)
  \/ /\ p.w.mode = "comment" /\ c # Newline
     /\ q = Goes(p.w, p.meant, FALSE, FALSE)
  \/ /\ p.w.mode = "comment" /\ c = Newline
     /\ q = Goes([p.w EXCEPT !.mode = "out", !.fresh = TRUE],
                 p.meant, FALSE, TRUE)

Titles(p, c, q) ==
  \/ /\ p.w.mode = "out" /\ p.w.fresh /\ p.w.step = "START" /\ c = "["
     /\ q = Goes([p.w EXCEPT !.mode = "title"], p.meant, FALSE, FALSE)
  \/ /\ p.w.mode = "title" /\ c \notin {Newline, "]"}
     /\ q = Goes([p.w EXCEPT !.word = Append(@, c), !.chars = @ + 1],
                 p.meant, FALSE, FALSE)
  \/ /\ p.w.mode = "title" /\ c = "]"
     /\ q = Goes([p.w EXCEPT !.mode = "comment", !.word = <<>>],
                 Append(p.meant, [name |-> p.w.word, actions |-> <<>>]),
                 FALSE, FALSE)

Punctuates(p, c, q) ==
  /\ Closes(p.w)
  /\ LET k == Closed(p.w) IN
     \/ /\ c = "=" /\ k.step \in {"NAME", "BLOCK_NAME"}
        /\ q = Goes([k EXCEPT !.step = IF @ = "NAME" THEN "NAME_EQUALS"
                                                     ELSE "BLOCK_VALUE"],
                    p.meant, FALSE, FALSE)
     \/ /\ c = "{" /\ k.step = "NAME_EQUALS"
        /\ q = Goes([k EXCEPT !.step = "BLOCK"], p.meant, FALSE, FALSE)
     \/ /\ c = "}" /\ k.step = "BLOCK"
        /\ None \notin {k.action.pattern, k.action.command}
        /\ q = Goes([k EXCEPT !.step = "START", !.action = NoAction],
                    [p.meant EXCEPT ![Len(p.meant)].actions =
                       Append(@, k.action)],
                    FALSE, FALSE)

\* The symbols of words.
Properties(p, c, q) ==
  /\ p.w.mode = "out" /\ p.w.step = "BLOCK"
  /\ c \in {Pattern, Command} /\ p.w.action[c] = None
  /\ q = Goes([p.w EXCEPT !.mode = "bare", !.fresh = FALSE, !.word = <<c>>],
              p.meant, FALSE, FALSE)

Bares(p, c, q) ==
  /\ p.w.mode \in {"out", "bare"}
  /\ \/ /\ Room(p) /\ c \notin Special
        /\ c \in {"#", "["} => ~(p.w.mode = "out" /\ p.w.fresh)
        /\ q = Goes(Spells(p.w, c), p.meant, FALSE, FALSE)
     \/ /\ Naming(p) /\ c = Escape
        /\ q = Goes(Begins(p.w), p.meant, TRUE, FALSE)

Quoting(p, c, q) ==
  \/ /\ p.w.mode \in {"out", "bare"} /\ Naming(p) /\ c \in Quotes
     /\ q = Goes([p.w EXCEPT !.mode = c, !.fresh = FALSE],
                 p.meant, FALSE, FALSE)
  \/ /\ p.w.mode \in Quotes /\ Room(p) /\ c # p.w.mode
     /\ q = Goes(Spells(p.w, c), p.meant, FALSE, c = Newline)
  \/ /\ p.w.mode \in Quotes /\ c = Escape
     /\ q = Goes(Begins(p.w), p.meant, TRUE, FALSE)
  \/ /\ p.w.mode \in Quotes /\ c = p.w.mode
     /\ p.w.word # <<>> => p.w.word[Len(p.w.word)] # Escape
     /\ q = Goes([p.w EXCEPT !.mode = "bare"], p.meant, FALSE, FALSE)

\* In quotes only the quote itself is escaped.
Escapes(p, c, q) ==
  /\ Room(p)
  /\ p.w.mode \in Quotes => c = p.w.mode
  /\ q = Goes(Spells(p.w, c), p.meant, FALSE, c = Newline)

Follows(p, c, q) ==
  \/ Cuts(p, c, q)
  \/ /\ c \in Symbols /\ ~p.nl
     /\ IF p.esc THEN Escapes(p, c, q)
        ELSE \/ Blanks(p, c, q) \/ Comments(p, c, q) \/ Titles(p, c, q)
             \/ Punctuates(p, c, q)
             \/ Properties(p, c, q) \/ Bares(p, c, q) \/ Quoting(p, c, q)

Leads(p, t, q) ==
  \E path \in Seq(Point) :
    /\ Len(path) = Len(t) + 1
    /\ path[1] = p /\ path[Len(t) + 1] = q
    /\ \A i \in 1 .. Len(t) : Follows(path[i], t[i], path[i + 1])

\* An empty text.
LEMMA LeadsNowhere ==
  /\ \A p \in Point : Leads(p, <<>>, p)
  /\ \A p, q : Leads(p, <<>>, q) => p = q /\ p \in Point
<1>1. ASSUME NEW p \in Point PROVE Leads(p, <<>>, p)
  <2>. DEFINE path == <<p>>
  <2>1. /\ path \in Seq(Point) /\ Len(path) = 1 /\ path[1] = p
        /\ Len(<<>>) = 0
    OBVIOUS
  <2>. HIDE DEF path
  <2>. QED
    BY <2>1 DEF Leads
<1>2. ASSUME NEW p, NEW q, Leads(p, <<>>, q) PROVE p = q /\ p \in Point
  <2>1. PICK path \in Seq(Point) : Len(path) = 1 /\ path[1] = p /\ path[1] = q
    BY <1>2 DEF Leads
  <2>. QED
    BY <2>1
<1>. QED
  BY <1>1, <1>2

\* One symbol.
LEMMA LeadsOne ==
  ASSUME NEW p \in Point, NEW q \in Point, NEW c, Follows(p, c, q)
  PROVE  Leads(p, <<c>>, q)
<1>. DEFINE path == <<p, q>>
            t == <<c>>
<1>1. /\ path \in Seq(Point) /\ Len(path) = 2 /\ path[1] = p /\ path[2] = q
      /\ Len(t) = 1 /\ t[1] = c
  OBVIOUS
<1>. HIDE DEF path, t
<1>2. Leads(p, t, q)
  BY <1>1 DEF Leads
<1>. QED
  BY <1>2 DEF t

\* One text after another.
LEMMA LeadsOn ==
  ASSUME NEW S, NEW s \in Seq(S), NEW t \in Seq(S), NEW p, NEW q, NEW r,
         Leads(p, s, q), Leads(q, t, r)
  PROVE  Leads(p, s \o t, r)
<1>1. PICK f \in Seq(Point) :
         /\ Len(f) = Len(s) + 1 /\ f[1] = p /\ f[Len(s) + 1] = q
         /\ \A i \in 1 .. Len(s) : Follows(f[i], s[i], f[i + 1])
  BY DEF Leads
<1>2. PICK g \in Seq(Point) :
         /\ Len(g) = Len(t) + 1 /\ g[1] = q /\ g[Len(t) + 1] = r
         /\ \A i \in 1 .. Len(t) : Follows(g[i], t[i], g[i + 1])
  BY DEF Leads
<1>. DEFINE n == Len(s)
            m == Len(t)
            path == [i \in 1 .. n + m + 1 |->
                       IF i <= n + 1 THEN f[i] ELSE g[i - n]]
<1>3. n \in Nat /\ m \in Nat
  OBVIOUS
<1>4. path \in Seq(Point) /\ Len(path) = n + m + 1
  <2>1. \A i \in 1 .. n + m + 1 : path[i] \in Point
    BY <1>1, <1>2, <1>3
  <2>. QED
    BY <1>3, <2>1
<1>5. s \o t \in Seq(S) /\ Len(s \o t) = n + m
  OBVIOUS
<1>6. path[1] = p /\ path[n + m + 1] = r
  BY <1>1, <1>2, <1>3
<1>7. ASSUME NEW i \in 1 .. n + m
      PROVE  Follows(path[i], (s \o t)[i], path[i + 1])
  <2>1. CASE i <= n
    <3>1. path[i] = f[i] /\ path[i + 1] = f[i + 1] /\ (s \o t)[i] = s[i]
      BY <1>3, <2>1
    <3>. QED
      BY <1>1, <1>3, <2>1, <3>1
  <2>2. CASE i > n
    <3>1. path[i] = g[i - n] /\ path[i + 1] = g[(i - n) + 1]
      BY <1>1, <1>2, <1>3, <2>2
    <3>2. (s \o t)[i] = t[i - n] /\ i - n \in 1 .. m
      BY <1>3, <2>2
    <3>. QED
      BY <1>2, <3>1, <3>2
  <2>. QED
    BY <1>3, <2>1, <2>2
<1>. HIDE DEF path
<1>. QED
  BY <1>4, <1>5, <1>6, <1>7 DEF Leads

\* Reading one symbol of a text.
LEMMA LeadsFrom ==
  ASSUME NEW S, NEW t \in Seq(S), t # <<>>, NEW p, NEW q, Leads(p, t, q)
  PROVE  \E r \in Point : Follows(p, Head(t), r) /\ Leads(r, Tail(t), q)
<1>1. PICK f \in Seq(Point) :
         /\ Len(f) = Len(t) + 1 /\ f[1] = p /\ f[Len(t) + 1] = q
         /\ \A i \in 1 .. Len(t) : Follows(f[i], t[i], f[i + 1])
  BY DEF Leads
<1>2. Len(t) \in Nat \ {0} /\ Head(t) = t[1]
  OBVIOUS
<1>3. Tail(t) \in Seq(S) /\ Len(Tail(t)) = Len(t) - 1
      /\ \A i \in 1 .. Len(t) - 1 : Tail(t)[i] = t[i + 1]
  BY HeadTailProperties
<1>4. /\ Tail(f) \in Seq(Point) /\ Len(Tail(f)) = Len(t)
      /\ \A i \in 1 .. Len(t) : Tail(f)[i] = f[i + 1]
  BY <1>1, <1>2, HeadTailProperties
<1>5. Leads(f[2], Tail(t), q)
  <2>. DEFINE g == Tail(f)
              u == Tail(t)
  <2>1. /\ g \in Seq(Point) /\ Len(g) = Len(u) + 1
        /\ g[1] = f[2] /\ g[Len(u) + 1] = q
    BY <1>1, <1>2, <1>3, <1>4
  <2>2. ASSUME NEW i \in 1 .. Len(u) PROVE Follows(g[i], u[i], g[i + 1])
    <3>1. i + 1 \in 1 .. Len(t) /\ i \in 1 .. Len(t) - 1 /\ i \in 1 .. Len(t)
      BY <1>2, <1>3
    <3>2. g[i] = f[i + 1] /\ g[i + 1] = f[(i + 1) + 1] /\ u[i] = t[i + 1]
      BY <1>3, <1>4, <3>1
    <3>. QED
      BY <1>1, <3>1, <3>2
  <2>. HIDE DEF g, u
  <2>3. Leads(f[2], u, q)
    BY <2>1, <2>2 DEF Leads
  <2>. QED
    BY <2>3 DEF u
<1>6. Follows(p, Head(t), f[2]) /\ f[2] \in Point
  BY <1>1, <1>2
<1>. QED
  BY <1>5, <1>6

\* Both ends are points.
LEMMA LeadsPoints ==
  ASSUME NEW S, NEW t \in Seq(S), NEW p, NEW q, Leads(p, t, q)
  PROVE  p \in Point /\ q \in Point
<1>1. PICK f \in Seq(Point) :
         Len(f) = Len(t) + 1 /\ f[1] = p /\ f[Len(t) + 1] = q
  BY DEF Leads
<1>2. Len(t) \in Nat
  OBVIOUS
<1>. QED
  BY <1>1, <1>2

-----------------------------------------------------------------------------
(* Whatever follows a point is a point.                                    *)

\* Which symbols are which.
LEMMA SymbolFacts ==
  /\ Cut \notin Symbols /\ Special \subseteq Symbols
  /\ White \subseteq Special /\ Quotes \subseteq Special
  /\ {"=", "{", "}"} \subseteq Special /\ Escape \in Special
  /\ {"[", "]", "#", Pattern, Command} \subseteq Symbols
  /\ Newline \in White /\ Escape \notin White \cup Quotes
  /\ Quotes \cap (White \cup {"=", "{", "}"}) = {}
  /\ None \notin Seq(Symbols) /\ None # <<>> /\ <<>> \in Seq(Symbols)
<1>1. None # <<>> /\ <<>> \in Seq(Symbols)
  BY DEF None
<1>. QED
  BY <1>1, ConfigAssumption, NoneIsNoWord
     DEF ConfigAssumption, Cut, Symbols, Special, White, Quotes, Escape,
         Newline, Pattern, Command

\* What is known of the end of a word.
LEMMA ClosedFacts ==
  ASSUME NEW p \in Point, Closes(p.w)
  PROVE  LET w == p.w
             k == Closed(p.w) IN
         /\ k \in WriterType
         /\ k.mode = "out" /\ k.word = <<>> /\ k.fresh = FALSE
         /\ k.step # "START" =>
              BufSize > 1 /\ k.action.name # None /\ p.meant # <<>>
         /\ w.mode = "out" =>
              k.step = w.step /\ k.action = w.action /\ k.prop = w.prop
         /\ w.mode = "bare" =>
              \/ /\ w.step = "START" /\ w.word # <<>> /\ k.step = "NAME"
                 /\ k.action = [w.action EXCEPT !.name = w.word]
                 /\ k.prop = w.prop
              \/ /\ w.step = "BLOCK" /\ k.step = "BLOCK_NAME"
                 /\ k.action = w.action /\ k.prop = Head(w.word)
                 /\ w.word = <<k.prop>> /\ w.action[k.prop] = None
              \/ /\ w.step = "BLOCK_VALUE" /\ k.step = "BLOCK"
                 /\ k.action = [w.action EXCEPT ![w.prop] = w.word]
                 /\ k.prop = w.prop
<1>. DEFINE w == p.w
            k == Closed(p.w)
<1>1. w \in WriterType /\ Sound(p)
  BY DEF Point, PointType
<1>2. CASE w.mode = "out"
  <2>1. k = [w EXCEPT !.fresh = FALSE]
    BY <1>2 DEF Closed
  <2>. QED
    BY <1>1, <1>2, <2>1 DEF WriterType, Sound
<1>3. CASE w.mode = "bare"
  <2>. DEFINE out == [w EXCEPT !.mode = "out", !.fresh = FALSE, !.word = <<>>]
  <2>1. /\ w.step \in {"START", "BLOCK", "BLOCK_VALUE"} /\ p.meant # <<>>
        /\ Len(w.word) < BufSize /\ w.word \in Seq(Symbols)
        /\ w.action \in [name : Values, pattern : Values, command : Values]
        /\ w.prop \in {Pattern, Command} /\ w.begun \in Nat
    BY <1>1, <1>3 DEF Sound, InWords, WriterType
  <2>5. /\ out \in WriterType /\ out.mode = "out" /\ out.word = <<>>
        /\ out.fresh = FALSE /\ out.prop = w.prop /\ out.action = w.action
        /\ out.begun = w.begun
    <3>. HIDE DEF w
    <3>. QED
      BY <1>1, SymbolFacts DEF WriterType
  <2>2. CASE w.step = "START"
    <3>1. k = [out EXCEPT !.step = "NAME", !.action.name = w.word,
                          !.begun = @ + 1]
      BY <1>3, <2>2 DEF Closed
    <3>2. w.word # <<>> /\ BufSize > 1 /\ w.word # None
      <4>1. w.word # <<>>
        BY <1>3, <2>2 DEF Closes
      <4>2. BufSize > 1
        BY <2>1, <4>1, ConfigAssumption DEF ConfigAssumption
      <4>. QED
        BY <2>1, <4>1, <4>2, SymbolFacts
    <3>3. [w.action EXCEPT !.name = w.word]
            \in [name : Values, pattern : Values, command : Values]
      BY <2>1 DEF Values
    <3>4. /\ k.step = "NAME" /\ k.mode = "out" /\ k.word = <<>>
          /\ k.fresh = FALSE /\ k.prop = w.prop
          /\ k.action = [w.action EXCEPT !.name = w.word]
          /\ k \in WriterType
      <4>. DEFINE a == [w.action EXCEPT !.name = w.word]
                  b == w.begun + 1
      <4>1. k = [out EXCEPT !.step = "NAME", !.action = a, !.begun = b]
        BY <1>1, <2>5, <3>1 DEF WriterType
      <4>2. b \in Nat /\ a \in [name : Values, pattern : Values, command : Values]
        BY <2>1, <3>3
      <4>. HIDE DEF out, k, w, a, b
      <4>3. /\ k.step = "NAME" /\ k.mode = "out" /\ k.word = <<>>
            /\ k.fresh = FALSE /\ k.prop = w.prop /\ k.action = a
            /\ k \in WriterType
        BY <2>5, <4>1, <4>2 DEF WriterType, Steps
      <4>. QED
        BY <4>3 DEF a
    <3>5. k.action.name = w.word
      BY <2>1, <3>4
    <3>. QED
      BY <1>3, <2>1, <2>2, <3>2, <3>4, <3>5
  <2>3. CASE w.step = "BLOCK"
    <3>1. k = [out EXCEPT !.step = "BLOCK_NAME", !.prop = Head(w.word)]
      BY <1>3, <2>3 DEF Closed
    <3>2. PICK prop \in {Pattern, Command} :
            w.word = <<prop>> /\ w.action[prop] = None
      BY <1>1, <1>3, <2>3 DEF Sound, InWords
    <3>3. Head(w.word) = prop
      BY <3>2
    <3>4. /\ k.step = "BLOCK_NAME" /\ k.mode = "out" /\ k.word = <<>>
          /\ k.fresh = FALSE /\ k.prop = Head(w.word) /\ k.action = w.action
          /\ k \in WriterType
      <4>. HIDE DEF out, k, w
      <4>. QED
        BY <2>1, <2>5, <3>1, <3>2, <3>3 DEF WriterType, Steps
    <3>. QED
      BY <1>1, <1>3, <2>1, <2>3, <3>2, <3>3, <3>4 DEF Sound
  <2>4. CASE w.step = "BLOCK_VALUE"
    <3>1. k = [out EXCEPT !.step = "BLOCK", !.action[w.prop] = w.word]
      BY <1>3, <2>4 DEF Closed
    <3>2. /\ [w.action EXCEPT ![w.prop] = w.word]
               \in [name : Values, pattern : Values, command : Values]
          /\ [w.action EXCEPT ![w.prop] = w.word].name = w.action.name
      BY <2>1 DEF Values, Pattern, Command
    <3>3. /\ k.step = "BLOCK" /\ k.mode = "out" /\ k.word = <<>>
          /\ k.fresh = FALSE /\ k.prop = w.prop
          /\ k.action = [w.action EXCEPT ![w.prop] = w.word]
          /\ k \in WriterType
      <4>. HIDE DEF out, k, w
      <4>. QED
        BY <2>1, <2>5, <3>1, <3>2 DEF WriterType, Steps
    <3>. QED
      BY <1>1, <1>3, <2>1, <2>4, <3>2, <3>3 DEF Sound
  <2>. QED
    BY <2>1, <2>2, <2>3, <2>4
<1>. QED
  BY <1>2, <1>3 DEF Closes

\* What is known of a word that begins or goes on.
LEMMA SpelledFacts ==
  ASSUME NEW p \in Point, Naming(p), p.w.mode # "title", p.w.mode # "comment"
  PROVE  /\ Begins(p.w) \in WriterType
         /\ Begins(p.w) = [p.w EXCEPT !.mode = Begins(p.w).mode, !.fresh = FALSE]
         /\ Begins(p.w).mode \in InWords
         /\ p.w.mode \in Quotes => Begins(p.w).mode = p.w.mode
         /\ \A c \in Symbols :
              /\ Spells(p.w, c) \in WriterType
              /\ Spells(p.w, c) = [Begins(p.w) EXCEPT !.word = Append(p.w.word, c),
                                                      !.chars = p.w.chars + 1]
              /\ Len(Append(p.w.word, c)) = Len(p.w.word) + 1
<1>1. /\ p.w \in WriterType /\ p.w.word \in Seq(Symbols) /\ p.w.chars \in Nat
      /\ p.w.mode \in {"out"} \cup InWords
  BY DEF Point, PointType, WriterType, InWords
<1>2. /\ Begins(p.w) \in WriterType
      /\ Begins(p.w) = [p.w EXCEPT !.mode = Begins(p.w).mode, !.fresh = FALSE]
      /\ Begins(p.w).mode = IF p.w.mode = "out" THEN "bare" ELSE p.w.mode
  BY <1>1 DEF Begins, WriterType, InWords
<1>3. ASSUME NEW c \in Symbols
      PROVE  /\ Spells(p.w, c) \in WriterType
             /\ Spells(p.w, c) = [Begins(p.w) EXCEPT !.word = Append(p.w.word, c),
                                                     !.chars = p.w.chars + 1]
             /\ Len(Append(p.w.word, c)) = Len(p.w.word) + 1
  <2>. DEFINE b == Begins(p.w)
  <2>1. /\ Append(p.w.word, c) \in Seq(Symbols) /\ p.w.chars + 1 \in Nat
        /\ Len(Append(p.w.word, c)) = Len(p.w.word) + 1
    BY <1>1
  <2>2. Spells(p.w, c) = [b EXCEPT !.word = Append(p.w.word, c),
                                   !.chars = p.w.chars + 1]
    BY <1>1 DEF Spells, Begins, WriterType
  <2>. HIDE DEF b
  <2>3. Spells(p.w, c) \in WriterType
    BY <1>2, <2>1, <2>2 DEF WriterType, b
  <2>. QED
    BY <2>1, <2>2, <2>3 DEF b
<1>4. p.w.mode \in Quotes => p.w.mode # "out"
  BY DEF Quotes
<1>. QED
  BY <1>1, <1>2, <1>3, <1>4 DEF InWords

\* What follows a point is a point: symbols between words.
LEMMA OutsidePoints ==
  ASSUME NEW p \in Point, NEW c \in Symbols, NEW q, ~p.nl, ~p.esc,
         \/ Blanks(p, c, q) \/ Comments(p, c, q) \/ Titles(p, c, q)
         \/ Punctuates(p, c, q) \/ Properties(p, c, q)
  PROVE  q \in Point
<1>. DEFINE w == p.w
            k == Closed(p.w)
<1>1. /\ w \in WriterType /\ p.meant \in Seq(SectionType) /\ Sound(p)
  BY DEF Point, PointType
<1>2. ASSUME NEW v \in WriterType, NEW m \in Seq(SectionType), NEW n \in BOOLEAN,
             q = Goes(v, m, FALSE, n),
             v.mode # "title" => Len(v.word) < BufSize,
             v.step # "START" =>
               BufSize > 1 /\ v.action.name # None /\ m # <<>>,
             v.mode \notin InWords,
             v.mode \in {"out", "comment"} => v.word = <<>>,
             v.mode = "title" => v.step = "START",
             n => v.mode = "out" /\ v.fresh
      PROVE  q \in Point
  <2>1. /\ q.w = v /\ q.meant = m /\ q.esc = FALSE /\ q.nl = n /\ q.cut = FALSE
        /\ q \in PointType
    BY <1>2 DEF Goes, PointType
  <2>2. Sound(q)
    BY <1>2, <2>1 DEF Sound
  <2>. QED
    BY <2>1, <2>2 DEF Point
<1>3. /\ Len(<<>>) < BufSize /\ "comment" \notin InWords /\ "out" \notin InWords
      /\ "title" \notin InWords /\ "bare" \in InWords
  BY ConfigAssumption DEF ConfigAssumption, InWords, Quotes
<1>4. CASE Blanks(p, c, q)
  <2>. DEFINE f == (c = Newline \/ w.fresh)
              v == [k EXCEPT !.fresh = f]
  <2>1. k \in WriterType /\ k.mode = "out" /\ k.word = <<>>
        /\ (k.step # "START" =>
              BufSize > 1 /\ k.action.name # None /\ p.meant # <<>>)
    BY <1>4, ClosedFacts DEF Blanks
  <2>2. q = Goes(v, p.meant, FALSE, c = Newline) /\ f \in BOOLEAN
        /\ (c = Newline) \in BOOLEAN /\ (c = Newline => f)
    BY <1>1, <1>4 DEF Blanks, WriterType
  <2>. HIDE DEF k, f
  <2>3. /\ v \in WriterType /\ v.mode = "out" /\ v.word = <<>> /\ v.step = k.step
        /\ v.action = k.action /\ v.fresh = f
    BY <2>1, <2>2 DEF WriterType
  <2>. HIDE DEF v, w
  <2>. QED
    BY <1>1, <1>2, <1>3, <2>1, <2>2, <2>3
<1>5. CASE Comments(p, c, q)
  <2>1. CASE w.mode = "out" /\ c = "#" /\ w.fresh
                /\ q = Goes([w EXCEPT !.mode = "comment"], p.meant, FALSE, FALSE)
    <3>. DEFINE v == [w EXCEPT !.mode = "comment"]
    <3>1. v \in WriterType /\ v.mode = "comment" /\ v.word = w.word
          /\ v.step = w.step /\ v.action = w.action
      BY <1>1 DEF WriterType
    <3>2. q = Goes(v, p.meant, FALSE, FALSE)
      BY <2>1
    <3>. HIDE DEF v
    <3>. QED
      BY <1>1, <1>2, <1>3, <2>1, <3>1, <3>2 DEF Sound
  <2>2. CASE w.mode = "comment" /\ q = Goes(w, p.meant, FALSE, FALSE)
    BY <1>1, <1>2, <1>3, <2>2 DEF Sound
  <2>3. CASE w.mode = "comment" /\
               q = Goes([w EXCEPT !.mode = "out", !.fresh = TRUE],
                        p.meant, FALSE, TRUE)
    <3>. DEFINE v == [w EXCEPT !.mode = "out", !.fresh = TRUE]
    <3>1. v \in WriterType /\ v.mode = "out" /\ v.word = w.word /\ v.fresh
          /\ v.step = w.step /\ v.action = w.action
      BY <1>1 DEF WriterType
    <3>2. q = Goes(v, p.meant, FALSE, TRUE)
      BY <2>3
    <3>. HIDE DEF v
    <3>. QED
      BY <1>1, <1>2, <1>3, <2>3, <3>1, <3>2 DEF Sound
  <2>. QED
    BY <1>5, <2>1, <2>2, <2>3 DEF Comments
<1>6. CASE Titles(p, c, q)
  <2>1. CASE /\ w.mode = "out" /\ w.step = "START"
             /\ q = Goes([w EXCEPT !.mode = "title"], p.meant, FALSE, FALSE)
    <3>. DEFINE v == [w EXCEPT !.mode = "title"]
    <3>1. v \in WriterType /\ v.mode = "title" /\ v.step = w.step
      BY <1>1 DEF WriterType
    <3>2. q = Goes(v, p.meant, FALSE, FALSE)
      BY <2>1
    <3>. HIDE DEF v
    <3>. QED
      BY <1>1, <1>2, <1>3, <2>1, <3>1, <3>2
  <2>2. CASE /\ w.mode = "title"
             /\ q = Goes([w EXCEPT !.word = Append(@, c), !.chars = @ + 1],
                         p.meant, FALSE, FALSE)
    <3>. DEFINE u == Append(w.word, c)
                v == [w EXCEPT !.word = u, !.chars = w.chars + 1]
    <3>1. u \in Seq(Symbols) /\ w.chars + 1 \in Nat
      BY <1>1 DEF WriterType
    <3>2. q = Goes(v, p.meant, FALSE, FALSE)
      BY <1>1, <2>2 DEF WriterType
    <3>. HIDE DEF u
    <3>3. v \in WriterType /\ v.mode = "title" /\ v.step = w.step
      BY <1>1, <2>2, <3>1 DEF WriterType
    <3>. HIDE DEF v
    <3>. QED
      BY <1>1, <1>2, <1>3, <2>2, <3>2, <3>3 DEF Sound
  <2>3. CASE /\ w.mode = "title"
             /\ q = Goes([w EXCEPT !.mode = "comment", !.word = <<>>],
                         Append(p.meant, [name |-> w.word, actions |-> <<>>]),
                         FALSE, FALSE)
    <3>. DEFINE v == [w EXCEPT !.mode = "comment", !.word = <<>>]
                s == [name |-> w.word, actions |-> <<>>]
                m == Append(p.meant, s)
    <3>1. v \in WriterType /\ v.mode = "comment" /\ v.step = w.step /\ v.word = <<>>
      BY <1>1, SymbolFacts DEF WriterType
    <3>2. s \in SectionType
      <4>1. <<>> \in Seq(ActionType) /\ w.word \in Seq(Symbols)
        BY <1>1 DEF WriterType
      <4>. QED
        BY <4>1 DEF SectionType
    <3>3. q = Goes(v, m, FALSE, FALSE)
      BY <2>3
    <3>. HIDE DEF v, s
    <3>4. m \in Seq(SectionType)
      BY <1>1, <3>2
    <3>. HIDE DEF m
    <3>5. v.step = "START"
      BY <1>1, <2>3, <3>1 DEF Sound
    <3>. QED
      BY <1>2, <1>3, <3>1, <3>3, <3>4, <3>5
  <2>. QED
    BY <1>6, <2>1, <2>2, <2>3 DEF Titles
<1>7. CASE Punctuates(p, c, q)
  <2>1. k \in WriterType /\ k.mode = "out" /\ k.word = <<>>
        /\ (k.step # "START" =>
              BufSize > 1 /\ k.action.name # None /\ p.meant # <<>>)
    BY <1>7, ClosedFacts DEF Punctuates
  <2>2. ASSUME NEW st \in Steps \ {"START"}, k.step # "START",
               q = Goes([k EXCEPT !.step = st], p.meant, FALSE, FALSE)
        PROVE  q \in Point
    <3>. DEFINE v == [k EXCEPT !.step = st]
    <3>. HIDE DEF k
    <3>1. v \in WriterType /\ v.mode = "out" /\ v.word = <<>> /\ v.step = st
          /\ v.action = k.action
      BY <2>1 DEF WriterType
    <3>2. q = Goes(v, p.meant, FALSE, FALSE)
      BY <2>2
    <3>. HIDE DEF v
    <3>. QED
      BY <1>1, <1>2, <1>3, <2>1, <2>2, <3>1, <3>2
  <2>3. CASE /\ k.step = "BLOCK" /\ None \notin {k.action.pattern, k.action.command}
             /\ q = Goes([k EXCEPT !.step = "START", !.action = NoAction],
                         [p.meant EXCEPT ![Len(p.meant)].actions =
                            Append(@, k.action)],
                         FALSE, FALSE)
    <3>. DEFINE v == [k EXCEPT !.step = "START", !.action = NoAction]
                n == Len(p.meant)
                s == [p.meant[n] EXCEPT !.actions = Append(@, k.action)]
                m == [p.meant EXCEPT ![n] = s]
    <3>1. NoAction \in [name : Values, pattern : Values, command : Values]
      BY DEF NoAction, Values
    <3>2. q = Goes(v, m, FALSE, FALSE)
      BY <2>3
    <3>3. k.action \in ActionType
      BY <2>1, <2>3 DEF WriterType, Values, ActionType
    <3>. HIDE DEF k
    <3>4. v \in WriterType /\ v.mode = "out" /\ v.word = <<>> /\ v.step = "START"
      BY <2>1, <3>1 DEF WriterType, Steps
    <3>5. n \in 1 .. Len(p.meant) /\ p.meant[n] \in SectionType
      BY <1>1, <2>1, <2>3
    <3>6. s \in SectionType
      <4>1. Append(p.meant[n].actions, k.action) \in Seq(ActionType)
        BY <3>3, <3>5 DEF SectionType
      <4>. QED
        BY <3>5, <4>1 DEF SectionType
    <3>. HIDE DEF s, v
    <3>7. m \in Seq(SectionType)
      BY <1>1, <3>5, <3>6
    <3>. HIDE DEF m
    <3>. QED
      BY <1>2, <1>3, <3>2, <3>4, <3>7
  <2>4. CASE c = "=" /\ k.step \in {"NAME", "BLOCK_NAME"}
    <3>. DEFINE st == IF k.step = "NAME" THEN "NAME_EQUALS" ELSE "BLOCK_VALUE"
    <3>1. q = Goes([k EXCEPT !.step = st], p.meant, FALSE, FALSE)
      BY <1>7, <2>1, <2>4 DEF Punctuates, WriterType
    <3>2. st \in Steps \ {"START"} /\ k.step # "START"
      BY <2>4 DEF Steps
    <3>. HIDE DEF st, k
    <3>. QED
      BY <2>2, <3>1, <3>2
  <2>5. CASE c = "{" /\ k.step = "NAME_EQUALS"
    <3>1. q = Goes([k EXCEPT !.step = "BLOCK"], p.meant, FALSE, FALSE)
      BY <1>7, <2>5 DEF Punctuates
    <3>. HIDE DEF k
    <3>. QED
      BY <2>2, <2>5, <3>1 DEF Steps
  <2>. QED
    BY <1>7, <2>3, <2>4, <2>5 DEF Punctuates
<1>8. CASE Properties(p, c, q)
  <2>. DEFINE u == <<c>>
              v == [w EXCEPT !.mode = "bare", !.fresh = FALSE, !.word = u]
  <2>1. u \in Seq(Symbols) /\ Len(u) = 1
    OBVIOUS
  <2>2. q = Goes(v, p.meant, FALSE, FALSE)
    BY <1>8 DEF Properties
  <2>3. w.step = "BLOCK" /\ c \in {Pattern, Command} /\ w.action[c] = None
    BY <1>8 DEF Properties
  <2>4. u = <<c>>
    OBVIOUS
  <2>. HIDE DEF u
  <2>5. /\ v \in WriterType /\ v.mode = "bare" /\ v.word = u /\ ~v.fresh
        /\ v.step = w.step /\ v.action = w.action
    BY <1>1, <2>1 DEF WriterType
  <2>. HIDE DEF v
  <2>6. /\ q.w = v /\ q.meant = p.meant /\ q.esc = FALSE /\ q.nl = FALSE
        /\ q.cut = FALSE /\ q \in PointType
    BY <1>1, <2>2, <2>5 DEF Goes, PointType
  <2>7. Sound(q)
    BY <1>1, <1>3, <2>1, <2>3, <2>4, <2>5, <2>6 DEF Sound
  <2>. QED
    BY <2>6, <2>7 DEF Point
<1>. QED
  BY <1>4, <1>5, <1>6, <1>7, <1>8

\* What follows a point is a point.
LEMMA PointsFollow ==
  ASSUME NEW p \in Point, NEW c, NEW q, Follows(p, c, q)
  PROVE  q \in Point
<1>. DEFINE w == p.w
<1>1. /\ w \in WriterType /\ p.meant \in Seq(SectionType) /\ Sound(p)
      /\ p.esc \in BOOLEAN /\ p.nl \in BOOLEAN /\ p.cut \in BOOLEAN
  BY DEF Point, PointType
<1>2. CASE Cuts(p, c, q)
  <2>1. /\ q.w = w /\ q.meant = p.meant /\ q.esc = p.esc /\ q.nl = FALSE
        /\ q.cut = TRUE /\ q \in PointType
    BY <1>1, <1>2 DEF Cuts, PointType
  <2>2. Sound(q)
    BY <1>1, <2>1 DEF Sound
  <2>. QED
    BY <2>1, <2>2 DEF Point
<1>3. ASSUME c \in Symbols, NEW v \in WriterType, NEW e \in BOOLEAN,
             NEW n \in BOOLEAN,
             q = Goes(v, p.meant, e, n), Naming(p),
             v.step = w.step, v.action = w.action, ~v.fresh,
             v.mode \in InWords, Len(v.word) < BufSize, ~e \/ ~n
      PROVE  q \in Point
  <2>1. /\ q.w = v /\ q.meant = p.meant /\ q.esc = e /\ q.nl = n /\ q.cut = FALSE
        /\ q \in PointType
    BY <1>1, <1>3 DEF Goes, PointType
  <2>2. v.mode \notin {"title", "out", "comment"}
    BY <1>3 DEF InWords, Quotes
  <2>3. Sound(q)
    BY <1>1, <1>3, <2>1, <2>2 DEF Sound, Naming
  <2>. QED
    BY <2>1, <2>3 DEF Point
<1>4. ASSUME c \in Symbols, w.mode \in {"out"} \cup InWords, Room(p),
             NEW n \in BOOLEAN, q = Goes(Spells(w, c), p.meant, FALSE, n)
      PROVE  q \in Point
  <2>. DEFINE v == Spells(w, c)
  <2>1. Naming(p) /\ w.mode # "title" /\ w.mode # "comment"
    BY <1>4 DEF Room, InWords, Quotes
  <2>2. /\ v \in WriterType /\ v.step = w.step /\ v.action = w.action /\ ~v.fresh
        /\ v.mode \in InWords /\ v.word = Append(w.word, c)
        /\ Len(v.word) = Len(w.word) + 1
    <3>. DEFINE b == Begins(p.w)
                u == Append(w.word, c)
                l == w.chars + 1
    <3>1. /\ b \in WriterType /\ b = [w EXCEPT !.mode = b.mode, !.fresh = FALSE]
          /\ b.mode \in InWords /\ Len(u) = Len(w.word) + 1
          /\ v \in WriterType /\ v = [b EXCEPT !.word = u, !.chars = l]
      BY <1>4, <2>1, SpelledFacts
    <3>. HIDE DEF v, b, u, l, w
    <3>2. b.step = w.step /\ b.action = w.action /\ ~b.fresh
      BY <1>1, <3>1 DEF WriterType
    <3>3. /\ v.word = u /\ v.step = b.step /\ v.action = b.action /\ v.mode = b.mode
          /\ v.fresh = b.fresh
      BY <3>1 DEF WriterType
    <3>. QED
      BY <3>1, <3>2, <3>3 DEF u, w
  <2>3. Len(v.word) < BufSize
    BY <1>4, <2>2 DEF Room
  <2>. HIDE DEF v
  <2>. QED
    BY <1>3, <1>4, <2>1, <2>2, <2>3 DEF v
<1>5. ASSUME c \in Symbols, w.mode \in {"out"} \cup InWords, Naming(p),
             q = Goes(Begins(w), p.meant, TRUE, FALSE)
      PROVE  q \in Point
  <2>. DEFINE b == Begins(w)
  <2>1. /\ b \in WriterType /\ b = [w EXCEPT !.mode = b.mode, !.fresh = FALSE]
        /\ b.mode \in InWords /\ w.mode # "title"
    BY <1>5, SpelledFacts DEF InWords, Quotes
  <2>. HIDE DEF b, w
  <2>2. /\ b.step = w.step /\ b.action = w.action /\ ~b.fresh /\ b.word = w.word
        /\ Len(b.word) < BufSize
    BY <1>1, <2>1 DEF WriterType, Sound, w
  <2>. QED
    BY <1>3, <1>5, <2>1, <2>2 DEF b
<1>6. ASSUME c \in Symbols, w.mode \in {"out"} \cup InWords, Naming(p),
             NEW d \in InWords,
             q = Goes([w EXCEPT !.mode = d, !.fresh = FALSE],
                      p.meant, FALSE, FALSE)
      PROVE  q \in Point
  <2>. DEFINE b == [w EXCEPT !.mode = d, !.fresh = FALSE]
  <2>1. w.mode # "title" /\ d \in {"out", "bare", "comment", "title"} \cup Quotes
    BY <1>6 DEF InWords, Quotes
  <2>2. /\ b \in WriterType /\ b.mode = d /\ b.step = w.step
        /\ b.action = w.action /\ ~b.fresh /\ b.word = w.word
    BY <1>1, <2>1 DEF WriterType
  <2>3. Len(b.word) < BufSize
    BY <1>1, <2>1, <2>2 DEF Sound
  <2>. HIDE DEF b
  <2>. QED
    BY <1>3, <1>6, <2>2, <2>3 DEF b
<1>7. CASE c \in Symbols /\ ~p.nl /\ p.esc /\ Escapes(p, c, q)
  <2>1. w.mode \in InWords /\ (c = Newline) \in BOOLEAN
    BY <1>1, <1>7 DEF Sound
  <2>. QED
    BY <1>4, <1>7, <2>1 DEF Escapes
<1>8. CASE c \in Symbols /\ ~p.nl /\ ~p.esc /\ Bares(p, c, q)
  BY <1>4, <1>5, <1>8 DEF Bares, InWords
<1>9. CASE c \in Symbols /\ ~p.nl /\ ~p.esc /\ Quoting(p, c, q)
  <2>1. w.mode \in Quotes => Naming(p)
    <3>. SUFFICES ASSUME w.mode \in Quotes PROVE Naming(p)
      OBVIOUS
    <3>1. w.mode \in InWords /\ w.mode # "bare"
      BY DEF InWords, Quotes
    <3>. QED
      BY <1>1, <3>1 DEF Sound, Naming
  <2>2. CASE /\ w.mode \in {"out", "bare"} /\ Naming(p) /\ c \in Quotes
             /\ q = Goes([w EXCEPT !.mode = c, !.fresh = FALSE],
                         p.meant, FALSE, FALSE)
    BY <1>6, <1>9, <2>2 DEF InWords
  <2>3. CASE /\ w.mode \in Quotes /\ Room(p)
             /\ q = Goes(Spells(p.w, c), p.meant, FALSE, c = Newline)
    <3>1. (c = Newline) \in BOOLEAN
      OBVIOUS
    <3>. QED
      BY <1>4, <1>9, <2>3, <3>1 DEF InWords
  <2>4. CASE w.mode \in Quotes /\ q = Goes(Begins(p.w), p.meant, TRUE, FALSE)
    BY <1>5, <1>9, <2>1, <2>4 DEF InWords
  <2>5. CASE w.mode \in Quotes
               /\ q = Goes([w EXCEPT !.mode = "bare"], p.meant, FALSE, FALSE)
    <3>1. w = [w EXCEPT !.fresh = FALSE]
      BY <1>1, <2>5 DEF Sound, InWords, WriterType
    <3>2. [w EXCEPT !.mode = "bare"] = [w EXCEPT !.mode = "bare", !.fresh = FALSE]
      BY <1>1, <3>1 DEF WriterType
    <3>3. "bare" \in InWords
      BY DEF InWords
    <3>. QED
      BY <1>6, <1>9, <2>1, <2>5, <3>2, <3>3 DEF InWords
  <2>. QED
    BY <1>9, <2>2, <2>3, <2>4, <2>5 DEF Quoting
<1>. QED
  BY <1>2, <1>7, <1>8, <1>9, OutsidePoints DEF Follows

-----------------------------------------------------------------------------
(* The parser at a point, and the invariant.                               *)

Coming(S)    == text # <<>> /\ Head(text) \in S
OtherThan(S) == text # <<>> /\ Head(text) \notin S \cup {Cut}

NoWord   == word = <<>> /\ qst = "normal" /\ ~esc
Holds(w) == step = w.step /\ action = w.action /\ blockval = w.prop

Outside(p) ==
  /\ p.w.mode = "out" /\ NoWord /\ Holds(p.w)
  /\ IF p.nl THEN at = "blank" \/ (at = "rest" /\ ~needFullLine)
     ELSE IF p.w.fresh
     THEN /\ ~needFullLine
          /\ \/ at \in {"closed", "line"}
             \/ at = "rest" /\ Coming({Newline, "#"})
             \/ at \in {"actions", "word"} /\ OtherThan(White \cup {"#", "["})
     ELSE at = "blank" \/ (at \in {"actions", "word"} /\ OtherThan(White))
  /\ at = "word" =>
       /\ step \in {"START", "BLOCK", "BLOCK_VALUE"}
       /\ step = "BLOCK" => ~Coming({"}"})

Inside(p) ==
  /\ p.w.mode \in InWords /\ Holds(p.w)
  /\ word = p.w.word /\ esc = p.esc
  /\ qst = IF p.w.mode = "bare" THEN "normal" ELSE p.w.mode
  /\ \/ at = "word"
     \/ at = "line" /\ needFullLine /\ p.cut
     \/ at = "actions" /\ OtherThan({})

\* The parser has seen the end of the word.
Past(p) ==
  /\ p.w.mode = "bare" /\ ~p.esc /\ ~p.nl /\ Closes(p.w)
  /\ NoWord /\ Holds(Closed(p.w))
  /\ at \in {"blank", "actions"}
  /\ Coming({"=", "{", "}"} \cup White)
  /\ at = "actions" => OtherThan(White)

Beside(p) ==
  /\ p.w.mode \in {"comment", "title"} /\ NoWord /\ Holds(p.w) /\ ~needFullLine
  /\ IF p.w.mode = "comment" THEN at = "rest"
                             ELSE at = "section" /\ title = p.w.word

\* At the end of the file.
Over(p) == at = "line" /\ text = <<>> /\ complete /\ step = p.w.step

Place(p) ==
  /\ config = p.meant
  /\ Outside(p) \/ Inside(p) \/ Past(p) \/ Beside(p) \/ Over(p)

\* The writer at a point.
Ends(q) ==
  /\ q.w = writer /\ q.meant = meant /\ ~q.esc /\ ~q.nl
  /\ q.cut /\ text # <<>> => text[Len(text)] = Cut

Between(p, q) == Leads(p, text, q) /\ Place(p) /\ Ends(q)

Verdict ==
  /\ at = "accepted" => config = meant /\ writer.step = "START"
  /\ at = "error" /\ complete => writer.step # "START" \/ writer.mode = "title"
  /\ at = "error" /\ ~complete => text = <<>> /\ meant = <<>>
  /\ at # "full"

Followed ==
  /\ at \in Ended => Verdict
  /\ at = "closed" => text = <<>> /\ ~complete /\ meant = <<>>
  /\ at \notin Ended => \E p, q : Between(p, q)

Understood == kind \in Files /\ slips \in Nat /\ (slips = 0 => Followed)

-----------------------------------------------------------------------------
(* What the writer writes leads on to where it is then.                    *)

\* s leads from q to where the writer may stop, at w having meant m.
Reaches(q, s, w, m) ==
  \E r : /\ Leads(q, s, r)
         /\ r.w = w /\ r.meant = m /\ ~r.esc /\ ~r.nl
         /\ r.cut => s[Len(s)] = Cut

Text == Seq(Symbols \cup {Cut})

\* More text, or none any more, does not move the parser.
LEMMA PlaceKept ==
  ASSUME IInv, NEW p, Place(p), NEW s \in Text, ~complete,
         text' = text \o s, UNCHANGED parser, complete' \in BOOLEAN
  PROVE  Place(p)'
<1>1. text # <<>> => text' # <<>> /\ Head(text') = Head(text)
  BY DEF IInv, TypeOK, Text
<1>2. UNCHANGED <<at, step, action, blockval, word, qst, esc, needFullLine,
                  title, config>>
  BY DEF parser, blocks, words
<1>3. /\ \A S : Coming(S) => Coming(S)'
      /\ \A S : OtherThan(S) => OtherThan(S)'
  BY <1>1 DEF Coming, OtherThan
<1>4. /\ Holds(p.w) => Holds(p.w)'
      /\ Holds(Closed(p.w)) => Holds(Closed(p.w))'
      /\ NoWord => NoWord'
  BY <1>2 DEF Holds, NoWord
<1>5. CASE Outside(p)
  <2>1. at = "word" => (step = "BLOCK" => ~Coming({"}"})')
    <3>. SUFFICES ASSUME at = "word", step = "BLOCK" PROVE ~Coming({"}"})'
      OBVIOUS
    <3>1. text # <<>> /\ ~Coming({"}"})
      BY <1>5 DEF Outside, OtherThan
    <3>. QED
      BY <1>1, <3>1 DEF Coming
  <2>. QED
    BY <1>2, <1>3, <1>4, <1>5, <2>1 DEF Outside, Place
<1>6. CASE Inside(p)
  BY <1>2, <1>3, <1>4, <1>6 DEF Inside, Place
<1>7. CASE Past(p)
  BY <1>2, <1>3, <1>4, <1>7 DEF Past, Place
<1>8. CASE Beside(p)
  BY <1>2, <1>4, <1>8 DEF Beside, Place
<1>. QED
  BY <1>5, <1>6, <1>7, <1>8 DEF Place, Over

\* One text after another.
LEMMA ReachesOn ==
  ASSUME NEW s \in Text, NEW t \in Text, t # <<>>, NEW q, NEW r, NEW w, NEW m,
         Leads(q, s, r), Reaches(r, t, w, m)
  PROVE  Reaches(q, s \o t, w, m)
<1>1. PICK z : /\ Leads(r, t, z)
               /\ z.w = w /\ z.meant = m /\ ~z.esc /\ ~z.nl
               /\ z.cut => t[Len(t)] = Cut
  BY DEF Reaches
<1>2. Leads(q, s \o t, z)
  BY <1>1, LeadsOn DEF Text
<1>3. (s \o t)[Len(s \o t)] = t[Len(t)]
  BY DEF Text
<1>. QED
  BY <1>1, <1>2, <1>3 DEF Reaches

\* What is written moves the writer from point to point.
LEMMA Written ==
  ASSUME IInv, NEW p, NEW q, Between(p, q), slips = 0,
         NEW s \in Text, s # <<>>, Writes(s),
         Reaches(q, s, writer', meant')
  PROVE  Followed'
<1>1. /\ at \notin Ended \cup {"closed"} /\ text' = text \o s /\ ~complete
      /\ UNCHANGED <<complete, parser>> /\ text \in Text
  BY DEF Writes, Write, IInv, TypeOK, Text
<1>2. at' = at /\ complete' \in BOOLEAN
  BY <1>1 DEF parser, IInv, TypeOK
<1>3. Place(p)'
  BY <1>1, <1>2, PlaceKept DEF Between
<1>4. PICK r : /\ Leads(p, text \o s, r)
               /\ r.w = writer' /\ r.meant = meant' /\ ~r.esc /\ ~r.nl
               /\ r.cut => (text \o s)[Len(text \o s)] = Cut
  <2>1. Leads(p, text, q)
    BY DEF Between
  <2>2. Reaches(p, text \o s, writer', meant')
    BY <1>1, <2>1, ReachesOn
  <2>. QED
    BY <2>2 DEF Reaches
<1>5. Ends(r)' /\ Leads(p, text', r)
  BY <1>1, <1>4 DEF Ends
<1>6. Between(p, r)'
  BY <1>3, <1>5 DEF Between
<1>. QED
  BY <1>1, <1>2, <1>6 DEF Followed

\* One symbol, with the end of the buffer after a newline.
LEMMA ReachesLine ==
  ASSUME NEW q \in Point, NEW c \in Symbols, NEW r, Follows(q, c, r),
         ~r.esc, r.nl = (c = Newline), ~r.cut
  PROVE  /\ Reaches(q, Line(c), r.w, r.meant)
         /\ Line(c) \in Text /\ Line(c) # <<>> /\ Head(Line(c)) # Cut
<1>1. r \in Point /\ c # Cut
  BY PointsFollow, SymbolFacts
<1>2. Leads(q, <<c>>, r) /\ <<c>> \in Text
  BY <1>1, LeadsOne DEF Text
<1>3. CASE c # Newline
  <2>1. Line(c) = <<c>> /\ <<c>>[1] = c /\ Len(<<c>>) = 1 /\ Head(<<c>>) = c
    BY <1>3 DEF Line
  <2>2. Reaches(q, <<c>>, r.w, r.meant)
    BY <1>2, <1>3 DEF Reaches
  <2>. QED
    BY <1>1, <1>2, <2>1, <2>2
<1>4. CASE c = Newline
  <2>. DEFINE z == [w |-> r.w, meant |-> r.meant, esc |-> r.esc, nl |-> FALSE,
                    cut |-> TRUE]
  <2>1. /\ z.w = r.w /\ z.meant = r.meant /\ z.esc = r.esc /\ z.nl = FALSE
    OBVIOUS
  <2>2. Follows(r, Cut, z)
    BY <1>4 DEF Follows, Cuts
  <2>. HIDE DEF z
  <2>3. z \in Point
    BY <1>1, <2>2, PointsFollow
  <2>4. Leads(r, <<Cut>>, z) /\ <<Cut>> \in Text
    BY <1>1, <2>2, <2>3, LeadsOne DEF Text
  <2>5. Reaches(r, <<Cut>>, r.w, r.meant)
    <3>1. <<Cut>>[Len(<<Cut>>)] = Cut
      OBVIOUS
    <3>. QED
      BY <2>1, <2>4, <3>1 DEF Reaches
  <2>6. Reaches(q, <<c>> \o <<Cut>>, r.w, r.meant)
    BY <1>2, <2>4, <2>5, ReachesOn
  <2>7. /\ Line(c) = <<c>> \o <<Cut>> /\ Head(Line(c)) = c
        /\ Line(c) \in Text /\ Line(c) # <<>>
    BY <1>2, <1>4, <2>4 DEF Line, Text
  <2>. QED
    BY <1>1, <2>6, <2>7
<1>. QED
  BY <1>3, <1>4

\* A character of a name is a symbol.
LEMMA CharsAreSymbols == kind \in Files => kind.chars \subseteq Symbols
  BY ConfigFileAssumption, SymbolFacts DEF ConfigFileAssumption, Symbols

\* The point where the writer is.
LEMMA AtWriter ==
  ASSUME IInv, NEW p, NEW q, Between(p, q)
  PROVE  /\ q \in Point /\ q.w = writer /\ q.meant = meant
         /\ q.esc = FALSE /\ q.nl = FALSE
         /\ writer \in WriterType
         /\ q.cut /\ text # <<>> => text[Len(text)] = Cut
<1>1. q \in Point
  BY LeadsPoints DEF Between, IInv, TypeOK
<1>. QED
  BY <1>1 DEF Between, Ends, Point, PointType

\* A step that writes one symbol which leads to w and m.
LEMMA OneWritten ==
  ASSUME IInv, NEW p, NEW q, Between(p, q), slips = 0,
         NEW c \in Symbols, NEW n, n = (c = Newline),
         Writes(Line(c)),
         Blanks(q, c, Goes(writer', meant', FALSE, n))
           \/ Comments(q, c, Goes(writer', meant', FALSE, n))
           \/ Titles(q, c, Goes(writer', meant', FALSE, n))
           \/ Punctuates(q, c, Goes(writer', meant', FALSE, n))
           \/ Properties(q, c, Goes(writer', meant', FALSE, n))
           \/ Bares(q, c, Goes(writer', meant', FALSE, n))
           \/ Quoting(q, c, Goes(writer', meant', FALSE, n))
  PROVE  Followed'
<1>. DEFINE r == Goes(writer', meant', FALSE, n)
<1>1. r.w = writer' /\ r.meant = meant' /\ r.esc = FALSE /\ r.nl = n /\ r.cut = FALSE
  BY DEF Goes
<1>2. Follows(q, c, r)
  BY AtWriter DEF Follows
<1>3. /\ Reaches(q, Line(c), r.w, r.meant)
      /\ Line(c) \in Text /\ Line(c) # <<>>
  BY <1>1, <1>2, AtWriter, ReachesLine
<1>. HIDE DEF r
<1>. QED
  BY <1>1, <1>3, Written

\* Whoever writes knows where.
LEMMA WriterKnows ==
  ASSUME IInv, Followed, NEW s, Writes(s)
  PROVE  /\ \E p, q : Between(p, q)
         /\ ~complete /\ UNCHANGED <<complete, parser>> /\ text' = text \o s
         /\ Head(s) = Cut => text # <<>> /\ text[Len(text)] # Cut
  BY DEF Writes, Write, Followed

\* A symbol that is no newline is written as it is.
LEMMA LineIs ==
  /\ \A c : c # Newline => Line(c) = <<c>>
  /\ "#" # Newline /\ "[" # Newline /\ "]" # Newline /\ "=" # Newline
  /\ "{" # Newline /\ "}" # Newline /\ Pattern # Newline /\ Command # Newline
  /\ \A q \in Quotes : q # Newline
  BY DEF Line, Newline, Pattern, Command, Quotes

\* Blanks, comments and sections.
LEMMA BlankWritten ==
  ASSUME IInv, kind \in Files, Followed, slips = 0,
         WriteBlank \/ WriteComment \/ WriteSection
  PROVE  Followed'
<1>1. CASE WriteBlank
  <2>1. PICK c \in White :
          /\ MayClose /\ Writes(Line(c)) /\ UNCHANGED meant
          /\ writer' = [Closed(writer) EXCEPT !.fresh = c = Newline \/ writer.fresh]
    BY <1>1 DEF WriteBlank
  <2>2. PICK p, q : Between(p, q)
    BY <2>1, WriterKnows
  <2>3. c \in Symbols /\ Closes(q.w)
    BY <2>1, <2>2, AtWriter, SymbolFacts DEF MayClose, Closes
  <2>4. Blanks(q, c, Goes(writer', meant', FALSE, c = Newline))
    BY <2>1, <2>2, <2>3, AtWriter DEF Blanks
  <2>. QED
    BY <2>1, <2>2, <2>3, <2>4, OneWritten
<1>2. CASE WriteComment
  <2>1. CASE /\ writer.mode = "out" /\ writer.fresh /\ Writes(<<"#">>)
             /\ writer' = [writer EXCEPT !.mode = "comment"] /\ UNCHANGED meant
    <3>1. PICK p, q : Between(p, q)
      BY <2>1, WriterKnows
    <3>2. Comments(q, "#", Goes(writer', meant', FALSE, FALSE))
      BY <2>1, <3>1, AtWriter DEF Comments
    <3>3. Line("#") = <<"#">> /\ "#" \in Symbols /\ FALSE = ("#" = Newline)
      BY LineIs, SymbolFacts
    <3>. QED
      BY <2>1, <3>1, <3>2, <3>3, OneWritten
  <2>2. CASE /\ writer.mode = "comment" /\ UNCHANGED <<writer, meant>>
             /\ \E c \in kind.chars \ {Newline} : Writes(<<c>>)
    <3>1. PICK c \in kind.chars \ {Newline} : Writes(<<c>>)
      BY <2>2
    <3>2. PICK p, q : Between(p, q)
      BY <3>1, WriterKnows
    <3>3. Comments(q, c, Goes(writer', meant', FALSE, FALSE))
      BY <2>2, <3>1, <3>2, AtWriter DEF Comments
    <3>4. Line(c) = <<c>> /\ c \in Symbols /\ FALSE = (c = Newline)
      BY <3>1, LineIs, CharsAreSymbols
    <3>. QED
      BY <3>1, <3>2, <3>3, <3>4, OneWritten
  <2>3. CASE /\ writer.mode = "comment" /\ Writes(Line(Newline))
             /\ writer' = [writer EXCEPT !.mode = "out", !.fresh = TRUE]
             /\ UNCHANGED meant
    <3>1. PICK p, q : Between(p, q)
      BY <2>3, WriterKnows
    <3>2. Comments(q, Newline, Goes(writer', meant', FALSE, TRUE))
      BY <2>3, <3>1, AtWriter DEF Comments
    <3>3. Newline \in Symbols /\ TRUE = (Newline = Newline)
      BY SymbolFacts
    <3>. QED
      BY <2>3, <3>1, <3>2, <3>3, OneWritten
  <2>. QED
    BY <1>2, <2>1, <2>2, <2>3 DEF WriteComment
<1>3. CASE WriteSection
  <2>1. CASE /\ writer.mode = "out" /\ writer.fresh /\ writer.step = "START"
             /\ Writes(<<"[">>)
             /\ writer' = [writer EXCEPT !.mode = "title"] /\ UNCHANGED meant
    <3>1. PICK p, q : Between(p, q)
      BY <2>1, WriterKnows
    <3>2. Titles(q, "[", Goes(writer', meant', FALSE, FALSE))
      BY <2>1, <3>1, AtWriter DEF Titles
    <3>3. Line("[") = <<"[">> /\ "[" \in Symbols /\ FALSE = ("[" = Newline)
      BY LineIs, SymbolFacts
    <3>. QED
      BY <2>1, <3>1, <3>2, <3>3, OneWritten
  <2>2. CASE /\ writer.mode = "title" /\ UNCHANGED meant
             /\ \E c \in kind.chars \ {Newline, "]"} :
                  /\ Writes(<<c>>)
                  /\ writer' = [writer EXCEPT !.word = Append(@, c), !.chars = @ + 1]
    <3>1. PICK c \in kind.chars \ {Newline, "]"} :
            /\ Writes(<<c>>)
            /\ writer' = [writer EXCEPT !.word = Append(@, c), !.chars = @ + 1]
      BY <2>2
    <3>2. PICK p, q : Between(p, q)
      BY <3>1, WriterKnows
    <3>3. Titles(q, c, Goes(writer', meant', FALSE, FALSE))
      BY <2>2, <3>1, <3>2, AtWriter DEF Titles
    <3>4. Line(c) = <<c>> /\ c \in Symbols /\ FALSE = (c = Newline)
      BY <3>1, LineIs, CharsAreSymbols
    <3>. QED
      BY <3>1, <3>2, <3>3, <3>4, OneWritten
  <2>3. CASE /\ writer.mode = "title" /\ Writes(<<"]">>)
             /\ meant' = Append(meant, [name |-> writer.word, actions |-> <<>>])
             /\ writer' = [writer EXCEPT !.mode = "comment", !.word = <<>>]
    <3>1. PICK p, q : Between(p, q)
      BY <2>3, WriterKnows
    <3>2. Titles(q, "]", Goes(writer', meant', FALSE, FALSE))
      BY <2>3, <3>1, AtWriter DEF Titles
    <3>3. Line("]") = <<"]">> /\ "]" \in Symbols /\ FALSE = ("]" = Newline)
      BY LineIs, SymbolFacts
    <3>. QED
      BY <2>3, <3>1, <3>2, <3>3, OneWritten
  <2>. QED
    BY <1>3, <2>1, <2>2, <2>3 DEF WriteSection
<1>. QED
  BY <1>1, <1>2, <1>3

\* Quotes, properties and punctuation.
LEMMA MarkWritten ==
  ASSUME IInv, Followed, slips = 0,
         WriteQuote \/ WriteProperty \/ WritePunctuation
  PROVE  Followed'
<1>1. CASE WriteQuote
  <2>1. PICK c \in Quotes :
          /\ \/ /\ writer.mode \in {"out", "bare"} /\ InName
                /\ writer' = [writer EXCEPT !.mode = c, !.fresh = FALSE]
             \/ /\ writer.mode = c
                /\ writer.word # <<>> => writer.word[Len(writer.word)] # Escape
                /\ writer' = [writer EXCEPT !.mode = "bare"]
          /\ Writes(<<c>>) /\ UNCHANGED meant
    BY <1>1 DEF WriteQuote
  <2>2. PICK p, q : Between(p, q)
    BY <2>1, WriterKnows
  <2>3. Line(c) = <<c>> /\ c \in Symbols /\ FALSE = (c = Newline)
    <3>1. c # Newline
      BY <2>1, LineIs
    <3>2. c \in Symbols
      BY <2>1, SymbolFacts
    <3>. QED
      BY <3>1, <3>2, LineIs
  <2>4. InName => Naming(q)
    BY <2>2, AtWriter DEF InName, Naming
  <2>5. Quoting(q, c, Goes(writer', meant', FALSE, FALSE))
    <3>1. q.w = writer /\ q.meant = meant
      BY <2>2, AtWriter
    <3>. QED
      BY <2>1, <2>4, <3>1 DEF Quoting
  <2>. QED
    BY <2>1, <2>2, <2>3, <2>5, OneWritten
<1>2. CASE WriteProperty
  <2>1. PICK c \in {Pattern, Command} :
          /\ writer.mode = "out" /\ writer.step = "BLOCK" /\ writer.action[c] = None
          /\ Writes(<<c>>)
          /\ writer' = [writer EXCEPT !.mode = "bare", !.fresh = FALSE, !.word = <<c>>]
          /\ UNCHANGED meant
    BY <1>2 DEF WriteProperty
  <2>2. PICK p, q : Between(p, q)
    BY <2>1, WriterKnows
  <2>3. Line(c) = <<c>> /\ c \in Symbols /\ FALSE = (c = Newline)
    <3>1. c # Newline
      BY <2>1, LineIs
    <3>2. c \in Symbols
      BY <2>1, SymbolFacts
    <3>. QED
      BY <3>1, <3>2, LineIs
  <2>4. Properties(q, c, Goes(writer', meant', FALSE, FALSE))
    BY <2>1, <2>2, AtWriter DEF Properties
  <2>. QED
    BY <2>1, <2>2, <2>3, <2>4, OneWritten
<1>3. CASE WritePunctuation
  <2>. DEFINE k == Closed(writer)
  <2>1. PICK c \in {"=", "{", "}"} :
          /\ Writes(<<c>>)
          /\ \/ /\ c = "=" /\ k.step \in {"NAME", "BLOCK_NAME"}
                /\ writer' = [k EXCEPT !.step = IF @ = "NAME" THEN "NAME_EQUALS"
                                                              ELSE "BLOCK_VALUE"]
                /\ UNCHANGED meant
             \/ /\ c = "{" /\ k.step = "NAME_EQUALS"
                /\ writer' = [k EXCEPT !.step = "BLOCK"]
                /\ UNCHANGED meant
             \/ /\ c = "}" /\ k.step = "BLOCK"
                /\ None \notin {k.action.pattern, k.action.command}
                /\ meant' = [meant EXCEPT ![Len(meant)].actions =
                               Append(@, k.action)]
                /\ writer' = [k EXCEPT !.step = "START", !.action = NoAction]
    <3>. HIDE DEF k
    <3>. QED
      BY <1>3 DEF WritePunctuation, k
  <2>2. PICK p, q : Between(p, q)
    BY <2>1, WriterKnows
  <2>3. Line(c) = <<c>> /\ c \in Symbols /\ FALSE = (c = Newline)
    <3>1. c # Newline
      BY <2>1, LineIs
    <3>2. c \in Symbols
      BY <2>1, SymbolFacts
    <3>. QED
      BY <3>1, <3>2, LineIs
  <2>4. Closes(q.w)
    <3>1. MayClose /\ q.w = writer
      BY <1>3, <2>2, AtWriter DEF WritePunctuation
    <3>. QED
      BY <3>1 DEF MayClose, Closes
  <2>5. k = Closed(q.w) /\ q.meant = meant
    BY <2>2, AtWriter
  <2>. HIDE DEF k
  <2>6. Punctuates(q, c, Goes(writer', meant', FALSE, FALSE))
    BY <2>1, <2>4, <2>5 DEF Punctuates
  <2>. QED
    BY <2>1, <2>2, <2>3, <2>6, OneWritten
<1>. QED
  BY <1>1, <1>2, <1>3

\* Spelling goes on where it began.
LEMMA SpelledTwice ==
  ASSUME NEW q \in Point, NEW c \in Symbols, Naming(q),
         q.w.mode \in {"out"} \cup InWords
  PROVE  /\ Spells(Begins(q.w), c) = Spells(q.w, c)
         /\ Begins(q.w).step = q.w.step /\ Begins(q.w).word = q.w.word
         /\ Begins(q.w).mode = IF q.w.mode = "out" THEN "bare" ELSE q.w.mode
<1>. DEFINE w == q.w
            b == Begins(w)
<1>1. w \in WriterType /\ w.mode \in {"out"} \cup InWords
  BY DEF Point, PointType
<1>. HIDE DEF w
<1>2. /\ b \in WriterType /\ b.step = w.step /\ b.word = w.word /\ b.chars = w.chars
      /\ b.mode = IF w.mode = "out" THEN "bare" ELSE w.mode
      /\ b = [w EXCEPT !.mode = b.mode, !.fresh = FALSE]
  BY <1>1 DEF Begins, WriterType, InWords
<1>3. b.mode # "out"
  BY <1>1, <1>2 DEF InWords, Quotes
<1>4. Spells(w, c) = [w EXCEPT !.mode = b.mode, !.fresh = FALSE,
                               !.word = Append(w.word, c), !.chars = w.chars + 1]
  BY <1>1, <1>2 DEF Spells, WriterType
<1>5. Spells(b, c) = [b EXCEPT !.mode = b.mode, !.fresh = FALSE,
                               !.word = Append(w.word, c), !.chars = w.chars + 1]
  BY <1>2, <1>3 DEF Spells, WriterType
<1>. HIDE DEF b
<1>6. Spells(b, c) = Spells(w, c)
  BY <1>1, <1>2, <1>4, <1>5, ZenonT(40) DEF WriterType
<1>. QED
  BY <1>2, <1>6 DEF b, w

\* Short texts.
LEMMA OneAndOne ==
  ASSUME NEW a, NEW b
  PROVE  <<a>> \o <<b>> = <<a, b>>
<1>. DEFINE S == {a, b}
            s == <<a>>
            t == <<b>>
            u == <<a, b>>
<1>1. /\ s \in Seq(S) /\ t \in Seq(S) /\ u \in Seq(S)
      /\ Len(s) = 1 /\ Len(t) = 1 /\ Len(u) = 2
      /\ s[1] = a /\ t[1] = b /\ u[1] = a /\ u[2] = b
  OBVIOUS
<1>. HIDE DEF S, s, t, u
<1>2. /\ s \o t \in Seq(S) /\ Len(s \o t) = 2
      /\ (s \o t)[1] = u[1] /\ (s \o t)[2] = u[2]
  BY <1>1, ConcatProperties
<1>3. s \o t = u
  BY <1>1, <1>2, SeqEqual
<1>. QED
  BY <1>3 DEF s, t, u

\* Texts of one symbol.
LEMMA SymbolTexts == <<Cut>> \in Text /\ \A c \in Symbols : <<c>> \in Text
  BY DEF Text

\* After a backslash, and perhaps the end of the buffer, an escaped character.
LEMMA EscapedReaches ==
  ASSUME NEW q \in Point, NEW c \in Symbols, ~q.esc, ~q.nl, Room(q),
         q.w.mode \in {"out", "bare"} \/ (q.w.mode \in Quotes /\ c = q.w.mode)
  PROVE  /\ Reaches(q, <<Escape>> \o Line(c), Spells(q.w, c), q.meant)
         /\ q.w.mode \in {"out", "bare"} =>
              Reaches(q, <<Escape, Cut>> \o Line(c), Spells(q.w, c), q.meant)
         /\ <<Escape>> \o Line(c) \in Text /\ <<Escape>> \o Line(c) # <<>>
         /\ <<Escape, Cut>> \o Line(c) \in Text
         /\ <<Escape, Cut>> \o Line(c) # <<>>
<1>. DEFINE b == Begins(q.w)
            e == Goes(b, q.meant, TRUE, FALSE)
            r == Goes(Spells(q.w, c), q.meant, FALSE, c = Newline)
<1>1. q.w.mode \in {"out"} \cup InWords /\ Naming(q)
  BY DEF InWords, Room
<1>2. /\ Spells(b, c) = Spells(q.w, c)
      /\ b.step = q.w.step /\ b.word = q.w.word
      /\ b.mode = IF q.w.mode = "out" THEN "bare" ELSE q.w.mode
  BY <1>1, SpelledTwice
<1>. HIDE DEF b
<1>3. /\ e.w = b /\ e.meant = q.meant /\ e.esc = TRUE /\ e.nl = FALSE /\ e.cut = FALSE
      /\ r.w = Spells(q.w, c) /\ r.meant = q.meant /\ r.esc = FALSE
      /\ r.nl = (c = Newline) /\ r.cut = FALSE
  BY DEF Goes
<1>. DEFINE z == [w |-> e.w, meant |-> e.meant, esc |-> e.esc, nl |-> FALSE,
                  cut |-> TRUE]
<1>4. z.w = b /\ z.meant = q.meant /\ z.esc = TRUE /\ z.nl = FALSE
  BY <1>3
<1>5. q.w.mode \in Quotes => b.mode = q.w.mode
  BY <1>2 DEF Quotes
<1>6. Follows(q, Escape, e)
  <2>1. Bares(q, Escape, e) \/ Quoting(q, Escape, e)
    BY <1>1 DEF b, Bares, Quoting
  <2>2. Escape \in Symbols
    BY SymbolFacts
  <2>. QED
    BY <2>1, <2>2 DEF Follows
<1>7. Escapes(e, c, r) /\ (q.w.mode \in {"out", "bare"} => Escapes(z, c, r))
  <2>1. Room(e) /\ Room(z)
    BY <1>2, <1>3, <1>4 DEF Room, Naming
  <2>2. b.mode \in Quotes => c = b.mode
    BY <1>2, <1>5 DEF Quotes
  <2>. QED
    BY <1>2, <1>3, <1>4, <2>1, <2>2 DEF Escapes
<1>8. Cuts(e, Cut, z) \/ q.w.mode \notin {"out", "bare"}
  BY <1>2, <1>3 DEF Cuts
<1>. HIDE DEF e, z, r
<1>9. e \in Point /\ Follows(e, c, r)
  BY <1>3, <1>6, <1>7, PointsFollow DEF Follows
<1>10. Reaches(e, Line(c), r.w, r.meant) /\ Line(c) \in Text /\ Line(c) # <<>>
  BY <1>3, <1>9, ReachesLine
<1>11. Leads(q, <<Escape>>, e) /\ <<Escape>> \in Text /\ <<Cut>> \in Text
  BY <1>6, <1>9, LeadsOne, SymbolFacts, SymbolTexts
<1>12. Reaches(q, <<Escape>> \o Line(c), r.w, r.meant)
  BY <1>10, <1>11, ReachesOn
<1>13. ASSUME q.w.mode \in {"out", "bare"}
       PROVE  Reaches(q, <<Escape, Cut>> \o Line(c), r.w, r.meant)
  <2>1. z \in Point /\ Follows(e, Cut, z) /\ Follows(z, c, r)
    BY <1>4, <1>7, <1>8, <1>9, <1>13, PointsFollow DEF Follows
  <2>2. Reaches(z, Line(c), r.w, r.meant)
    BY <1>3, <2>1, ReachesLine
  <2>3. Leads(e, <<Cut>>, z)
    BY <1>9, <2>1, LeadsOne
  <2>. DEFINE s == <<Escape>>
              t == <<Cut>>
  <2>5. s \o t = <<Escape, Cut>>
    BY OneAndOne
  <2>6. s \in Seq(Symbols \cup {Cut}) /\ t \in Seq(Symbols \cup {Cut})
        /\ Leads(q, s, e) /\ Leads(e, t, z)
    BY <1>11, <2>3 DEF Text
  <2>. HIDE DEF s, t
  <2>4. Leads(q, s \o t, z) /\ s \o t \in Text
    BY <2>6, LeadsOn DEF Text
  <2>. QED
    BY <1>10, <2>2, <2>4, <2>5, ReachesOn
<1>14. /\ <<Escape>> \o Line(c) \in Text /\ <<Escape>> \o Line(c) # <<>>
       /\ <<Escape, Cut>> \in Text
  BY <1>10, <1>11 DEF Text
<1>15. /\ <<Escape, Cut>> \o Line(c) \in Text /\ <<Escape, Cut>> \o Line(c) # <<>>
  BY <1>10, <1>14 DEF Text
<1>. QED
  BY <1>3, <1>12, <1>13, <1>14, <1>15

\* Characters of names and values.
LEMMA NameWritten ==
  ASSUME IInv, kind \in Files, Followed, slips = 0,
         WriteBareChar \/ WriteQuotedChar
  PROVE  Followed'
<1>1. PICK c, s :
        /\ c \in kind.chars /\ WriteAs(c, s)
        /\ \/ /\ writer.mode \in {"out", "bare"}
              /\ \/ /\ c \notin Special /\ s = <<c>>
                    /\ c \in {"#", "["} => ~(writer.mode = "out" /\ writer.fresh)
                 \/ s = <<Escape>> \o Line(c)
                 \/ s = <<Escape, Cut>> \o Line(c)
           \/ /\ writer.mode \in Quotes
              /\ s = IF c = writer.mode THEN <<Escape, c>> ELSE Line(c)
  BY DEF WriteBareChar, WriteQuotedChar
<1>2. /\ Writes(s) /\ UNCHANGED meant /\ writer' = Spells(writer, c)
      /\ InName /\ Len(writer.word) + 1 < BufSize
  BY <1>1 DEF WriteAs, Spells
<1>3. PICK p, q : Between(p, q)
  BY <1>2, WriterKnows
<1>4. c \in Symbols /\ Room(q) /\ q \in Point /\ q.w = writer /\ q.meant = meant
      /\ ~q.esc /\ ~q.nl
  BY <1>1, <1>2, <1>3, AtWriter, CharsAreSymbols DEF InName, Room, Naming
<1>5. CASE /\ writer.mode \in {"out", "bare"} /\ c \notin Special /\ s = <<c>>
           /\ c \in {"#", "["} => ~(writer.mode = "out" /\ writer.fresh)
  <2>1. Bares(q, c, Goes(writer', meant', FALSE, FALSE))
    BY <1>2, <1>4, <1>5 DEF Bares
  <2>2. Line(c) = <<c>> /\ FALSE = (c = Newline)
    BY <1>5, LineIs, SymbolFacts
  <2>. QED
    BY <1>2, <1>3, <1>4, <1>5, <2>1, <2>2, OneWritten
<1>6. CASE /\ writer.mode \in {"out", "bare"}
           /\ s = <<Escape>> \o Line(c) \/ s = <<Escape, Cut>> \o Line(c)
  <2>1. Reaches(q, s, writer', meant') /\ s \in Text /\ s # <<>>
    BY <1>2, <1>4, <1>6, EscapedReaches
  <2>. QED
    BY <1>2, <1>3, <2>1, Written
<1>7. CASE writer.mode \in Quotes /\ c # writer.mode /\ s = Line(c)
  <2>1. Quoting(q, c, Goes(writer', meant', FALSE, c = Newline))
    BY <1>2, <1>4, <1>7 DEF Quoting
  <2>. QED
    BY <1>2, <1>3, <1>4, <1>7, <2>1, OneWritten
<1>8. CASE writer.mode \in Quotes /\ c = writer.mode /\ s = <<Escape, c>>
  <2>1. s = <<Escape>> \o Line(c)
    BY <1>8, LineIs, OneAndOne
  <2>2. Reaches(q, s, writer', meant') /\ s \in Text /\ s # <<>>
    BY <1>2, <1>4, <1>8, <2>1, EscapedReaches
  <2>. QED
    BY <1>2, <1>3, <2>2, Written
<1>. QED
  BY <1>1, <1>5, <1>6, <1>7, <1>8

\* A line that is too long.
LEMMA CutWritten ==
  ASSUME IInv, Followed, slips = 0, WriteLongLine
  PROVE  Followed'
<1>1. /\ writer.mode \in InWords /\ Writes(<<Cut>>)
      /\ UNCHANGED <<writer, meant>>
  BY DEF WriteLongLine, InWords, fileVars
<1>2. PICK p, q : Between(p, q)
  BY <1>1, WriterKnows
<1>3. Head(<<Cut>>) = Cut /\ <<Cut>>[Len(<<Cut>>)] = Cut /\ <<Cut>> # <<>>
      /\ <<Cut>> \in Text
  BY DEF Text
<1>4. q \in Point /\ q.w = writer /\ q.meant = meant /\ q.esc = FALSE
      /\ q.nl = FALSE /\ ~q.cut
  BY <1>1, <1>2, <1>3, AtWriter, WriterKnows
<1>. DEFINE r == [w |-> q.w, meant |-> q.meant, esc |-> q.esc, nl |-> FALSE,
                  cut |-> TRUE]
<1>5. r.w = writer /\ r.meant = meant /\ r.esc = FALSE /\ r.nl = FALSE
  BY <1>4
<1>6. Follows(q, Cut, r)
  BY <1>1, <1>4 DEF Follows, Cuts, InWords
<1>. HIDE DEF r
<1>7. Leads(q, <<Cut>>, r)
  BY <1>4, <1>6, LeadsOne, PointsFollow
<1>8. Reaches(q, <<Cut>>, writer', meant')
  BY <1>1, <1>3, <1>5, <1>7 DEF Reaches
<1>. QED
  BY <1>1, <1>2, <1>3, <1>8, Written

\* The end of the file.
LEMMA EndWritten ==
  ASSUME IInv, Followed, EndFile
  PROVE  Followed'
<1>1. /\ at \notin Ended \cup {"closed"} /\ ~complete /\ complete' = TRUE
      /\ UNCHANGED <<text, parser, writer, meant>>
  BY DEF EndFile, Finish, fileVars
<1>2. PICK p, q : Between(p, q)
  BY <1>1 DEF Followed
<1>3. text' = text \o <<>> /\ <<>> \in Text
  BY <1>1 DEF IInv, TypeOK, Text
<1>4. Place(p)'
  BY <1>1, <1>2, <1>3, PlaceKept DEF Between
<1>5. Between(p, q)'
  BY <1>1, <1>2, <1>4 DEF Between, Ends
<1>6. at' = at
  BY <1>1 DEF parser
<1>. QED
  BY <1>1, <1>5, <1>6 DEF Followed

\* Whatever the writer does.
LEMMA WriterStep ==
  ASSUME IInv, Understood, WriteFile
  PROVE  Understood'
<1>0. kind' = kind
  BY KindKept DEF FileNext
<1>1. CASE Slip
  BY <1>0, <1>1 DEF Slip, Understood
<1>2. CASE WriteFile /\ ~Slip
  <2>1. UNCHANGED slips
    BY <1>2 DEF WriteFile, WriteBlank, WriteComment, WriteSection, WriteBareChar,
                WriteQuotedChar, WriteAs, WriteQuote, WriteProperty, WriteLongLine,
                WritePunctuation, EndFile, fileVars
  <2>2. ASSUME Followed, slips = 0 PROVE Followed'
    BY <1>2, <2>2, BlankWritten, MarkWritten, NameWritten, CutWritten, EndWritten
       DEF WriteFile, Understood
  <2>. QED
    BY <1>0, <2>1, <2>2 DEF Understood
<1>. QED
  BY <1>1, <1>2

-----------------------------------------------------------------------------
(* What a symbol says at each kind of point.                               *)

\* The same as far as parseActions is concerned.
Same(r, w) == r.w.step = w.step /\ r.w.action = w.action /\ r.w.prop = w.prop

BlankRead(p, c, r) ==
  /\ c \in White /\ Closes(p.w)
  /\ r.w.mode = "out" /\ (r.w.fresh <=> c = Newline \/ p.w.fresh)
  /\ Same(r, Closed(p.w)) /\ r.meant = p.meant /\ (r.nl <=> c = Newline)

CommentBegun(p, c, r) ==
  /\ c = "#" /\ p.w.mode = "out" /\ p.w.fresh
  /\ r.w.mode = "comment" /\ Same(r, p.w) /\ r.meant = p.meant

TitleBegun(p, c, r) ==
  /\ c = "[" /\ p.w.mode = "out" /\ p.w.fresh /\ p.w.step = "START"
  /\ r.w.mode = "title" /\ r.w.word = <<>> /\ Same(r, p.w) /\ r.meant = p.meant

MarkRead(p, c, r) ==
  /\ Closes(p.w) /\ r.w.mode = "out" /\ ~r.w.fresh /\ ~r.nl
  /\ r.w.prop = Closed(p.w).prop
  /\ LET k == Closed(p.w) IN
     \/ /\ c = "=" /\ k.step = "NAME" /\ r.w.step = "NAME_EQUALS"
        /\ r.w.action = k.action /\ r.meant = p.meant
     \/ /\ c = "=" /\ k.step = "BLOCK_NAME" /\ r.w.step = "BLOCK_VALUE"
        /\ r.w.action = k.action /\ r.meant = p.meant
     \/ /\ c = "{" /\ k.step = "NAME_EQUALS" /\ r.w.step = "BLOCK"
        /\ r.w.action = k.action /\ r.meant = p.meant
     \/ /\ c = "}" /\ k.step = "BLOCK" /\ r.w.step = "START"
        /\ k.action.pattern # None /\ k.action.command # None
        /\ r.w.action = NoAction
        /\ r.meant = [p.meant EXCEPT ![Len(p.meant)].actions =
                        Append(@, k.action)]

WordRead(p, c, r) ==
  /\ ~(p.w.mode = "out" /\ p.w.fresh /\ c \in {"#", "["}) /\ p.meant # <<>>
  /\ p.w.step \in {"START", "BLOCK", "BLOCK_VALUE"}
  /\ Same(r, p.w) /\ r.meant = p.meant
  /\ \/ /\ c = Escape /\ r.w.mode = "bare" /\ r.w.word = p.w.word /\ r.esc = TRUE
     \/ /\ c \in Quotes /\ r.w.mode = c /\ r.w.word = p.w.word /\ r.esc = FALSE
     \/ /\ c \notin Special /\ r.w.mode = "bare"
        /\ r.w.word = Append(p.w.word, c) /\ r.esc = FALSE

\* What is known of Begins and Spells, field by field.
LEMMA SpelledFields ==
  ASSUME NEW p \in Point, Naming(p), p.w.mode \in {"out"} \cup InWords,
         NEW c \in Symbols
  PROVE  /\ LET b == Begins(p.w) IN
              /\ b.step = p.w.step /\ b.action = p.w.action /\ b.prop = p.w.prop
              /\ b.word = p.w.word
              /\ b.mode = IF p.w.mode = "out" THEN "bare" ELSE p.w.mode
         /\ LET s == Spells(p.w, c) IN
              /\ s.step = p.w.step /\ s.action = p.w.action /\ s.prop = p.w.prop
              /\ s.word = Append(p.w.word, c)
              /\ s.mode = IF p.w.mode = "out" THEN "bare" ELSE p.w.mode
<1>. DEFINE w == p.w
<1>1. w \in WriterType
  BY DEF Point, PointType
<1>. HIDE DEF w
<1>2. LET b == Begins(w) IN
        /\ b.step = w.step /\ b.action = w.action /\ b.prop = w.prop
        /\ b.word = w.word
        /\ b.mode = IF w.mode = "out" THEN "bare" ELSE w.mode
  BY <1>1 DEF Begins, WriterType
<1>3. LET s == Spells(w, c) IN
        /\ s.step = w.step /\ s.action = w.action /\ s.prop = w.prop
        /\ s.word = Append(w.word, c)
        /\ s.mode = IF w.mode = "out" THEN "bare" ELSE w.mode
  BY <1>1 DEF Spells, WriterType
<1>. QED
  BY <1>2, <1>3 DEF w

\* Out of words and in bare ones.
LEMMA PlainFollows ==
  ASSUME NEW p \in Point, p.w.mode \in {"out", "bare"}, ~p.esc, ~p.nl,
         NEW c, c # Cut, NEW r, Follows(p, c, r)
  PROVE  /\ c \in Symbols
         /\ \/ BlankRead(p, c, r) \/ CommentBegun(p, c, r)
            \/ TitleBegun(p, c, r) \/ MarkRead(p, c, r) \/ WordRead(p, c, r)
<1>. DEFINE w == p.w
            k == Closed(p.w)
<1>1. w \in WriterType /\ Sound(p)
  BY DEF Point, PointType
<1>2. c \in Symbols /\
      \/ Blanks(p, c, r) \/ Comments(p, c, r) \/ Titles(p, c, r)
      \/ Punctuates(p, c, r)
      \/ Properties(p, c, r) \/ Bares(p, c, r) \/ Quoting(p, c, r)
  BY DEF Follows, Cuts
<1>3. ASSUME NEW v, NEW m, NEW e, NEW n, r = Goes(v, m, e, n)
      PROVE  r.w = v /\ r.meant = m /\ r.esc = e /\ r.nl = n
  BY <1>3 DEF Goes
<1>4. w.mode \notin Quotes /\ w.mode \notin {"comment", "title"}
  BY DEF Quotes
<1>5. CASE Blanks(p, c, r)
  <2>. DEFINE f == c = Newline \/ w.fresh
              v == [k EXCEPT !.fresh = f]
  <2>1. k \in WriterType /\ k.mode = "out"
    BY <1>5, ClosedFacts DEF Blanks
  <2>2. r = Goes(v, p.meant, FALSE, c = Newline) /\ c \in White /\ Closes(p.w)
    BY <1>5 DEF Blanks
  <2>. HIDE DEF k, f
  <2>3. v.mode = "out" /\ v.fresh = f /\ v.step = k.step /\ v.action = k.action
        /\ v.prop = k.prop
    BY <2>1 DEF WriterType
  <2>. HIDE DEF v
  <2>4. r.w = v /\ r.meant = p.meant /\ r.nl = (c = Newline)
    BY <1>3, <2>2
  <2>. QED
    BY <1>2, <2>2, <2>3, <2>4 DEF BlankRead, Same, k, f
<1>6. CASE Comments(p, c, r)
  <2>. DEFINE v == [w EXCEPT !.mode = "comment"]
  <2>1. w.mode = "out" /\ w.fresh /\ c = "#" /\ r = Goes(v, p.meant, FALSE, FALSE)
    BY <1>4, <1>6 DEF Comments
  <2>2. v.mode = "comment" /\ v.step = w.step /\ v.action = w.action
        /\ v.prop = w.prop
    BY <1>1 DEF WriterType
  <2>. HIDE DEF v
  <2>3. r.w = v /\ r.meant = p.meant
    BY <1>3, <2>1
  <2>. QED
    BY <1>2, <2>1, <2>2, <2>3 DEF CommentBegun, Same
<1>7. CASE Titles(p, c, r)
  <2>. DEFINE v == [w EXCEPT !.mode = "title"]
  <2>1. w.mode = "out" /\ w.fresh /\ w.step = "START" /\ c = "["
        /\ r = Goes(v, p.meant, FALSE, FALSE)
    BY <1>4, <1>7 DEF Titles
  <2>2. v.mode = "title" /\ v.step = w.step /\ v.action = w.action
        /\ v.prop = w.prop /\ v.word = w.word
    BY <1>1 DEF WriterType
  <2>. HIDE DEF v
  <2>3. r.w = v /\ r.meant = p.meant /\ w.word = <<>>
    BY <1>1, <1>3, <2>1 DEF Sound
  <2>. QED
    BY <1>2, <2>1, <2>2, <2>3 DEF TitleBegun, Same
<1>8. CASE Punctuates(p, c, r)
  <2>1. k \in WriterType /\ k.mode = "out" /\ ~k.fresh /\ Closes(p.w)
    BY <1>8, ClosedFacts DEF Punctuates
  <2>2. \/ /\ c = "=" /\ k.step \in {"NAME", "BLOCK_NAME"}
           /\ r = Goes([k EXCEPT !.step = IF @ = "NAME" THEN "NAME_EQUALS"
                                                        ELSE "BLOCK_VALUE"],
                       p.meant, FALSE, FALSE)
        \/ /\ c = "{" /\ k.step = "NAME_EQUALS"
           /\ r = Goes([k EXCEPT !.step = "BLOCK"], p.meant, FALSE, FALSE)
        \/ /\ c = "}" /\ k.step = "BLOCK"
           /\ None \notin {k.action.pattern, k.action.command}
           /\ r = Goes([k EXCEPT !.step = "START", !.action = NoAction],
                       [p.meant EXCEPT ![Len(p.meant)].actions =
                          Append(@, k.action)],
                       FALSE, FALSE)
    BY <1>8 DEF Punctuates
  <2>3. k = Closed(p.w)
    OBVIOUS
  <2>. HIDE DEF k
  <2>4. CASE c = "=" /\ k.step \in {"NAME", "BLOCK_NAME"}
    <3>. DEFINE st == IF k.step = "NAME" THEN "NAME_EQUALS" ELSE "BLOCK_VALUE"
                v == [k EXCEPT !.step = st]
    <3>1. r = Goes(v, p.meant, FALSE, FALSE)
      BY <2>1, <2>2, <2>4 DEF WriterType
    <3>. HIDE DEF st
    <3>2. v.mode = "out" /\ ~v.fresh /\ v.step = st /\ v.action = k.action
          /\ v.prop = k.prop
      BY <2>1 DEF WriterType
    <3>. HIDE DEF v
    <3>3. r.w = v /\ r.meant = p.meant /\ r.nl = FALSE
      BY <1>3, <3>1
    <3>. QED
      BY <1>2, <2>1, <2>3, <2>4, <3>2, <3>3 DEF MarkRead, st
  <2>5. CASE c = "{" /\ k.step = "NAME_EQUALS"
    <3>. DEFINE v == [k EXCEPT !.step = "BLOCK"]
    <3>1. r = Goes(v, p.meant, FALSE, FALSE)
      BY <2>2, <2>5
    <3>2. v.mode = "out" /\ ~v.fresh /\ v.step = "BLOCK" /\ v.action = k.action
          /\ v.prop = k.prop
      BY <2>1 DEF WriterType
    <3>. HIDE DEF v
    <3>3. r.w = v /\ r.meant = p.meant /\ r.nl = FALSE
      BY <1>3, <3>1
    <3>. QED
      BY <1>2, <2>1, <2>3, <2>5, <3>2, <3>3 DEF MarkRead
  <2>6. CASE c = "}" /\ k.step = "BLOCK"
    <3>. DEFINE v == [k EXCEPT !.step = "START", !.action = NoAction]
                m == [p.meant EXCEPT ![Len(p.meant)].actions =
                        Append(@, k.action)]
    <3>1. r = Goes(v, m, FALSE, FALSE)
          /\ k.action.pattern # None /\ k.action.command # None
      BY <2>2, <2>6
    <3>2. v.mode = "out" /\ ~v.fresh /\ v.step = "START" /\ v.action = NoAction
          /\ v.prop = k.prop
      BY <2>1 DEF WriterType
    <3>. HIDE DEF v
    <3>3. r.w = v /\ r.meant = m /\ r.nl = FALSE
      BY <1>3, <3>1
    <3>. QED
      BY <1>2, <2>1, <2>3, <2>6, <3>1, <3>2, <3>3 DEF MarkRead
  <2>. QED
    BY <2>2, <2>4, <2>5, <2>6
<1>9. CASE Properties(p, c, r)
  <2>. DEFINE v == [w EXCEPT !.mode = "bare", !.fresh = FALSE, !.word = <<c>>]
  <2>1. /\ w.mode = "out" /\ w.step = "BLOCK" /\ c \in {Pattern, Command}
        /\ r = Goes(v, p.meant, FALSE, FALSE)
    BY <1>9 DEF Properties
  <2>2. v.mode = "bare" /\ v.word = <<c>> /\ v.step = w.step
        /\ v.action = w.action /\ v.prop = w.prop
    BY <1>1 DEF WriterType
  <2>. HIDE DEF v
  <2>3. r.w = v /\ r.meant = p.meant /\ r.esc = FALSE
    BY <1>3, <2>1
  <2>4. w.word = <<>> /\ p.meant # <<>>
    BY <1>1, <2>1 DEF Sound
  <2>5. <<c>> = Append(<<>>, c)
    OBVIOUS
  <2>6. c \notin {"#", "["} /\ c \notin Special
    BY <2>1 DEF Pattern, Command, Special, Escape, Quotes, White, Newline
  <2>. QED
    BY <1>2, <2>1, <2>2, <2>3, <2>4, <2>5, <2>6 DEF WordRead, Same
<1>10. CASE Bares(p, c, r)
  <2>1. Naming(p)
    BY <1>10 DEF Bares, Room
  <2>2. w.mode \in {"out"} \cup InWords
    BY DEF InWords
  <2>3. CASE c = Escape /\ r = Goes(Begins(w), p.meant, TRUE, FALSE)
    <3>1. r.w = Begins(w) /\ r.meant = p.meant /\ r.esc = TRUE
      BY <1>3, <2>3
    <3>2. Escape \notin {"#", "["}
      BY DEF Escape
    <3>3. /\ r.w.mode = "bare" /\ r.w.word = w.word /\ Same(r, w)
      BY <1>2, <2>1, <2>2, <3>1, SpelledFields DEF Same
    <3>. QED
      BY <1>2, <2>1, <2>3, <3>1, <3>2, <3>3 DEF WordRead, Naming
  <2>4. CASE /\ c \notin Special /\ r = Goes(Spells(w, c), p.meant, FALSE, FALSE)
             /\ c \in {"#", "["} => ~(w.mode = "out" /\ w.fresh)
    <3>1. r.w = Spells(w, c) /\ r.meant = p.meant /\ r.esc = FALSE
      BY <1>3, <2>4
    <3>2. /\ r.w.mode = "bare" /\ r.w.word = Append(w.word, c) /\ Same(r, w)
      BY <1>2, <2>1, <2>2, <3>1, SpelledFields DEF Same
    <3>. QED
      BY <1>2, <2>1, <2>4, <3>1, <3>2 DEF WordRead, Naming
  <2>. QED
    BY <1>10, <2>3, <2>4 DEF Bares
<1>11. CASE Quoting(p, c, r)
  <2>. DEFINE v == [w EXCEPT !.mode = c, !.fresh = FALSE]
  <2>1. Naming(p) /\ c \in Quotes /\ r = Goes(v, p.meant, FALSE, FALSE)
    BY <1>4, <1>11 DEF Quoting
  <2>2. v.mode = c /\ v.step = w.step /\ v.action = w.action
        /\ v.prop = w.prop /\ v.word = w.word
    BY <1>1 DEF WriterType
  <2>. HIDE DEF v
  <2>3. r.w = v /\ r.meant = p.meant /\ r.esc = FALSE
    BY <1>3, <2>1
  <2>4. c \notin {"#", "["}
    BY <2>1 DEF Quotes
  <2>. QED
    BY <1>2, <2>1, <2>2, <2>3, <2>4 DEF WordRead, Same, Naming
<1>. QED
  BY <1>2, <1>5, <1>6, <1>7, <1>8, <1>9, <1>10, <1>11

QuoteRead(p, c, r) ==
  \/ /\ c # p.w.mode /\ r.w.mode = p.w.mode /\ r.esc = FALSE
     /\ r.w.word = Append(p.w.word, c) /\ (r.nl <=> c = Newline)
  \/ /\ c = Escape /\ r.w.mode = p.w.mode /\ r.w.word = p.w.word
     /\ r.esc = TRUE /\ r.nl = FALSE
  \/ /\ c = p.w.mode /\ r.w.mode = "bare" /\ r.w.word = p.w.word
     /\ p.w.word # <<>> => p.w.word[Len(p.w.word)] # Escape
     /\ r.esc = FALSE

\* In a quote.
LEMMA QuotedFollows ==
  ASSUME NEW p \in Point, p.w.mode \in Quotes, ~p.esc, ~p.nl,
         NEW c, c # Cut, NEW r, Follows(p, c, r)
  PROVE  /\ Same(r, p.w) /\ r.meant = p.meant /\ c \in Symbols
         /\ QuoteRead(p, c, r)
<1>. DEFINE w == p.w
<1>1. w \in WriterType /\ Sound(p)
  BY DEF Point, PointType
<1>2. w.mode \notin {"out", "bare", "comment", "title"} /\ w.mode \in InWords
  BY DEF Quotes, InWords
<1>3. Naming(p)
  BY <1>1, <1>2 DEF Sound, Naming
<1>4. c \in Symbols /\ Quoting(p, c, r)
  BY <1>2 DEF Follows, Cuts, Blanks, Comments, Titles, Punctuates, Properties,
              Bares, Closes
<1>5. ASSUME NEW v, NEW e, NEW n, r = Goes(v, p.meant, e, n)
      PROVE  r.w = v /\ r.meant = p.meant /\ r.esc = e /\ r.nl = n
  BY <1>5 DEF Goes
<1>6. CASE c # w.mode /\ r = Goes(Spells(w, c), p.meant, FALSE, c = Newline)
  <2>1. /\ r.w = Spells(w, c) /\ r.meant = p.meant /\ r.esc = FALSE
        /\ r.nl = (c = Newline)
    BY <1>5, <1>6
  <2>2. LET s == Spells(w, c) IN
          /\ s.step = w.step /\ s.action = w.action /\ s.prop = w.prop
          /\ s.word = Append(w.word, c) /\ s.mode = w.mode
    BY <1>2, <1>3, <1>4, SpelledFields
  <2>. HIDE DEF w
  <2>. QED
    BY <1>4, <1>6, <2>1, <2>2 DEF Same, QuoteRead, w
<1>7. CASE c = Escape /\ r = Goes(Begins(w), p.meant, TRUE, FALSE)
  <2>1. /\ r.w = Begins(w) /\ r.meant = p.meant /\ r.esc = TRUE /\ r.nl = FALSE
    BY <1>5, <1>7
  <2>. QED
    BY <1>2, <1>3, <1>4, <1>7, <2>1, SpelledFields DEF Same, QuoteRead
<1>8. CASE /\ c = w.mode
           /\ w.word # <<>> => w.word[Len(w.word)] # Escape
           /\ r = Goes([w EXCEPT !.mode = "bare"], p.meant, FALSE, FALSE)
  <2>. DEFINE v == [w EXCEPT !.mode = "bare"]
  <2>1. r.w = v /\ r.meant = p.meant /\ r.esc = FALSE
    BY <1>5, <1>8
  <2>2. v.mode = "bare" /\ v.step = w.step /\ v.action = w.action
        /\ v.prop = w.prop /\ v.word = w.word
    BY <1>1 DEF WriterType
  <2>3. Same(r, p.w) /\ r.w.mode = "bare" /\ r.w.word = p.w.word
    BY <2>1, <2>2 DEF Same
  <2>. HIDE DEF v
  <2>. QED
    BY <1>4, <1>8, <2>1, <2>3 DEF QuoteRead
<1>. QED
  BY <1>2, <1>4, <1>6, <1>7, <1>8 DEF Quoting

\* After a backslash.
LEMMA EscapedFollows ==
  ASSUME NEW p \in Point, p.esc, NEW c, c # Cut, NEW r, Follows(p, c, r)
  PROVE  /\ Same(r, p.w) /\ r.meant = p.meant /\ c \in Symbols
         /\ p.w.mode \in InWords /\ r.w.mode = p.w.mode /\ r.esc = FALSE
         /\ r.w.word = Append(p.w.word, c)
         /\ p.w.mode \in Quotes => c = p.w.mode
<1>1. p.w.mode \in InWords
  BY DEF Point, Sound
<1>2. p.w.mode # "out"
  BY <1>1 DEF InWords, Quotes
<1>3. c \in Symbols /\ Escapes(p, c, r)
  BY DEF Follows, Cuts
<1>4. /\ r.w = Spells(p.w, c) /\ r.meant = p.meant /\ r.esc = FALSE
  BY <1>3 DEF Escapes, Goes
<1>5. Naming(p) /\ (p.w.mode \in Quotes => c = p.w.mode)
  BY <1>3 DEF Escapes, Room
<1>6. LET s == Spells(p.w, c) IN
        /\ s.step = p.w.step /\ s.action = p.w.action /\ s.prop = p.w.prop
        /\ s.word = Append(p.w.word, c) /\ s.mode = p.w.mode
  BY <1>1, <1>2, <1>3, <1>5, SpelledFields
<1>. QED
  BY <1>1, <1>3, <1>4, <1>5, <1>6 DEF Same

CommentRead(p, c, r) ==
  \/ c # Newline /\ r.w.mode = "comment" /\ r.meant = p.meant
  \/ c = Newline /\ r.w.mode = "out" /\ r.nl = TRUE /\ r.meant = p.meant

TitleRead(p, c, r) ==
  \/ /\ c # "]" /\ r.w.mode = "title" /\ r.w.word = Append(p.w.word, c)
     /\ r.meant = p.meant
  \/ /\ c = "]" /\ r.w.mode = "comment"
     /\ r.meant = Append(p.meant, [name |-> p.w.word, actions |-> <<>>])

\* In a comment, and in the title of a section.
LEMMA BesideFollows ==
  ASSUME NEW p \in Point, p.w.mode \in {"comment", "title"},
         NEW c, NEW r, Follows(p, c, r)
  PROVE  /\ c \in Symbols /\ Same(r, p.w)
         /\ p.w.mode = "comment" => CommentRead(p, c, r)
         /\ p.w.mode = "title" => TitleRead(p, c, r)
<1>. DEFINE w == p.w
<1>1. w \in WriterType /\ Sound(p)
  BY DEF Point, PointType
<1>2. w.mode \notin {"out"} \cup InWords /\ w.mode # "bare" /\ w.mode \notin Quotes
  BY DEF InWords, Quotes
<1>3. ~p.esc /\ ~p.nl
  BY <1>1, <1>2 DEF Sound
<1>4. c \in Symbols /\ (Comments(p, c, r) \/ Titles(p, c, r))
  BY <1>2, <1>3 DEF Follows, Cuts, Blanks, Punctuates, Properties, Bares,
                    Quoting, Closes
<1>5. ASSUME NEW v, NEW m, NEW n, r = Goes(v, m, FALSE, n)
      PROVE  r.w = v /\ r.meant = m /\ r.nl = n
  BY <1>5 DEF Goes
<1>6. CASE w.mode = "comment" /\ c # Newline
             /\ r = Goes(w, p.meant, FALSE, FALSE)
  BY <1>4, <1>5, <1>6 DEF Same, CommentRead
<1>7. CASE w.mode = "comment" /\ c = Newline
             /\ r = Goes([w EXCEPT !.mode = "out", !.fresh = TRUE],
                         p.meant, FALSE, TRUE)
  <2>. DEFINE v == [w EXCEPT !.mode = "out", !.fresh = TRUE]
  <2>1. v.mode = "out" /\ v.step = w.step /\ v.action = w.action /\ v.prop = w.prop
    BY <1>1 DEF WriterType
  <2>2. r.w = v /\ r.meant = p.meant /\ r.nl = TRUE
    BY <1>5, <1>7
  <2>. HIDE DEF v
  <2>. QED
    BY <1>4, <1>7, <2>1, <2>2 DEF Same, CommentRead
<1>8. CASE w.mode = "title" /\ c # "]"
             /\ r = Goes([w EXCEPT !.word = Append(@, c), !.chars = @ + 1],
                         p.meant, FALSE, FALSE)
  <2>. DEFINE v == [w EXCEPT !.word = Append(@, c), !.chars = @ + 1]
  <2>1. v.mode = w.mode /\ v.step = w.step /\ v.action = w.action
        /\ v.prop = w.prop /\ v.word = Append(w.word, c)
    BY <1>1 DEF WriterType
  <2>2. r.w = v /\ r.meant = p.meant
    BY <1>5, <1>8
  <2>. HIDE DEF v
  <2>. QED
    BY <1>4, <1>8, <2>1, <2>2 DEF Same, TitleRead
<1>9. CASE w.mode = "title" /\ c = "]"
             /\ r = Goes([w EXCEPT !.mode = "comment", !.word = <<>>],
                         Append(p.meant, [name |-> w.word, actions |-> <<>>]),
                         FALSE, FALSE)
  <2>. DEFINE v == [w EXCEPT !.mode = "comment", !.word = <<>>]
              m == Append(p.meant, [name |-> w.word, actions |-> <<>>])
  <2>1. v.mode = "comment" /\ v.step = w.step /\ v.action = w.action
        /\ v.prop = w.prop
    BY <1>1 DEF WriterType
  <2>2. r.w = v /\ r.meant = m
    BY <1>5, <1>9
  <2>. HIDE DEF v
  <2>. QED
    BY <1>4, <1>9, <2>1, <2>2 DEF Same, TitleRead
<1>. QED
  BY <1>2, <1>4, <1>6, <1>7, <1>8, <1>9 DEF Comments, Titles

\* At the end of a buffer.
LEMMA CutFollows ==
  ASSUME NEW p \in Point, NEW r, Follows(p, Cut, r)
  PROVE  /\ ~p.cut
         /\ p.nl \/ p.w.mode \in InWords
         /\ r.w = p.w /\ r.meant = p.meant /\ r.esc = p.esc /\ r.nl = FALSE
         /\ r.cut = TRUE
<1>1. Cuts(p, Cut, r)
  BY SymbolFacts DEF Follows
<1>. QED
  BY <1>1 DEF Cuts, InWords

\* After a newline comes the end of the buffer.
LEMMA NewlineFollows ==
  ASSUME NEW p \in Point, p.nl, NEW c, NEW r, Follows(p, c, r)
  PROVE  c = Cut
  BY DEF Follows, Cuts

-----------------------------------------------------------------------------
(* Whatever the parser does, it is at a point.                             *)

\* Where the parser is, and what it reads next.
LEMMA AtParser ==
  ASSUME IInv, NEW p, NEW q, Between(p, q)
  PROVE  /\ p \in Point /\ q \in Point /\ Sound(p) /\ config = p.meant
         /\ p.w \in WriterType /\ p.esc \in BOOLEAN /\ p.nl \in BOOLEAN
         /\ Ready /\ text = <<>> => p = q /\ complete
         /\ text = <<>> => p = q /\ ~p.nl /\ ~p.esc
         /\ text # <<>> =>
              \E r \in Point : Follows(p, Head(text), r) /\ Leads(r, Tail(text), q)
<1>1. text \in Seq(Symbols \cup {Cut}) /\ Leads(p, text, q)
  BY DEF IInv, TypeOK, Between
<1>2. p \in Point /\ q \in Point
  BY <1>1, LeadsPoints
<1>3. text = <<>> => p = q
  BY <1>1, LeadsNowhere
<1>4. text # <<>> =>
        \E r \in Point : Follows(p, Head(text), r) /\ Leads(r, Tail(text), q)
  BY <1>1, LeadsFrom
<1>5. Ready /\ text = <<>> => complete
  BY DEF Ready
<1>. QED
  BY <1>2, <1>3, <1>4, <1>5 DEF Between, Place, Ends, Point, PointType

\* The parser reads nothing.
LEMMA Stays ==
  ASSUME IInv, NEW p, NEW q, Between(p, q),
         UNCHANGED <<text, complete, fileVars>>,
         at' \notin Ended \cup {"closed"}, Place(p)'
  PROVE  Followed'
<1>1. Between(p, q)'
  BY DEF Between, Ends, fileVars
<1>. QED
  BY <1>1 DEF Followed

\* The parser reads a symbol.
LEMMA GoesOn ==
  ASSUME IInv, NEW p, NEW q, NEW r, Between(p, q), Leads(r, Tail(text), q),
         text # <<>>, text' = Tail(text), UNCHANGED <<complete, fileVars>>,
         at' \notin Ended \cup {"closed"}, Place(r)'
  PROVE  Followed'
<1>1. text' # <<>> => text'[Len(text')] = text[Len(text)]
  BY DEF IInv, TypeOK
<1>2. Between(r, q)'
  BY <1>1 DEF Between, Ends, fileVars
<1>. QED
  BY <1>2 DEF Followed

\* The parser ends.
LEMMA Judged ==
  ASSUME at' \in Ended, Verdict'
  PROVE  Followed'
  BY DEF Followed, Ended

\* Which symbol is which, as strings.
LEMMA SymbolNames ==
  /\ White = {" ", "newline"} /\ Newline = "newline" /\ Cut = "cut"
  /\ Escape = "escape" /\ Quotes = {"quote", "dblquote"}
  /\ Special = {"escape", "=", "{", "}", "quote", "dblquote", " ", "newline"}
  /\ Pattern = "pattern" /\ Command = "command"
  BY DEF White, Newline, Cut, Escape, Quotes, Special, Pattern, Command

\* The places where the parser may be while it has not ended.
LEMMA AtLine ==
  ASSUME IInv, NEW p, NEW q, Between(p, q), at \in {"closed", "line"}
  PROVE  \/ /\ p.w.mode = "out" /\ NoWord /\ Holds(p.w) /\ ~p.nl /\ p.w.fresh
            /\ ~needFullLine
         \/ /\ p.w.mode \in InWords /\ Inside(p) /\ needFullLine /\ p.cut
            /\ at = "line"
         \/ Over(p)
<1>1. Place(p)
  BY DEF Between
<1>. QED
  BY <1>1 DEF Place, Outside, Inside, Past, Beside

\* The steps of nextLine that stay where they are in the text.
LEMMA LineStays ==
  ASSUME IInv, Followed, UNCHANGED fileVars,
         Open \/ EndOfFile \/ FullLine \/ IgnoredLine \/ ActionsLine
  PROVE  Followed'
<1>1. at \in {"closed", "line"} /\ at \notin Ended
  BY DEF Open, EndOfFile, FullLine, IgnoredLine, ActionsLine, Ended
<1>2. PICK p, q : Between(p, q)
  BY <1>1 DEF Followed
<1>3. /\ p \in Point /\ Sound(p) /\ config = p.meant /\ p.esc \in BOOLEAN
      /\ p.w \in WriterType
      /\ text = <<>> => p = q /\ ~p.nl /\ ~p.esc
      /\ text # <<>> =>
           \E r \in Point : Follows(p, Head(text), r) /\ Leads(r, Tail(text), q)
  BY <1>2, AtParser
<1>4. \/ /\ p.w.mode = "out" /\ NoWord /\ Holds(p.w) /\ ~p.nl /\ p.w.fresh
         /\ ~needFullLine
      \/ /\ p.w.mode \in InWords /\ Inside(p) /\ needFullLine /\ p.cut
         /\ at = "line"
      \/ Over(p)
  BY <1>1, <1>2, AtLine
<1>5. text # <<>> /\ ~needFullLine =>
        p.w.mode = "out" /\ NoWord /\ Holds(p.w) /\ ~p.nl /\ p.w.fresh /\ ~p.esc
  BY <1>3, <1>4 DEF Over, Sound, InWords, Quotes
<1>6. CASE Open
  <2>1. at = "closed" /\ text = <<>> /\ ~complete /\ meant = <<>>
    BY <1>6 DEF Open, Followed
  <2>2. CASE /\ at' = "line"
             /\ UNCHANGED <<source, blocks, words, needFullLine, title, config>>
    <3>1. Place(p)'
      BY <1>3, <1>4, <2>1, <2>2
         DEF Place, Outside, Holds, NoWord, Over, blocks, words
    <3>. QED
      BY <1>2, <2>2, <3>1, Stays DEF source, Ended
  <2>3. CASE Fails("error")
    BY <2>1, <2>3, Judged DEF Fails, Verdict, Ended, source, fileVars
  <2>. QED
    BY <1>6, <2>2, <2>3 DEF Open
<1>7. CASE EndOfFile
  <2>1. /\ p = q /\ text = <<>> /\ complete /\ at = "line"
        /\ UNCHANGED <<text, complete, writer, meant, step>>
    BY <1>2, <1>7, AtParser DEF EndOfFile, Fails, source, blocks, fileVars
  <2>2. writer = p.w /\ meant = p.meant
    BY <1>2, <2>1 DEF Between, Ends
  <2>3. step = p.w.step
    BY <1>4 DEF Holds, Inside, Over
  <2>4. actionInProgress <=> step # "START"
    BY DEF IInv, FlagsAgree
  <2>5. CASE actionInProgress
    BY <1>7, <2>1, <2>2, <2>3, <2>4, <2>5, Judged
       DEF EndOfFile, Fails, Verdict, Ended
  <2>6. CASE ~actionInProgress
    BY <1>3, <1>7, <2>1, <2>2, <2>3, <2>4, <2>6, Judged
       DEF EndOfFile, Verdict, Ended
  <2>. QED
    BY <2>5, <2>6
<1>8. CASE FullLine
  <2>1. /\ text # <<>> /\ at' = "actions" /\ needFullLine
        /\ UNCHANGED <<source, blocks, words, needFullLine, title, config>>
    BY <1>8 DEF FullLine
  <2>2. p.w.mode \in InWords /\ Inside(p) /\ p.cut
    BY <1>4, <2>1 DEF Over
  <2>3. OtherThan({})'
    <3>1. PICK r \in Point : Follows(p, Head(text), r)
      BY <1>3, <2>1
    <3>2. Head(text) # Cut
      BY <1>3, <2>2, <3>1, CutFollows
    <3>. QED
      BY <2>1, <3>2 DEF OtherThan, source
  <2>4. Place(p)'
    BY <1>3, <2>1, <2>2, <2>3 DEF Place, Inside, Holds, blocks, words
  <2>. QED
    BY <1>2, <2>1, <2>4, Stays DEF source, Ended
<1>9. CASE IgnoredLine
  <2>1. /\ text # <<>> /\ at' = "rest" /\ ~needFullLine
        /\ \/ Char \in {Newline, "#"}
           \/ Char \notin {" ", "[", Cut} /\ config = <<>>
        /\ UNCHANGED <<source, blocks, words, needFullLine, title, config>>
    BY <1>9 DEF IgnoredLine
  <2>2. Char \in {Newline, "#"}
    <3>. SUFFICES ASSUME Char \notin {" ", "[", Cut}, config = <<>>
                  PROVE  Char \in {Newline, "#"}
      BY <2>1
    <3>1. PICK r \in Point : Follows(p, Char, r)
      BY <1>3, <2>1 DEF Char
    <3>2. \/ BlankRead(p, Char, r) \/ CommentBegun(p, Char, r)
          \/ TitleBegun(p, Char, r) \/ MarkRead(p, Char, r)
          \/ WordRead(p, Char, r)
      BY <1>3, <1>5, <2>1, <3>1, PlainFollows
    <3>3. ~MarkRead(p, Char, r)
      <4>. SUFFICES ASSUME MarkRead(p, Char, r) PROVE FALSE
        OBVIOUS
      <4>1. Closes(p.w) /\ Closed(p.w).step # "START"
        BY DEF MarkRead
      <4>. QED
        BY <1>3, <4>1, ClosedFacts
    <3>. QED
      BY <1>3, <3>2, <3>3, SymbolNames
         DEF BlankRead, CommentBegun, TitleBegun, WordRead
  <2>3. Place(p)'
    BY <1>3, <1>5, <2>1, <2>2
       DEF Place, Outside, Holds, NoWord, Coming, Char, source, blocks, words
  <2>. QED
    BY <1>2, <2>1, <2>3, Stays DEF source, Ended
<1>10. CASE ActionsLine
  <2>1. /\ text # <<>> /\ at' = "actions" /\ ~needFullLine
        /\ Char \notin {" ", Newline, "#", "[", Cut}
        /\ UNCHANGED <<source, blocks, words, needFullLine, title, config>>
    BY <1>10 DEF ActionsLine
  <2>2. OtherThan(White \cup {"#", "["})'
    BY <2>1, SymbolNames DEF OtherThan, Char, source
  <2>3. Place(p)'
    BY <1>3, <1>5, <2>1, <2>2
       DEF Place, Outside, Holds, NoWord, blocks, words
  <2>. QED
    BY <1>2, <2>1, <2>3, Stays DEF source, Ended
<1>. QED
  BY <1>6, <1>7, <1>8, <1>9, <1>10

\* The steps of nextLine that read.
LEMMA LineReads ==
  ASSUME IInv, Followed, UNCHANGED fileVars, Indentation \/ RestOfLine
  PROVE  Followed'
<1>1. Ready /\ at \notin Ended
  BY DEF Indentation, RestOfLine, Ready
<1>2. PICK p, q : Between(p, q)
  BY <1>1 DEF Followed
<1>3. /\ p \in Point /\ Sound(p) /\ config = p.meant /\ p.esc \in BOOLEAN
      /\ p.w \in WriterType /\ p.nl \in BOOLEAN
      /\ text = <<>> => p = q /\ ~p.nl /\ ~p.esc /\ complete
  BY <1>1, <1>2, AtParser
<1>4. ASSUME text # <<>>
      PROVE  \E r \in Point : Follows(p, Char, r) /\ Leads(r, Tail(text), q)
  BY <1>2, <1>4, AtParser DEF Char
<1>5. CASE Indentation
  <2>1. /\ at = "line" /\ text # <<>> /\ ~needFullLine /\ Char \in {" ", Cut}
        /\ text' = Tail(text) /\ UNCHANGED <<complete, parser>>
    BY <1>5 DEF Indentation, Consume
  <2>2. p.w.mode = "out" /\ NoWord /\ Holds(p.w) /\ ~p.nl /\ p.w.fresh /\ ~p.esc
    BY <1>2, <1>3, <2>1, AtLine DEF Over, Sound, InWords, Quotes
  <2>3. PICK r \in Point : Follows(p, Char, r) /\ Leads(r, Tail(text), q)
    BY <1>4, <2>1
  <2>4. Char = " "
    <3>. SUFFICES ASSUME Char = Cut PROVE FALSE
      BY <2>1
    <3>. QED
      BY <1>3, <2>2, <2>3, CutFollows DEF InWords, Quotes
  <2>5. BlankRead(p, Char, r)
    BY <1>3, <2>2, <2>3, <2>4, PlainFollows, SymbolNames
       DEF CommentBegun, TitleBegun, MarkRead, WordRead
  <2>6. /\ r.w.mode = "out" /\ r.w.fresh /\ Same(r, p.w) /\ r.meant = p.meant
        /\ ~r.nl
    BY <1>3, <2>2, <2>4, <2>5, ClosedFacts, SymbolNames DEF BlankRead, Same
  <2>7. Place(r)'
    BY <1>3, <2>1, <2>2, <2>6
       DEF Place, Outside, Holds, NoWord, Same, parser, blocks, words
  <2>. QED
    BY <1>2, <2>1, <2>3, <2>7, GoesOn DEF parser, Ended
<1>6. CASE RestOfLine
  <2>1. /\ at = "rest"
        /\ UNCHANGED <<complete, blocks, words, needFullLine, title, config>>
        /\ IF AtEnd THEN at' = "line" ELSE text' = Tail(text) /\ at' = at
        /\ text # <<>> => text' = Tail(text)
        /\ text = <<>> => text' = text
    BY <1>6 DEF RestOfLine, NewLine, Consume, AtEnd
  <2>2. \/ p.w.mode = "out" /\ NoWord /\ Holds(p.w) /\ ~needFullLine /\ p.nl
        \/ /\ p.w.mode = "out" /\ NoWord /\ Holds(p.w) /\ ~needFullLine /\ ~p.nl
           /\ p.w.fresh /\ Coming({Newline, "#"})
        \/ p.w.mode = "comment" /\ NoWord /\ Holds(p.w) /\ ~needFullLine
    BY <1>2, <2>1 DEF Between, Place, Outside, Inside, Past, Beside, Over
  <2>3. CASE text = <<>>
    <3>1. Place(p)'
      BY <1>3, <2>1, <2>2, <2>3 DEF Place, Over, Holds, AtEnd, blocks
    <3>. QED
      BY <1>2, <2>1, <2>3, <3>1, Stays DEF AtEnd, Ended
  <2>4. CASE text # <<>>
    <3>1. PICK r \in Point : Follows(p, Char, r) /\ Leads(r, Tail(text), q)
      BY <1>4, <2>4
    <3>2. ASSUME at' \in {"line", "rest"}, Place(r)'
          PROVE  Followed'
      BY <1>2, <2>1, <2>4, <3>1, <3>2, GoesOn DEF Ended
    <3>3. CASE p.w.mode = "out" /\ NoWord /\ Holds(p.w) /\ ~needFullLine /\ p.nl
      <4>1. Char = Cut
        BY <1>3, <3>1, <3>3, NewlineFollows
      <4>2. AtEnd /\ at' = "line"
        BY <2>1, <4>1 DEF AtEnd, Char
      <4>3. r.w = p.w /\ r.meant = p.meant /\ ~r.nl /\ p.w.fresh
        BY <1>3, <3>1, <3>3, <4>1, CutFollows DEF Sound, InWords, Quotes
      <4>4. Place(r)'
        BY <1>3, <2>1, <3>3, <4>2, <4>3
           DEF Place, Outside, Holds, NoWord, blocks, words
      <4>. QED
        BY <3>2, <4>2, <4>4
    <3>4. CASE /\ p.w.mode = "out" /\ NoWord /\ Holds(p.w) /\ ~needFullLine
               /\ ~p.nl /\ p.w.fresh /\ Coming({Newline, "#"})
      <4>1. Char \in {Newline, "#"} /\ Char # Cut /\ ~p.esc
        BY <1>3, <3>4, SymbolNames DEF Coming, Char, Sound, InWords, Quotes
      <4>2. at' = "rest"
        BY <2>1, <2>4, <4>1 DEF AtEnd, Char
      <4>3. BlankRead(p, Char, r) \/ CommentBegun(p, Char, r)
        <5>1. \/ BlankRead(p, Char, r) \/ CommentBegun(p, Char, r)
              \/ TitleBegun(p, Char, r) \/ MarkRead(p, Char, r)
              \/ WordRead(p, Char, r)
          BY <1>3, <3>1, <3>4, <4>1, PlainFollows
        <5>2. ~TitleBegun(p, Char, r) /\ ~MarkRead(p, Char, r)
          BY <4>1, SymbolNames DEF TitleBegun, MarkRead
        <5>3. ~WordRead(p, Char, r)
          BY <3>4, <4>1, SymbolNames DEF WordRead
        <5>. QED
          BY <5>1, <5>2, <5>3
      <4>4. CASE BlankRead(p, Char, r)
        <5>1. Char = Newline
          BY <4>1, <4>4, SymbolNames DEF BlankRead
        <5>2. r.w.mode = "out" /\ Same(r, p.w) /\ r.meant = p.meant /\ r.nl
          BY <1>3, <3>4, <4>4, <5>1, ClosedFacts DEF BlankRead, Same
        <5>3. Place(r)'
          BY <1>3, <2>1, <3>4, <4>2, <5>2
             DEF Place, Outside, Holds, NoWord, Same, blocks, words
        <5>. QED
          BY <3>2, <4>2, <5>3
      <4>5. CASE CommentBegun(p, Char, r)
        <5>1. Place(r)'
          BY <1>3, <2>1, <3>4, <4>2, <4>5
             DEF Place, Beside, Holds, NoWord, Same, CommentBegun, blocks, words
        <5>. QED
          BY <3>2, <4>2, <5>1
      <4>. QED
        BY <4>3, <4>4, <4>5
    <3>5. CASE p.w.mode = "comment" /\ NoWord /\ Holds(p.w) /\ ~needFullLine
      <4>1. /\ Char \in Symbols /\ Same(r, p.w) /\ r.meant = p.meant
            /\ r.w.mode = "comment" \/ (r.w.mode = "out" /\ r.nl)
        <5>1. Char \in Symbols /\ Same(r, p.w) /\ CommentRead(p, Char, r)
          BY <1>3, <3>1, <3>5, BesideFollows
        <5>. QED
          BY <5>1 DEF CommentRead
      <4>2. at' = "rest"
        BY <2>1, <2>4, <4>1, SymbolFacts DEF AtEnd, Char
      <4>3. Place(r)'
        BY <1>3, <2>1, <3>5, <4>1, <4>2
           DEF Place, Outside, Beside, Holds, NoWord, Same, blocks, words
      <4>. QED
        BY <3>2, <4>2, <4>3
    <3>. QED
      BY <2>2, <3>3, <3>4, <3>5
  <2>. QED
    BY <2>3, <2>4
<1>. QED
  BY <1>5, <1>6

\* Sections.
LEMMA SectionReads ==
  ASSUME IInv, Followed, UNCHANGED fileVars, SectionStart \/ SectionTitle
  PROVE  Followed'
<1>1. Ready /\ at \notin Ended
  BY DEF SectionStart, SectionTitle, Ready
<1>2. PICK p, q : Between(p, q)
  BY <1>1 DEF Followed
<1>3. /\ p \in Point /\ Sound(p) /\ config = p.meant /\ p.esc \in BOOLEAN
      /\ p.w \in WriterType /\ p.nl \in BOOLEAN
      /\ text = <<>> => p = q /\ ~p.nl /\ ~p.esc /\ complete
  BY <1>1, <1>2, AtParser
<1>4. ASSUME text # <<>>
      PROVE  \E r \in Point : Follows(p, Char, r) /\ Leads(r, Tail(text), q)
  BY <1>2, <1>4, AtParser DEF Char
<1>5. CASE SectionStart
  <2>1. at = "line" /\ text # <<>> /\ ~needFullLine /\ Char = "["
    BY <1>5 DEF SectionStart
  <2>2. p.w.mode = "out" /\ NoWord /\ Holds(p.w) /\ ~p.nl /\ p.w.fresh /\ ~p.esc
    BY <1>2, <1>3, <2>1, AtLine DEF Over, Sound, InWords, Quotes
  <2>3. PICK r \in Point : Follows(p, Char, r) /\ Leads(r, Tail(text), q)
    BY <1>4, <2>1
  <2>4. TitleBegun(p, Char, r)
    BY <1>3, <2>1, <2>2, <2>3, PlainFollows, SymbolNames
       DEF BlankRead, CommentBegun, MarkRead, WordRead
  <2>5. ~actionInProgress
    BY <2>2, <2>4 DEF IInv, FlagsAgree, Holds, TitleBegun
  <2>6. /\ text' = Tail(text) /\ at' = "section" /\ title' = <<>>
        /\ UNCHANGED <<complete, blocks, words, needFullLine, config>>
    BY <1>5, <2>5 DEF SectionStart, Consume
  <2>7. Place(r)'
    BY <1>3, <2>1, <2>2, <2>4, <2>6
       DEF Place, Beside, Holds, NoWord, Same, TitleBegun, blocks, words
  <2>. QED
    BY <1>2, <2>1, <2>3, <2>6, <2>7, GoesOn DEF Ended
<1>6. CASE SectionTitle
  <2>1. at = "section"
    BY <1>6 DEF SectionTitle
  <2>2. p.w.mode = "title" /\ NoWord /\ Holds(p.w) /\ ~needFullLine
        /\ title = p.w.word
    BY <1>2, <2>1 DEF Between, Place, Outside, Inside, Past, Beside, Over
  <2>3. CASE text = <<>>
    <3>1. Fails("error")
      BY <1>6, <2>3 DEF SectionTitle, AtEnd
    <3>2. writer = p.w /\ complete
      BY <1>2, <1>3, <2>3 DEF Between, Ends
    <3>. QED
      BY <2>2, <3>1, <3>2, Judged DEF Fails, Verdict, Ended, source, fileVars
  <2>4. CASE text # <<>>
    <3>1. PICK r \in Point : Follows(p, Char, r) /\ Leads(r, Tail(text), q)
      BY <1>4, <2>4
    <3>2. /\ Char \in Symbols /\ Same(r, p.w)
          /\ \/ /\ Char # "]" /\ r.w.mode = "title" /\ r.meant = p.meant
                /\ r.w.word = Append(p.w.word, Char)
             \/ /\ Char = "]" /\ r.w.mode = "comment"
                /\ r.meant = Append(p.meant,
                                    [name |-> p.w.word, actions |-> <<>>])
      BY <1>3, <2>2, <3>1, BesideFollows DEF TitleRead
    <3>3. ~AtEnd
      BY <2>4, <3>2, SymbolFacts DEF AtEnd, Char
    <3>4. /\ text' = Tail(text)
          /\ UNCHANGED <<complete, blocks, words, needFullLine>>
          /\ IF Char = "]"
             THEN /\ at' = "rest"
                  /\ config' = Append(config, [name |-> title, actions |-> <<>>])
             ELSE /\ title' = Append(title, Char) /\ UNCHANGED <<at, config>>
      BY <1>6, <3>3 DEF SectionTitle, Consume
    <3>5. Place(r)'
      BY <1>3, <2>1, <2>2, <3>2, <3>4
         DEF Place, Beside, Holds, NoWord, Same, blocks, words
    <3>. QED
      BY <1>2, <2>1, <2>4, <3>1, <3>4, <3>5, GoesOn DEF Ended
  <2>. QED
    BY <2>3, <2>4
<1>. QED
  BY <1>5, <1>6

\* The places in parseActions.
LEMMA AtActions ==
  ASSUME IInv, NEW p, NEW q, Between(p, q), at \in {"actions", "blank", "word"}
  PROVE  \/ /\ p.w.mode = "out" /\ NoWord /\ Holds(p.w)
            /\ at = "blank" => p.nl \/ ~p.w.fresh
            /\ at # "blank" => ~p.nl /\ OtherThan(White)
            /\ at # "blank" /\ p.w.fresh =>
                 OtherThan(White \cup {"#", "["}) /\ ~needFullLine
            /\ at = "word" => step \in {"START", "BLOCK", "BLOCK_VALUE"}
            /\ at = "word" /\ step = "BLOCK" => ~Coming({"}"})
         \/ Inside(p) /\ at # "blank"
         \/ Past(p) /\ at # "word"
<1>1. Place(p)
  BY DEF Between
<1>2. \/ Outside(p) \/ Inside(p) \/ Past(p)
  BY <1>1 DEF Place, Beside, Over
<1>3. OtherThan(White \cup {"#", "["}) => OtherThan(White)
  BY DEF OtherThan
<1>4. CASE Outside(p)
  BY <1>3, <1>4 DEF Outside
<1>5. CASE Inside(p)
  BY <1>5 DEF Inside
<1>6. CASE Past(p)
  BY <1>6 DEF Past
<1>. QED
  BY <1>2, <1>4, <1>5, <1>6

\* The end of a line that is parsed.
LEMMA LineEnds ==
  ASSUME IInv, Followed, UNCHANGED fileVars, LineParsed \/ Incomplete
  PROVE  Followed'
<1>1. /\ Ready /\ at \in {"actions", "blank", "word"} /\ at \notin Ended
      /\ AtEnd /\ at' = "line"
      /\ UNCHANGED <<complete, blocks, words, title, config>>
      /\ text # <<>> => text' = Tail(text)
      /\ text = <<>> => text' = text
      /\ IF at = "word" THEN needFullLine' = TRUE ELSE needFullLine' = FALSE
  BY DEF LineParsed, Incomplete, NewLine, Ended
<1>2. PICK p, q : Between(p, q)
  BY <1>1 DEF Followed
<1>3. /\ p \in Point /\ Sound(p) /\ config = p.meant /\ p.esc \in BOOLEAN
      /\ p.w \in WriterType /\ p.nl \in BOOLEAN
      /\ text = <<>> => p = q /\ ~p.nl /\ ~p.esc /\ complete
      /\ text # <<>> =>
           \E r \in Point : Follows(p, Head(text), r) /\ Leads(r, Tail(text), q)
  BY <1>1, <1>2, AtParser
<1>4. \/ /\ p.w.mode = "out" /\ NoWord /\ Holds(p.w)
         /\ at = "blank"
         /\ p.nl \/ ~p.w.fresh
      \/ Inside(p) /\ at = "word"
  <2>1. ~Past(p)
    BY <1>1, SymbolNames DEF Past, Coming, AtEnd
  <2>2. ~OtherThan(White) /\ ~OtherThan({})
    BY <1>1 DEF OtherThan, AtEnd
  <2>3. Inside(p) => at # "actions"
    BY <2>2 DEF Inside
  <2>. QED
    BY <1>1, <1>2, <2>1, <2>2, <2>3, AtActions
<1>5. CASE text = <<>>
  <2>1. Place(p)'
    BY <1>1, <1>3, <1>4, <1>5 DEF Place, Over, Holds, Inside, blocks
  <2>. QED
    BY <1>1, <1>2, <1>5, <2>1, Stays DEF Ended
<1>6. CASE text # <<>>
  <2>1. Head(text) = Cut
    BY <1>1, <1>6 DEF AtEnd
  <2>2. PICK r \in Point : Follows(p, Cut, r) /\ Leads(r, Tail(text), q)
    BY <1>3, <1>6, <2>1
  <2>3. /\ p.nl \/ p.w.mode \in InWords
        /\ r.w = p.w /\ r.meant = p.meant /\ r.esc = p.esc /\ r.nl = FALSE
        /\ r.cut = TRUE
    BY <1>3, <2>2, CutFollows
  <2>4. CASE p.w.mode = "out" /\ NoWord /\ Holds(p.w) /\ at = "blank"
    <3>1. p.w.fresh
      BY <1>3, <2>3, <2>4 DEF Sound, InWords, Quotes
    <3>2. Place(r)'
      BY <1>1, <1>3, <2>3, <2>4, <3>1
         DEF Place, Outside, Holds, NoWord, blocks, words
    <3>. QED
      BY <1>1, <1>2, <1>6, <2>2, <3>2, GoesOn DEF Ended
  <2>5. CASE Inside(p) /\ at = "word"
    <3>1. Place(r)'
      BY <1>1, <1>3, <2>3, <2>5 DEF Place, Inside, Holds, blocks, words
    <3>. QED
      BY <1>1, <1>2, <1>6, <2>2, <3>1, GoesOn DEF Ended
  <2>. QED
    BY <1>4, <2>3, <2>4, <2>5 DEF InWords, Quotes
<1>. QED
  BY <1>5, <1>6

\* Blanks between words.
LEMMA BlankReads ==
  ASSUME IInv, Followed, UNCHANGED fileVars, SkipWhitespace
  PROVE  Followed'
<1>1. /\ Ready /\ at = "blank" /\ at \notin Ended /\ ~AtEnd
      /\ text # <<>> /\ Head(text) # Cut /\ Char = Head(text)
      /\ UNCHANGED <<complete, blocks, words, needFullLine, title, config>>
      /\ IF Char \in White THEN text' = Tail(text) /\ at' = "blank"
                           ELSE at' = "actions" /\ text' = text
  BY DEF SkipWhitespace, Consume, AtEnd, Ended, Char, source
<1>2. PICK p, q : Between(p, q)
  BY <1>1 DEF Followed
<1>3. /\ p \in Point /\ Sound(p) /\ config = p.meant /\ p.esc \in BOOLEAN
      /\ p.w \in WriterType /\ p.nl \in BOOLEAN
      /\ \E r \in Point : Follows(p, Char, r) /\ Leads(r, Tail(text), q)
  BY <1>1, <1>2, AtParser
<1>4. PICK r \in Point : Follows(p, Char, r) /\ Leads(r, Tail(text), q)
  BY <1>3
<1>5. ~p.nl
  BY <1>1, <1>3, <1>4, NewlineFollows
<1>6. \/ p.w.mode = "out" /\ NoWord /\ Holds(p.w) /\ ~p.w.fresh
      \/ Past(p)
  BY <1>1, <1>2, <1>5, AtActions
<1>7. CASE Char \notin White
  <2>1. OtherThan(White)'
    BY <1>1, <1>7 DEF OtherThan
  <2>2. Coming({"=", "{", "}"} \cup White) => Coming({"=", "{", "}"} \cup White)'
    BY <1>1, <1>7 DEF Coming
  <2>3. Place(p)'
    BY <1>1, <1>3, <1>5, <1>6, <1>7, <2>1, <2>2
       DEF Place, Outside, Past, Holds, NoWord, blocks, words
  <2>. QED
    BY <1>1, <1>2, <1>7, <2>3, Stays DEF Ended
<1>8. CASE Char \in White
  <2>1. p.w.mode \in {"out", "bare"} /\ ~p.esc /\ ~p.w.fresh
        /\ NoWord /\ Holds(Closed(p.w))
    <3>1. CASE p.w.mode = "out" /\ NoWord /\ Holds(p.w) /\ ~p.w.fresh
      <4>1. Closes(p.w)
        BY <3>1 DEF Closes
      <4>2. Holds(Closed(p.w))
        BY <1>3, <3>1, <4>1, ClosedFacts DEF Holds
      <4>. QED
        BY <1>3, <3>1, <4>2 DEF Sound, InWords, Quotes
    <3>2. CASE Past(p)
      BY <1>3, <3>2 DEF Past, Sound, InWords
    <3>. QED
      BY <1>6, <3>1, <3>2
  <2>2. \/ BlankRead(p, Char, r) \/ CommentBegun(p, Char, r)
        \/ TitleBegun(p, Char, r) \/ MarkRead(p, Char, r)
        \/ WordRead(p, Char, r)
    BY <1>1, <1>3, <1>4, <1>5, <2>1, PlainFollows
  <2>3. BlankRead(p, Char, r)
    BY <1>8, <2>2, SymbolNames DEF CommentBegun, TitleBegun, MarkRead, WordRead
  <2>4. Place(r)'
    BY <1>1, <1>3, <1>8, <2>1, <2>3
       DEF Place, Outside, Holds, NoWord, BlankRead, Same, blocks, words
  <2>. QED
    BY <1>1, <1>2, <1>4, <1>8, <2>4, GoesOn DEF Ended
<1>. QED
  BY <1>7, <1>8

\* The parser is before a symbol, in parseActions.
LEMMA BeforeSymbol ==
  ASSUME IInv, Followed, Ready, at \in {"actions", "word"}, ~AtEnd
  PROVE  /\ text # <<>> /\ Head(text) = Char /\ Char # Cut
         /\ \E p, q, r :
              /\ Between(p, q) /\ p \in Point /\ r \in Point
              /\ Follows(p, Char, r) /\ Leads(r, Tail(text), q)
              /\ Sound(p) /\ p.w \in WriterType /\ config = p.meant
              /\ p.esc \in BOOLEAN /\ ~p.nl
<1>1. /\ at \notin Ended /\ text # <<>> /\ Head(text) = Char /\ Char # Cut
  BY DEF AtEnd, Char, Ended
<1>2. PICK p, q : Between(p, q)
  BY <1>1 DEF Followed
<1>3. /\ p \in Point /\ Sound(p) /\ p.w \in WriterType /\ config = p.meant
      /\ p.esc \in BOOLEAN /\ p.nl \in BOOLEAN
      /\ \E r \in Point : Follows(p, Char, r) /\ Leads(r, Tail(text), q)
  BY <1>1, <1>2, AtParser
<1>4. PICK r \in Point : Follows(p, Char, r) /\ Leads(r, Tail(text), q)
  BY <1>3
<1>5. ~p.nl
  BY <1>1, <1>3, <1>4, NewlineFollows
<1>. QED
  BY <1>1, <1>2, <1>3, <1>4, <1>5

\* Between words, before what is neither a blank nor the start of one.
LEMMA MarkFound ==
  ASSUME IInv, NEW p \in Point, NEW q, NEW r, Between(p, q), at = "actions",
         text # <<>>, Head(text) = Char, Char # Cut, ~p.nl, Follows(p, Char, r),
         \/ step \in {"NAME", "NAME_EQUALS", "BLOCK_NAME"}
         \/ step = "BLOCK" /\ Char = "}"
         \/ Past(p)
  PROVE  /\ MarkRead(p, Char, r) /\ Holds(Closed(p.w)) /\ NoWord
<1>1. Sound(p) /\ p.w \in WriterType
  BY AtParser
<1>2. \/ /\ p.w.mode = "out" /\ NoWord /\ Holds(p.w) /\ OtherThan(White)
         /\ p.w.fresh => OtherThan(White \cup {"#", "["})
      \/ Inside(p)
      \/ Past(p)
  BY AtActions
<1>3. CASE Inside(p)
  <2>1. /\ p.w.mode \in InWords /\ step = p.w.step
        /\ p.w.step \in {"START", "BLOCK", "BLOCK_VALUE"}
    BY <1>1, <1>3 DEF Inside, Holds, Sound
  <2>2. ~Past(p)
    <3>. SUFFICES ASSUME Past(p) PROVE FALSE
      OBVIOUS
    <3>1. Closed(p.w).step = p.w.step /\ p.w.mode = "bare" /\ Closes(p.w)
      BY <2>1 DEF Past, Holds
    <3>. QED
      BY <3>1, ClosedFacts
  <2>3. step = "BLOCK" /\ Char = "}"
    BY <2>1, <2>2
  <2>4. p.w.mode = "bare" /\ ~p.esc
    BY <1>1, <2>1, <2>3 DEF Sound
  <2>7. ~WordRead(p, Char, r) /\ Char \notin White
    BY <2>3, SymbolNames DEF WordRead
  <2>5. MarkRead(p, Char, r)
    BY <2>3, <2>4, <2>7, PlainFollows DEF BlankRead, CommentBegun, TitleBegun
  <2>6. Closes(p.w) /\ Closed(p.w).step = "BLOCK"
    BY <2>3, <2>5 DEF MarkRead
  <2>. QED
    BY <2>1, <2>3, <2>4, <2>6, ClosedFacts
<1>4. CASE /\ p.w.mode = "out" /\ NoWord /\ Holds(p.w) /\ OtherThan(White)
           /\ p.w.fresh => OtherThan(White \cup {"#", "["})
  <2>1. Closes(p.w) /\ ~p.esc /\ ~Past(p) /\ step = p.w.step
    BY <1>1, <1>4 DEF Closes, Sound, InWords, Quotes, Past, Holds
  <2>2. Holds(Closed(p.w))
    BY <1>4, <2>1, ClosedFacts DEF Holds
  <2>3. /\ Char \notin White
        /\ p.w.fresh => Char \notin {"#", "["}
    BY <1>4 DEF OtherThan
  <2>4. ~WordRead(p, Char, r)
    BY <2>1, SymbolNames DEF WordRead
  <2>5. MarkRead(p, Char, r)
    BY <1>4, <2>1, <2>3, <2>4, PlainFollows
       DEF BlankRead, CommentBegun, TitleBegun
  <2>. QED
    BY <1>4, <2>2, <2>5
<1>5. CASE Past(p)
  <2>1. /\ p.w.mode = "bare" /\ ~p.esc /\ NoWord /\ Holds(Closed(p.w))
        /\ Char \in {"=", "{", "}"}
    BY <1>5 DEF Past, Coming, OtherThan
  <2>3. ~WordRead(p, Char, r) /\ Char \notin White
    BY <2>1, SymbolNames DEF WordRead
  <2>2. MarkRead(p, Char, r)
    BY <2>1, <2>3, PlainFollows DEF BlankRead, CommentBegun, TitleBegun
  <2>. QED
    BY <2>1, <2>2
<1>. QED
  BY <1>2, <1>3, <1>4, <1>5

\* Equals signs and braces.
LEMMA MarkReads ==
  ASSUME IInv, Followed, UNCHANGED fileVars, Punctuation \/ BlockEnd
  PROVE  Followed'
<1>1. /\ Ready /\ at = "actions" /\ ~AtEnd
      /\ \/ step \in {"NAME", "NAME_EQUALS", "BLOCK_NAME"}
         \/ step = "BLOCK" /\ Char = "}"
  BY DEF Punctuation, BlockEnd, Expect
<1>2. text # <<>> /\ Head(text) = Char /\ Char # Cut
  BY <1>1, BeforeSymbol
<1>3. PICK p, q, r :
        /\ Between(p, q) /\ p \in Point /\ r \in Point
        /\ Follows(p, Char, r) /\ Leads(r, Tail(text), q)
        /\ config = p.meant /\ ~p.nl
  BY <1>1, BeforeSymbol
<1>4. MarkRead(p, Char, r) /\ Holds(Closed(p.w)) /\ NoWord
  BY <1>1, <1>2, <1>3, MarkFound
<1>5. /\ r.w.mode = "out" /\ ~r.w.fresh /\ ~r.nl /\ r.w.prop = blockval
      /\ \/ /\ Char = "=" /\ step = "NAME" /\ r.w.step = "NAME_EQUALS"
            /\ r.w.action = action /\ r.meant = config
         \/ /\ Char = "=" /\ step = "BLOCK_NAME" /\ r.w.step = "BLOCK_VALUE"
            /\ r.w.action = action /\ r.meant = config
         \/ /\ Char = "{" /\ step = "NAME_EQUALS" /\ r.w.step = "BLOCK"
            /\ r.w.action = action /\ r.meant = config
         \/ /\ Char = "}" /\ step = "BLOCK" /\ r.w.step = "START"
            /\ action.pattern # None /\ action.command # None
            /\ r.w.action = NoAction
            /\ r.meant = [config EXCEPT ![Len(config)].actions =
                            Append(@, action)]
  BY <1>3, <1>4 DEF MarkRead, Holds
<1>6. /\ at' = "blank" /\ text' = Tail(text) /\ UNCHANGED <<complete, words>>
      /\ blockval' = blockval /\ step' = r.w.step /\ action' = r.w.action
      /\ config' = r.meant
  <2>1. CASE Punctuation
    BY <1>5, <2>1 DEF Punctuation, Expect, Consume, Fails, source, blocks
  <2>2. CASE BlockEnd
    BY <1>5, <2>2 DEF BlockEnd, BlockComplete, Consume, Fails, source, blocks
  <2>. QED
    BY <2>1, <2>2
<1>7. Place(r)'
  BY <1>4, <1>5, <1>6 DEF Place, Outside, Holds, NoWord, words
<1>. QED
  BY <1>2, <1>3, <1>6, <1>7, GoesOn DEF Ended

\* The steps that call parseWord.
LEMMA WordBegins ==
  ASSUME IInv, Followed, UNCHANGED fileVars, WordExpected
  PROVE  Followed'
<1>1. /\ Ready /\ at = "actions" /\ ~AtEnd /\ at' = "word"
      /\ step \in {"START", "BLOCK", "BLOCK_VALUE"}
      /\ ~(step = "BLOCK" /\ Char = "}")
      /\ UNCHANGED <<text, complete, step, action, blockval, words,
                     needFullLine, config>>
  BY DEF WordExpected, source, blocks
<1>2. text # <<>> /\ Head(text) = Char /\ Char # Cut
  BY <1>1, BeforeSymbol
<1>3. PICK p, q, r :
        /\ Between(p, q) /\ p \in Point /\ r \in Point
        /\ Follows(p, Char, r) /\ Leads(r, Tail(text), q)
        /\ config = p.meant /\ ~p.nl
  BY <1>1, BeforeSymbol
<1>4. ~Past(p)
  <2>. SUFFICES ASSUME Past(p) PROVE FALSE
    OBVIOUS
  <2>1. MarkRead(p, Char, r) /\ step = Closed(p.w).step
    BY <1>1, <1>2, <1>3, MarkFound DEF Holds
  <2>. QED
    BY <1>1, <2>1 DEF MarkRead
<1>5. Place(p)'
  <2>1. CASE Inside(p)
    BY <1>1, <1>3, <2>1 DEF Place, Inside, Holds, words
  <2>2. CASE /\ p.w.mode = "out" /\ NoWord /\ Holds(p.w) /\ OtherThan(White)
             /\ p.w.fresh => OtherThan(White \cup {"#", "["}) /\ ~needFullLine
    <3>1. ~Coming({"}"})' \/ step' # "BLOCK"
      BY <1>1, <1>2 DEF Coming
    <3>. QED
      BY <1>1, <1>3, <2>2, <3>1
         DEF Place, Outside, Holds, NoWord, OtherThan, words
  <2>. QED
    BY <1>1, <1>3, <1>4, <2>1, <2>2, AtActions
<1>. QED
  BY <1>1, <1>3, <1>5, Stays DEF Ended

\* The places in parseWord.
LEMMA AtWord ==
  ASSUME IInv, NEW p, NEW q, Between(p, q), at = "word"
  PROVE  /\ Holds(p.w) /\ word = p.w.word /\ esc = p.esc
         /\ Len(word) < BufSize
         /\ \/ /\ p.w.mode = "out" /\ qst = "normal" /\ ~esc /\ NoWord
               /\ step = "BLOCK" => ~Coming({"}"})
               /\ OtherThan(White)
               /\ p.w.fresh => OtherThan(White \cup {"#", "["})
            \/ /\ p.w.mode \in InWords /\ Inside(p)
               /\ qst = IF p.w.mode = "bare" THEN "normal" ELSE p.w.mode
         /\ step \in {"START", "BLOCK", "BLOCK_VALUE"}
<1>1. Sound(p) /\ p.esc \in BOOLEAN /\ esc \in BOOLEAN
  BY AtParser DEF IInv, TypeOK
<1>2. CASE Inside(p)
  <2>1. p.w.mode # "title"
    BY <1>2 DEF Inside, InWords, Quotes
  <2>. QED
    BY <1>1, <1>2, <2>1 DEF Inside, Holds, Sound
<1>3. CASE /\ p.w.mode = "out" /\ NoWord /\ Holds(p.w) /\ OtherThan(White)
           /\ p.w.fresh => OtherThan(White \cup {"#", "["})
           /\ step \in {"START", "BLOCK", "BLOCK_VALUE"}
           /\ step = "BLOCK" => ~Coming({"}"})
  <2>1. p.w.word = <<>> /\ ~p.esc /\ Len(p.w.word) < BufSize
    BY <1>1, <1>3 DEF Sound, InWords, Quotes
  <2>. QED
    BY <1>1, <1>3, <2>1 DEF NoWord
<1>. QED
  BY <1>2, <1>3, AtActions

\* A symbol of a word.
LEMMA WordGoesOn ==
  ASSUME IInv, NEW p \in Point, NEW q, NEW r \in Point, Between(p, q),
         Leads(r, Tail(text), q), text # <<>>, Holds(p.w), Same(r, p.w),
         config = p.meant, r.meant = p.meant, r.w.mode \in InWords,
         UNCHANGED fileVars, Consume, at = "word", InsideWord,
         word' = r.w.word, esc' = r.esc,
         qst' = IF r.w.mode = "bare" THEN "normal" ELSE r.w.mode
  PROVE  Followed'
<1>1. /\ at' = "word" /\ text' = Tail(text)
      /\ UNCHANGED <<complete, step, action, blockval, config>>
  BY DEF Consume, InsideWord, blocks
<1>2. Holds(r.w)' /\ config' = r.meant
  BY <1>1 DEF Holds, Same
<1>3. Place(r)'
  BY <1>1, <1>2 DEF Place, Inside
<1>. QED
  BY <1>1, <1>3, GoesOn DEF Ended

\* Escaped symbols, and those in bare words.
LEMMA PlainReads ==
  ASSUME IInv, Followed, UNCHANGED fileVars, Escaped \/ Unquoted
  PROVE  Followed'
<1>1. Ready /\ at = "word" /\ ~AtEnd /\ Consume /\ InsideWord
  BY DEF Escaped, Unquoted, InWord, Copies
<1>2. text # <<>> /\ Head(text) = Char /\ Char # Cut
  BY <1>1, BeforeSymbol
<1>3. PICK p, q, r :
        /\ Between(p, q) /\ p \in Point /\ r \in Point
        /\ Follows(p, Char, r) /\ Leads(r, Tail(text), q)
        /\ config = p.meant /\ ~p.nl
  BY <1>1, BeforeSymbol
<1>4. /\ Holds(p.w) /\ word = p.w.word /\ esc = p.esc
      /\ \/ /\ p.w.mode = "out" /\ qst = "normal" /\ ~esc
            /\ p.w.fresh => OtherThan(White \cup {"#", "["})
         \/ /\ p.w.mode \in InWords
            /\ qst = IF p.w.mode = "bare" THEN "normal" ELSE p.w.mode
  BY <1>1, <1>3, AtWord
<1>5. CASE Escaped
  <2>1. esc /\ word' = Append(word, Char) /\ esc' = FALSE /\ qst' = qst
    BY <1>5 DEF Escaped, Copies
  <2>2. /\ Same(r, p.w) /\ r.meant = p.meant /\ p.w.mode \in InWords
        /\ r.w.mode = p.w.mode /\ r.esc = FALSE
        /\ r.w.word = Append(p.w.word, Char)
    <3>1. p.esc /\ p \in Point /\ Char # Cut /\ Follows(p, Char, r)
      BY <1>2, <1>3, <1>4, <2>1
    <3>. QED
      BY <3>1, EscapedFollows
  <2>3. qst = IF p.w.mode = "bare" THEN "normal" ELSE p.w.mode
    BY <1>4, <2>2 DEF InWords, Quotes
  <2>. QED
    BY <1>1, <1>2, <1>3, <1>4, <2>1, <2>2, <2>3, WordGoesOn
<1>6. CASE Unquoted
  <2>1. /\ ~esc /\ qst = "normal"
        /\ \/ Char = Escape /\ esc' = TRUE /\ UNCHANGED <<word, qst>>
           \/ Char \in Quotes /\ qst' = Char /\ UNCHANGED <<word, esc>>
           \/ Char \notin Special /\ word' = Append(word, Char)
              /\ UNCHANGED <<qst, esc>>
    BY <1>6 DEF Unquoted, Copies
  <2>2. p.w.mode \in {"out", "bare"} /\ ~p.esc
    BY <1>4, <2>1 DEF InWords, Quotes
  <2>3. Char \notin White \cup {"=", "{", "}"}
    BY <2>1, SymbolNames
  <2>4. p.w.mode = "out" /\ p.w.fresh => Char \notin {"#", "["}
    BY <1>2, <1>4 DEF OtherThan, InWords, Quotes
  <2>5. WordRead(p, Char, r)
    <3>1. /\ ~BlankRead(p, Char, r) /\ ~MarkRead(p, Char, r)
          /\ ~CommentBegun(p, Char, r) /\ ~TitleBegun(p, Char, r)
      BY <2>3, <2>4 DEF BlankRead, MarkRead, CommentBegun, TitleBegun
    <3>. QED
      BY <1>2, <1>3, <2>2, <3>1, PlainFollows
  <2>6. /\ Same(r, p.w) /\ r.meant = p.meant /\ r.w.mode \in InWords
        /\ word' = r.w.word /\ esc' = r.esc
        /\ qst' = IF r.w.mode = "bare" THEN "normal" ELSE r.w.mode
    <3>1. esc = FALSE
      BY <2>1 DEF IInv, TypeOK
    <3>2. /\ Same(r, p.w) /\ r.meant = p.meant
          /\ \/ Char = Escape /\ r.w.mode = "bare" /\ r.w.word = word /\ r.esc = TRUE
             \/ Char \in Quotes /\ r.w.mode = Char /\ r.w.word = word
                /\ r.esc = FALSE
             \/ Char \notin Special /\ r.w.mode = "bare"
                /\ r.w.word = Append(word, Char) /\ r.esc = FALSE
      BY <1>4, <2>5 DEF WordRead
    <3>. QED
      BY <2>1, <3>1, <3>2, SymbolNames DEF InWords
  <2>. QED
    BY <1>1, <1>2, <1>3, <1>4, <2>6, WordGoesOn
<1>. QED
  BY <1>5, <1>6

\* Whether a backslash in a quote is one depends on the symbol after it.
LEMMA BackslashRead ==
  ASSUME IInv, NEW p \in Point, NEW q, NEW r \in Point, Between(p, q),
         p.w.mode \in Quotes, text # <<>>, Char # Cut, ~p.nl, ~p.esc,
         Follows(p, Char, r), Leads(r, Tail(text), q), Char = Escape
  PROVE  (Len(text) >= 2 /\ text[2] = p.w.mode) <=> r.esc
<1>1. /\ r.w.mode = p.w.mode /\ r.nl = FALSE
      /\ \/ r.esc = FALSE /\ r.w.word = Append(p.w.word, Escape)
         \/ r.esc = TRUE
  <2>1. r.nl \in BOOLEAN /\ Escape # Newline /\ Escape # p.w.mode
    BY SymbolNames DEF Point, PointType
  <2>. QED
    BY <2>1, QuotedFollows DEF QuoteRead
<1>2. /\ text \in Seq(Symbols \cup {Cut}) /\ Tail(text) \in Seq(Symbols \cup {Cut})
      /\ Len(text) >= 2 <=> Tail(text) # <<>>
      /\ Len(text) >= 2 => text[2] = Head(Tail(text))
  <2>1. text \in Seq(Symbols \cup {Cut}) /\ Len(text) \in Nat \ {0}
    BY DEF IInv, TypeOK
  <2>2. /\ Tail(text) \in Seq(Symbols \cup {Cut})
        /\ Len(Tail(text)) = Len(text) - 1
        /\ \A i \in 1 .. Len(Tail(text)) : Tail(text)[i] = text[i + 1]
    BY <2>1, HeadTailProperties
  <2>. DEFINE u == Tail(text)
  <2>. HIDE DEF u
  <2>3. /\ (u # <<>> <=> Len(u) > 0) /\ (u # <<>> => Head(u) = u[1])
    <3>1. u \in Seq(Symbols \cup {Cut})
      BY <2>2 DEF u
    <3>. QED
      BY <3>1
  <2>4. Len(u) >= 1 => u[1] = text[1 + 1]
    BY <2>1, <2>2 DEF u
  <2>5. (Len(text) >= 2 <=> u # <<>>) /\ (Len(text) >= 2 => text[2] = Head(u))
    BY <2>1, <2>2, <2>3, <2>4 DEF u
  <2>. QED
    BY <2>1, <2>2, <2>5 DEF u
<1>3. Tail(text) # <<>> =>
        \E s \in Point : Follows(r, Head(Tail(text)), s)
  BY <1>2, LeadsFrom
<1>4. CASE r.esc = TRUE
  <2>1. Tail(text) # <<>>
    <3>. SUFFICES ASSUME Tail(text) = <<>> PROVE FALSE
      OBVIOUS
    <3>1. Leads(r, <<>>, q)
      OBVIOUS
    <3>2. r = q
      BY <3>1, LeadsNowhere
    <3>. QED
      BY <1>4, <3>2 DEF Between, Ends
  <2>2. PICK s \in Point : Follows(r, Head(Tail(text)), s)
    BY <1>3, <2>1
  <2>3. Head(Tail(text)) # Cut
    <3>. SUFFICES ASSUME Follows(r, Cut, s) PROVE FALSE
      BY <2>2
    <3>1. Cuts(r, Cut, s)
      BY SymbolFacts DEF Follows
    <3>. QED
      BY <1>1, <1>4, <3>1 DEF Cuts, Quotes
  <2>4. Head(Tail(text)) = p.w.mode
    BY <1>1, <1>4, <2>2, <2>3, EscapedFollows
  <2>. QED
    BY <1>2, <1>4, <2>1, <2>4
<1>5. CASE r.esc = FALSE /\ r.w.word = Append(p.w.word, Escape)
  <2>. SUFFICES ASSUME Tail(text) # <<>>, Head(Tail(text)) = p.w.mode
                PROVE  FALSE
    BY <1>2, <1>5
  <2>1. PICK s \in Point : Follows(r, p.w.mode, s)
    <3>1. \E s \in Point : Follows(r, Head(Tail(text)), s)
      BY <1>3
    <3>. QED
      BY <3>1
  <2>2. p.w.mode # Cut /\ p.w.mode # Escape
    BY SymbolNames
  <2>3. r.w.word # <<>> => r.w.word[Len(r.w.word)] # Escape
    <3>1. QuoteRead(r, p.w.mode, s)
      BY <1>1, <1>5, <2>1, <2>2, QuotedFollows
    <3>. QED
      BY <1>1, <2>2, <3>1 DEF QuoteRead
  <2>4. p.w.word \in Seq(Symbols) /\ Escape \in Symbols
    BY SymbolFacts DEF Point, PointType, WriterType
  <2>. DEFINE v == p.w.word
              u == Append(v, Escape)
  <2>5. u # <<>> /\ u[Len(u)] = Escape
    <3>. HIDE DEF v
    <3>1. v \in Seq(Symbols) /\ Escape \in Symbols
      BY <2>4 DEF v
    <3>2. Len(u) = Len(v) + 1 /\ u[Len(v) + 1] = Escape
      BY <3>1
    <3>. QED
      BY <3>1, <3>2
  <2>. QED
    BY <1>5, <2>3, <2>5
<1>. QED
  BY <1>1, <1>4, <1>5

\* The symbols in quotes.
LEMMA QuotedReads ==
  ASSUME IInv, Followed, UNCHANGED fileVars, Quoted
  PROVE  Followed'
<1>1. /\ Ready /\ at = "word" /\ ~AtEnd /\ Consume /\ InsideWord
      /\ ~esc /\ qst \in Quotes
  BY DEF Quoted, InWord, Copies
<1>2. text # <<>> /\ Head(text) = Char /\ Char # Cut
  BY <1>1, BeforeSymbol
<1>3. PICK p, q, r :
        /\ Between(p, q) /\ p \in Point /\ r \in Point
        /\ Follows(p, Char, r) /\ Leads(r, Tail(text), q)
        /\ config = p.meant /\ ~p.nl
  BY <1>1, BeforeSymbol
<1>4. /\ Holds(p.w) /\ word = p.w.word /\ esc = p.esc /\ p.w.mode = qst
  BY <1>1, <1>3, AtWord, SymbolNames
<1>5. /\ Same(r, p.w) /\ r.meant = p.meant
      /\ \/ /\ Char # qst /\ r.w.mode = qst /\ r.esc = FALSE
            /\ r.w.word = Append(word, Char)
         \/ /\ Char = Escape /\ r.w.mode = qst /\ r.w.word = word
            /\ r.esc = TRUE
         \/ /\ Char = qst /\ r.w.mode = "bare" /\ r.w.word = word
            /\ r.esc = FALSE
  <2>1. p.w.mode \in Quotes /\ ~p.esc
    BY <1>1, <1>4
  <2>2. /\ Same(r, p.w) /\ r.meant = p.meant
        /\ \/ /\ Char # p.w.mode /\ r.w.mode = p.w.mode /\ r.esc = FALSE
              /\ r.w.word = Append(p.w.word, Char)
           \/ /\ Char = Escape /\ r.w.mode = p.w.mode /\ r.w.word = p.w.word
              /\ r.esc = TRUE
           \/ /\ Char = p.w.mode /\ r.w.mode = "bare" /\ r.w.word = p.w.word
              /\ r.esc = FALSE
    <3>1. Same(r, p.w) /\ r.meant = p.meant /\ QuoteRead(p, Char, r)
      BY <1>2, <1>3, <2>1, QuotedFollows
    <3>. QED
      BY <3>1 DEF QuoteRead
  <2>. QED
    BY <1>4, <2>2
<1>6. Char = Escape => (Len(text) >= 2 /\ text[2] = qst <=> r.esc)
  BY <1>1, <1>2, <1>3, <1>4, BackslashRead
<1>7. IF Char = Escape /\ r.esc
      THEN esc' = TRUE /\ UNCHANGED <<word, qst>>
      ELSE IF Char = qst
      THEN qst' = "normal" /\ UNCHANGED <<word, esc>>
      ELSE word' = Append(word, Char) /\ UNCHANGED <<qst, esc>>
  BY <1>6 DEF Quoted, EscapedQuote, Copies
<1>8. /\ r.w.mode \in InWords /\ word' = r.w.word /\ esc' = r.esc
      /\ qst' = IF r.w.mode = "bare" THEN "normal" ELSE r.w.mode
  <2>1. esc = FALSE
    BY <1>1 DEF IInv, TypeOK
  <2>. QED
    BY <1>1, <1>5, <1>7, <2>1, SymbolNames DEF InWords
<1>. QED
  BY <1>1, <1>2, <1>3, <1>4, <1>5, <1>8, WordGoesOn

\* A word always fits into the buffer.
LEMMA NeverFull ==
  ASSUME IInv, Followed, BufferFull
  PROVE  FALSE
<1>1. /\ at = "word" /\ Len(word) >= BufSize /\ at \notin Ended
  BY DEF BufferFull, Ended
<1>2. PICK p, q : Between(p, q)
  BY <1>1 DEF Followed
<1>3. Len(word) < BufSize
  BY <1>1, <1>2, AtWord
<1>. QED
  BY <1>1, <1>3, ConfigAssumption DEF ConfigAssumption, IInv, TypeOK

\* A word is at its end where the writer may close it.
LEMMA WordOver ==
  ASSUME IInv, Followed, WordEnds
  PROVE  /\ Coming({"=", "{", "}"} \cup White)
         /\ \E p, q :
              /\ Between(p, q) /\ p \in Point /\ config = p.meant
              /\ p.w.mode = "bare" /\ ~p.esc /\ ~p.nl /\ Closes(p.w)
              /\ Holds(p.w) /\ word = p.w.word
<1>1. /\ Ready /\ at = "word" /\ ~AtEnd /\ ~esc /\ qst = "normal"
      /\ Char \in {"=", "{", "}"} \cup White
  BY DEF WordEnds, InWord
<1>2. text # <<>> /\ Head(text) = Char /\ Char # Cut
  BY <1>1, BeforeSymbol
<1>3. PICK p, q, r :
        /\ Between(p, q) /\ p \in Point /\ r \in Point
        /\ Follows(p, Char, r) /\ config = p.meant /\ ~p.nl
        /\ p.w \in WriterType
  BY <1>1, BeforeSymbol
<1>4. /\ Holds(p.w) /\ word = p.w.word /\ esc = p.esc
      /\ \/ /\ p.w.mode = "out" /\ OtherThan(White)
            /\ step = "BLOCK" => ~Coming({"}"})
            /\ p.w.fresh => OtherThan(White \cup {"#", "["})
         \/ /\ p.w.mode \in InWords
            /\ qst = IF p.w.mode = "bare" THEN "normal" ELSE p.w.mode
      /\ step \in {"START", "BLOCK", "BLOCK_VALUE"}
  BY <1>1, <1>3, AtWord
<1>5. p.w.mode \in {"out", "bare"} /\ ~p.esc
  BY <1>1, <1>4 DEF InWords, Quotes
<1>6. BlankRead(p, Char, r) \/ MarkRead(p, Char, r)
  <2>1. ~WordRead(p, Char, r) /\ Char \notin {"#", "["}
    BY <1>1, SymbolNames DEF WordRead
  <2>. QED
    BY <1>2, <1>3, <1>5, <2>1, PlainFollows DEF CommentBegun, TitleBegun
<1>7. Closes(p.w)
  BY <1>6 DEF BlankRead, MarkRead
<1>8. p.w.mode = "bare"
  <2>. SUFFICES ASSUME p.w.mode = "out" PROVE FALSE
    BY <1>5
  <2>1. OtherThan(White) /\ (step = "BLOCK" => ~Coming({"}"}))
    BY <1>4 DEF InWords, Quotes
  <2>2. MarkRead(p, Char, r)
    BY <1>2, <1>6, <2>1 DEF BlankRead, OtherThan
  <2>3. Closed(p.w).step = step
    BY <1>3, <1>4, <1>7, ClosedFacts DEF Holds
  <2>4. step = "BLOCK" /\ Char = "}"
    BY <1>4, <2>2, <2>3 DEF MarkRead
  <2>. QED
    BY <1>2, <2>1, <2>4 DEF Coming
<1>. QED
  BY <1>1, <1>2, <1>3, <1>4, <1>5, <1>7, <1>8 DEF Coming

\* What parseActions does with a word.
LEMMA WordReturns ==
  ASSUME IInv, Followed, UNCHANGED fileVars,
         ActionName \/ PropertyName \/ PropertyValue
  PROVE  Followed'
<1>1. WordEnds
  BY DEF ActionName, PropertyName, PropertyValue
<1>2. Coming({"=", "{", "}"} \cup White)
  BY <1>1, WordOver
<1>3. PICK p, q :
        /\ Between(p, q) /\ p \in Point /\ config = p.meant
        /\ p.w.mode = "bare" /\ ~p.esc /\ ~p.nl /\ Closes(p.w)
        /\ Holds(p.w) /\ word = p.w.word
  BY <1>1, WordOver
<1>. DEFINE k == Closed(p.w)
<1>4. k.prop \in {Pattern, Command}
  BY <1>3, ClosedFacts DEF WriterType
<1>5. \/ /\ step = "START" /\ word # <<>> /\ k.step = "NAME"
         /\ k.action = [action EXCEPT !.name = word] /\ k.prop = blockval
      \/ /\ step = "BLOCK" /\ k.step = "BLOCK_NAME" /\ k.action = action
         /\ k.prop = Head(word) /\ word = <<k.prop>> /\ action[k.prop] = None
      \/ /\ step = "BLOCK_VALUE" /\ k.step = "BLOCK"
         /\ k.action = [action EXCEPT ![blockval] = word] /\ k.prop = blockval
  <2>1. step = p.w.step /\ action = p.w.action /\ blockval = p.w.prop
        /\ word = p.w.word
    BY <1>3 DEF Holds
  <2>. QED
    BY <1>3, <2>1, ClosedFacts
<1>. HIDE DEF k
<1>6. Returned /\ step' = k.step /\ action' = k.action /\ blockval' = k.prop
  <2>1. CASE ActionName
    BY <1>5, <2>1 DEF ActionName
  <2>2. CASE PropertyName
    <3>1. step = "BLOCK" /\ word # <<>> /\ Names(k.prop) /\ action[k.prop] = None
      <4>1. step = "BLOCK"
        BY <2>2 DEF PropertyName
      <4>2. k.prop = Head(word) /\ word = <<k.prop>> /\ action[k.prop] = None
        BY <1>5, <4>1
      <4>3. word # <<>>
        BY <4>2
      <4>. QED
        BY <4>1, <4>2, <4>3 DEF Names
    <3>2. \E prop \in {Pattern, Command} : Names(prop) /\ action[prop] = None
      BY <1>4, <3>1
    <3>. QED
      BY <1>5, <2>2, <3>1, <3>2 DEF PropertyName
  <2>3. CASE PropertyValue
    <3>1. action.name # <<>>
      BY DEF IInv
    <3>. QED
      BY <1>5, <2>3, <3>1 DEF PropertyValue
  <2>. QED
    BY <2>1, <2>2, <2>3
<1>7. /\ at' = "blank" /\ UNCHANGED <<text, complete, config>>
      /\ word' = <<>> /\ qst' = "normal" /\ esc' = FALSE
  BY <1>6 DEF Returned, source
<1>8. Place(p)'
  <2>1. NoWord' /\ Holds(Closed(p.w))' /\ Coming({"=", "{", "}"} \cup White)'
    BY <1>2, <1>6, <1>7 DEF NoWord, Holds, Coming, k
  <2>. QED
    BY <1>3, <1>7, <2>1 DEF Place, Past
<1>. QED
  BY <1>3, <1>7, <1>8, Stays DEF Ended

\* Whatever the parser does.
LEMMA ParserStep ==
  ASSUME IInv, Understood, Parse, UNCHANGED fileVars
  PROVE  Understood'
<1>1. UNCHANGED <<kind, slips>>
  BY DEF fileVars
<1>2. ASSUME Followed PROVE Followed'
  BY <1>2, LineStays, LineReads, SectionReads, LineEnds, BlankReads, MarkReads,
     WordBegins, PlainReads, QuotedReads, NeverFull, WordReturns DEF Parse
<1>. QED
  BY <1>1, <1>2 DEF Understood

-----------------------------------------------------------------------------
(* The theorem.                                                            *)

\* Before the file is opened nothing is written, and nothing is meant.
LEMMA UnderstoodFirst ==
  ASSUME FileInit
  PROVE  Understood
<1>. DEFINE p == Goes(writer, meant, FALSE, FALSE)
<1>1. /\ text = <<>> /\ ~complete /\ at = "closed" /\ step = "START"
      /\ action = NoAction /\ blockval = "pattern" /\ NoWord
      /\ needFullLine = FALSE /\ config = <<>> /\ meant = <<>> /\ slips = 0
      /\ kind \in Files
      /\ writer.step = "START" /\ writer.mode = "out" /\ writer.fresh = TRUE
      /\ writer.word = <<>> /\ writer.action = NoAction
      /\ writer.prop = "pattern"
  BY DEF FileInit, Init, NoWord
<1>2. writer \in WriterType
  <2>1. NoAction \in [name : Values, pattern : Values, command : Values]
    BY DEF NoAction, Values
  <2>2. <<>> \in Seq(Symbols) /\ "START" \in Steps
        /\ "pattern" \in {Pattern, Command}
    BY SymbolFacts DEF Steps, Pattern
  <2>. QED
    BY <2>1, <2>2 DEF FileInit, WriterType
<1>3. /\ p.w = writer /\ p.meant = meant /\ ~p.esc /\ ~p.nl /\ ~p.cut
      /\ p \in PointType
  BY <1>1, <1>2 DEF Goes, PointType
<1>. HIDE DEF p
<1>4. p \in Point
  <2>1. Len(<<>>) < BufSize
    BY ConfigAssumption DEF ConfigAssumption
  <2>. QED
    BY <1>1, <1>3, <2>1 DEF Point, Sound, InWords, Quotes
<1>5. Between(p, p)
  <2>1. Leads(p, text, p)
    BY <1>1, <1>4, LeadsNowhere
  <2>2. Place(p)
    BY <1>1, <1>3 DEF Place, Outside, Holds
  <2>3. Ends(p)
    BY <1>3 DEF Ends
  <2>. QED
    BY <2>1, <2>2, <2>3 DEF Between
<1>. QED
  BY <1>1, <1>5 DEF Understood, Followed, Ended

\* What the invariant says at the end of the parsing.
LEMMA UnderstoodMeans == Understood => ReadsWhatWasMeant
  BY DEF Understood, Followed, Verdict, ReadsWhatWasMeant, Ended

\* Writer and parser keep the invariant, whatever the one or the other does.
LEMMA UnderstoodStep ==
  ASSUME IInv, Understood, [FileNext]_allVars
  PROVE  Understood'
<1>1. CASE Parse /\ UNCHANGED fileVars
  BY <1>1, ParserStep
<1>2. CASE WriteFile
  BY <1>2, WriterStep
<1>3. CASE UNCHANGED allVars
  <2>1. UNCHANGED <<text, complete, at, step, action, blockval, word, qst, esc,
                    actionInProgress, needFullLine, title, config,
                    kind, writer, meant, slips>>
    BY <1>3 DEF allVars, vars, source, parser, blocks, words, fileVars
  <2>2. \A p : Outside(p) \/ Inside(p) \/ Past(p) \/ Beside(p) \/ Over(p) =>
                 (Outside(p) \/ Inside(p) \/ Past(p) \/ Beside(p) \/ Over(p))'
    BY <2>1 DEF Outside, Inside, Past, Beside, Over, Holds, NoWord, Coming,
                OtherThan
  <2>3. ASSUME NEW p, NEW q, Between(p, q) PROVE Between(p, q)'
    BY <2>1, <2>2, <2>3 DEF Between, Place, Ends
  <2>4. at' = at /\ (Verdict => Verdict')
    BY <2>1 DEF Verdict
  <2>. QED
    BY <2>1, <2>3, <2>4 DEF Understood, Followed
<1>. QED
  BY <1>1, <1>2, <1>3 DEF FileNext, Terminated

\* A file without mistakes is read as it was meant, in whatever layout: words
\* in quotes, with escapes or without, broken over lines or buffers, between
\* comments and blanks.  One that is cut off is accepted only if no block is,
\* and then all but a last name is read.  No word outgrows the buffer.
THEOREM ReadRight == FileSpec => []ReadsWhatWasMeant
<1>1. FileInit => Understood
  BY UnderstoodFirst
<1>2. IInv /\ Understood /\ [FileNext]_allVars => Understood'
  BY UnderstoodStep
<1>3. Understood => ReadsWhatWasMeant
  BY UnderstoodMeans
<1>4. FileSpec => []IInv
  BY FilesAreTexts, Invariance, PTL
<1>. QED
  BY <1>1, <1>2, <1>3, <1>4, PTL DEF FileSpec

\* So it is when llad starts with it: making the log files leaves what was
\* read as it is, and so the chains of actions are those that were meant.
THEOREM StartupReadRight == StartupSpec => []ReadsWhatWasMeant
<1>1. StartupInit => Understood
  BY UnderstoodFirst DEF StartupInit
<1>2. IInv /\ Understood /\ [StartupNext]_startupVars => Understood'
  <2>. SUFFICES ASSUME IInv, Understood, [StartupNext]_startupVars
                PROVE  Understood'
    OBVIOUS
  <2>1. [FileNext]_allVars
    BY DEF StartupNext, IgnoreSection, MoreSections, NewLogfile, startupVars
  <2>. QED
    BY <2>1, UnderstoodStep
<1>3. Understood => ReadsWhatWasMeant
  BY UnderstoodMeans
<1>4. StartupSpec => []IInv
  BY StartupReads, Invariance, PTL
<1>. QED
  BY <1>1, <1>2, <1>3, <1>4, PTL DEF StartupSpec
=============================================================================
