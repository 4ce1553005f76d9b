---------------------------- MODULE OrderProofs ----------------------------
(***************************************************************************)
(* Proofs about Watcher: every line is handed on once, those of a file in  *)
(* their order, and none that was there before the start.                  *)
(*                                                                         *)
(* What a stream has not passed yet has not been handed on, and of a file  *)
(* that has the name of a log file without being open nothing has: this    *)
(* holds as long as llad does not let go of a file that is still there.    *)
(* With a single rotation it does not, for that takes three changes.       *)
(***************************************************************************)
EXTENDS RotationProofs

-----------------------------------------------------------------------------
(* The lines.                                                              *)

\* Files are written to, removed, created and truncated, and always readable.
Plain ==
  scenario.changes \subseteq {"write", "late", "remove", "create", "truncate"}

\* Lines are numbered as they are written, so those of a file rise, and a line
\* is in one file only; old lines have the number 0.
FileLines ==
  /\ readable = 1..files
  /\ \A i \in Files : i > files => Size(i) = 0
  /\ \A i \in Files : \A k, l \in 1..Size(i) : k < l => content[i][k] < content[i][l]
  /\ \A i, j \in Files : \A k \in 1..Size(i), l \in 1..Size(j) :
       i # j => content[i][k] # content[j][l] \/ content[i][k] = 0

\* The lines of file i after the first p are new, and not handed on for n yet.
Unread(n, i, p) ==
  \A k \in 1..Size(i) : p < k => content[i][k] # 0 /\ content[i][k] \notin MatchedOf(n)

Ahead(n) == file[n].on # NoFile => Unread(n, file[n].on, file[n].pos)

Fresh(n) ==
  entry[n] # NoFile /\ file[n].on # entry[n] =>
    Unread(n, entry[n], 0) \/ (pc = "open" /\ Waiting(n))

\* Each line is handed on once, and those of a file in their order.
OnceEach(n) ==
  /\ 0 \notin MatchedOf(n)
  /\ \A k, l \in DOMAIN matched[n] : k < l =>
       /\ matched[n][k] # matched[n][l]
       /\ \A i \in Files : {matched[n][k], matched[n][l]} \subseteq LinesOf(i)
            => matched[n][k] < matched[n][l]

LinesInv ==
  /\ FileLines
  /\ pc = "openscan" => file[cur] = Closed
  /\ \A n \in Names : OnceEach(n) /\ Ahead(n) /\ Fresh(n)

\* llad does not let go of the file that has the name, as it would if another
\* file of that name had come and gone before it.
StaysOpen ==
  pc \in {"close", "reopen"} => entry[cur] = NoFile \/ file[cur].on # entry[cur]

LEMMA PlainChanges ==
  ASSUME Plain, Others
  PROVE  \/ \E i \in Files : Write(i) \/ Truncate(i)
         \/ \E n \in Names : Remove(n) \/ Create(n)
<1>1. /\ "replace" \notin scenario.changes /\ "revoke" \notin scenario.changes
      /\ "link" \notin scenario.changes /\ "grant" \notin scenario.changes
      /\ "rename" \notin scenario.changes
  BY DEF Plain
<1>. QED
  BY <1>1 DEF Others, Environment, Replace, Revoke, Link, Grant, Rename, Change

\* A line of a file was there before, or it has just been written.
LEMMA LinesChange ==
  ASSUME Plain, TypeInv, FileLines, Others
  PROVE  \E i \in Files : \A j \in Files : \A k \in 1..Size(j)' :
           \/ k \in 1..Size(j) /\ content'[j][k] = content[j][k]
           \/ /\ j = i /\ content'[j][k] = written + 1 /\ k = Size(j)'
              /\ Size(j)' \in Nat
<1>1. /\ content \in [Files -> Seq(0..written)] /\ written \in Nat
      /\ \A j \in Files : Size(j) \in Nat /\ Size(j) = Len(content[j])
  <2>1. scenario.lines \in Nat
    BY LogDirectoryAssumption DEF TypeInv, TypeOK
  <2>. QED
    BY <2>1, LenProperties DEF TypeInv, TypeOK, Size
<1>2. ASSUME NEW i \in Files, Write(i) \/ Truncate(i)
      PROVE  \A j \in Files : \A k \in 1..Size(j)' :
               \/ k \in 1..Size(j) /\ content'[j][k] = content[j][k]
               \/ /\ j = i /\ content'[j][k] = written + 1 /\ k = Size(j)'
                  /\ Size(j)' \in Nat
  <2>. SUFFICES ASSUME NEW j \in Files, NEW k \in 1..Size(j)'
                PROVE  \/ k \in 1..Size(j) /\ content'[j][k] = content[j][k]
                       \/ /\ j = i /\ content'[j][k] = written + 1 /\ k = Size(j)'
                          /\ Size(j)' \in Nat
    OBVIOUS
  <2>1. CASE j # i
    <3>1. content'[j] = content[j]
      BY <1>1, <1>2, <2>1 DEF Write, Truncate
    <3>. QED
      BY <3>1 DEF Size
  <2>2. CASE j = i /\ Write(i)
    <3>. DEFINE T == (0..written) \cup {written + 1}
    <3>1. content'[i] = Append(content[i], written + 1)
      BY <1>1, <2>2 DEF Write
    <3>2. content[i] \in Seq(T) /\ written + 1 \in T
      BY <1>1, SeqMonotonic
    <3>. HIDE DEF T
    <3>3. /\ Len(content'[i]) = Len(content[i]) + 1
          /\ content'[i][Len(content[i]) + 1] = written + 1
          /\ \A l \in 1..Len(content[i]) : content'[i][l] = content[i][l]
      BY <3>1, <3>2, AppendProperties
    <3>. QED
      BY <1>1, <2>2, <3>3 DEF Size
  <2>3. CASE j = i /\ Truncate(i)
    <3>1. content'[i] = <<>>
      BY <1>1, <2>3 DEF Truncate
    <3>2. Len(content'[i]) = 0
      BY <3>1
    <3>. QED
      BY <2>3, <3>2 DEF Size
  <2>. QED
    BY <1>2, <2>1, <2>2, <2>3
<1>3. ASSUME NEW n \in Names, Create(n)
      PROVE  \A j \in Files : \A k \in 1..Size(j)' :
               \/ k \in 1..Size(j) /\ content'[j][k] = content[j][k]
               \/ /\ j = files + 1 /\ content'[j][k] = written + 1 /\ k = Size(j)'
                  /\ Size(j)' \in Nat
  <2>. SUFFICES ASSUME NEW j \in Files, NEW k \in 1..Size(j)'
                PROVE  \/ k \in 1..Size(j) /\ content'[j][k] = content[j][k]
                       \/ /\ j = files + 1 /\ content'[j][k] = written + 1 /\ k = Size(j)'
                          /\ Size(j)' \in Nat
    OBVIOUS
  <2>1. \/ content' = content
        \/ content' = [content EXCEPT ![files + 1] = <<written + 1>>]
    BY <1>3 DEF Create, NewFile
  <2>2. CASE content'[j] = content[j]
    BY <2>2 DEF Size
  <2>3. CASE j = files + 1 /\ content'[j] = <<written + 1>>
    <3>1. Len(content'[j]) = 1 /\ content'[j][1] = written + 1
      BY <2>3
    <3>. QED
      BY <2>3, <3>1 DEF Size
  <2>. QED
    BY <1>1, <2>1, <2>2, <2>3
<1>4. ASSUME NEW n \in Names, Create(n)
      PROVE  files + 1 \in Files
  BY <1>4, LogDirectoryAssumption DEF Create, NewFile, Files, TypeInv, TypeOK
<1>5. ASSUME NEW n \in Names, Remove(n)
      PROVE  \A j \in Files : \A k \in 1..Size(j)' :
               k \in 1..Size(j) /\ content'[j][k] = content[j][k]
  BY <1>5 DEF Remove, contents, Size
<1>6. ASSUME NEW n \in Names, Remove(n)
      PROVE  \E i \in Files : TRUE
  BY <1>6, EntryType DEF Remove
<1>. QED
  BY <1>2, <1>3, <1>4, <1>5, <1>6, PlainChanges


LEMMA FileLinesStep ==
  ASSUME Plain, TypeInv, TypeInv', FileLines, [Next]_vars
  PROVE  FileLines'
<1>1. CASE MainThread \/ UNCHANGED vars
  <2>1. UNCHANGED <<content, readable, files>>
    BY <1>1, MainKeepsFiles DEF vars, dirVars
  <2>. QED
    BY <2>1 DEF FileLines, Size
<1>2. CASE Others
  <2>1. PICK f \in Files : \A j \in Files : \A k \in 1..Size(j)' :
           \/ k \in 1..Size(j) /\ content'[j][k] = content[j][k]
           \/ /\ j = f /\ content'[j][k] = written + 1 /\ k = Size(j)'
              /\ Size(j)' \in Nat
    BY <1>2, LinesChange
  <2>2. /\ written \in Nat /\ files \in Nat /\ MaxFiles \in Nat
        /\ content \in [Files -> Seq(0..written)]
        /\ \A j \in Files : Size(j)' \in Nat /\ Size(j) \in Nat
    <3>1. scenario.lines \in Nat
      BY LogDirectoryAssumption DEF TypeInv, TypeOK
    <3>2. /\ content \in [Files -> Seq(0..written)]
          /\ \A j \in Files : content[j] \in Seq(0..written) /\ content'[j] \in Seq(0..written')
      BY DEF TypeInv, TypeOK
    <3>3. \A j \in Files : Size(j)' \in Nat /\ Size(j) \in Nat
      BY <3>2, LenProperties DEF Size
    <3>4. written \in 0..scenario.lines /\ files \in 0..MaxFiles /\ MaxFiles \in Nat
      BY LogDirectoryAssumption DEF TypeInv, TypeOK
    <3>. QED
      BY <3>1, <3>2, <3>3, <3>4
  <2>3. \A j \in Files : \A k \in 1..Size(j) : content[j][k] \in Nat /\ content[j][k] <= written
    <3>1. \A j \in Files : content[j] \in Seq(0..written)
      BY DEF TypeInv, TypeOK
    <3>2. \A j \in Files : \A k \in 1..Size(j) : content[j][k] \in 0..written
      BY <3>1, ElementOfSeq DEF Size
    <3>. QED
      BY <2>2, <3>2
  <2>4. readable' = 1..files'
    <3>1. CASE \E n \in Names : Create(n)
      <4>1. readable' = readable \cup {files + 1} /\ files' = files + 1
        BY <3>1 DEF Create, NewFile, Plain
      <4>2. \A x \in Nat : 1..x + 1 = (1..x) \cup {x + 1}
        OBVIOUS
      <4>. QED
        BY <2>2, <4>1, <4>2 DEF FileLines
    <3>2. CASE \/ \E i \in Files : Write(i) \/ Truncate(i)
               \/ \E n \in Names : Remove(n)
      BY <3>2 DEF Write, Truncate, Remove, contents, FileLines
    <3>. QED
      BY <1>2, <3>1, <3>2, PlainChanges
  <2>5. ASSUME NEW i \in Files, i > files'
        PROVE  Size(i)' = 0
    <3>1. content'[i] = content[i] /\ files' \in Nat /\ files' >= files
      <4>1. CASE \E n \in Names : Create(n)
        <5>1. /\ files' = files + 1
              /\ \/ content' = content
                 \/ content' = [content EXCEPT ![files + 1] = <<written + 1>>]
          BY <4>1 DEF Create, NewFile
        <5>2. i # files + 1
          BY <2>2, <2>5, <5>1
        <5>. QED
          BY <2>2, <5>1, <5>2
      <4>2. CASE \E j \in Files : Write(j) \/ Truncate(j)
        <5>1. PICK j \in Files : Write(j) \/ Truncate(j)
          BY <4>2
        <5>2. j <= files
          <6>1. CASE Write(j)
            BY <6>1 DEF Write
          <6>2. CASE Truncate(j)
            <7>1. PICK n \in Names : entry[n] = j
              BY <6>2 DEF Truncate, Linked
            <7>2. entry[n] \in 0..files
              BY DEF TypeInv, TypeOK
            <7>. QED
              BY <2>2, <7>1, <7>2
          <6>. QED
            BY <5>1, <6>1, <6>2
        <5>3. files' = files
          BY <5>1 DEF Write, Truncate
        <5>4. j # i
          BY <2>2, <2>5, <5>2, <5>3 DEF Files
        <5>5. content'[i] = content[i]
          BY <2>2, <5>1, <5>4 DEF Write, Truncate
        <5>. QED
          BY <2>2, <5>3, <5>5
      <4>3. CASE \E n \in Names : Remove(n)
        BY <2>2, <4>3 DEF Remove, contents
      <4>. QED
        BY <1>2, <4>1, <4>2, <4>3, PlainChanges
    <3>2. i > files
      BY <2>2, <2>5, <3>1 DEF Files
    <3>. QED
      BY <3>1, <3>2 DEF FileLines, Size
  <2>6. ASSUME NEW i \in Files, NEW k \in 1..Size(i)', NEW l \in 1..Size(i)', k < l
        PROVE  content'[i][k] < content'[i][l]
    <3>1. k \in 1..Size(i) /\ content'[i][k] = content[i][k]
      BY <2>1, <2>2, <2>6
    <3>2. CASE l \in 1..Size(i) /\ content'[i][l] = content[i][l]
      BY <2>6, <3>1, <3>2 DEF FileLines
    <3>3. CASE content'[i][l] = written + 1
      BY <2>2, <2>3, <3>1, <3>3
    <3>. QED
      BY <2>1, <3>2, <3>3
  <2>7. ASSUME NEW i \in Files, NEW j \in Files, NEW k \in 1..Size(i)', NEW l \in 1..Size(j)',
               i # j
        PROVE  content'[i][k] # content'[j][l] \/ content'[i][k] = 0
    <3>1. CASE /\ k \in 1..Size(i) /\ content'[i][k] = content[i][k]
               /\ l \in 1..Size(j) /\ content'[j][l] = content[j][l]
      BY <2>7, <3>1 DEF FileLines
    <3>2. CASE content'[i][k] = written + 1 /\ l \in 1..Size(j) /\ content'[j][l] = content[j][l]
      BY <2>2, <2>3, <3>2
    <3>3. CASE k \in 1..Size(i) /\ content'[i][k] = content[i][k] /\ content'[j][l] = written + 1
      BY <2>2, <2>3, <3>3
    <3>. QED
      BY <2>1, <2>7, <3>1, <3>2, <3>3
  <2>. QED
    BY <2>4, <2>5, <2>6, <2>7 DEF FileLines
<1>. QED
  BY <1>1, <1>2 DEF Next, Asleep

\* What is unread stays so while the files change.
LEMMA UnreadStays ==
  ASSUME Plain, TypeInv, FileLines, Others, NEW n \in Names, NEW i \in Files, NEW p \in Nat,
         Unread(n, i, p)
  PROVE  Unread(n, i, p)'
<1>1. matched' = matched
  BY DEF Others, llad
<1>2. written \in Nat /\ \A x \in MatchedOf(n) : x \in Nat /\ x <= written
  <2>1. scenario.lines \in Nat
    BY LogDirectoryAssumption DEF TypeInv, TypeOK
  <2>2. matched[n] \in Seq(0..written) /\ written \in Nat
    BY <2>1 DEF TypeInv, TypeOK
  <2>3. \A k \in DOMAIN matched[n] : matched[n][k] \in 0..written
    BY <2>2, LenProperties, ElementOfSeq
  <2>. QED
    BY <2>2, <2>3 DEF MatchedOf
<1>. SUFFICES ASSUME NEW k \in 1..Size(i)', p < k
              PROVE  content'[i][k] # 0 /\ content'[i][k] \notin MatchedOf(n)
  BY <1>1 DEF Unread, MatchedOf
<1>3. CASE k \in 1..Size(i) /\ content'[i][k] = content[i][k]
  BY <1>3 DEF Unread
<1>4. CASE content'[i][k] = written + 1
  BY <1>2, <1>4
<1>. QED
  BY <1>3, <1>4, LinesChange

LEMMA OthersLines ==
  ASSUME Plain, TypeInv, TypeInv', LinesInv, Others
  PROVE  LinesInv'
<1>1. /\ UNCHANGED <<pc, cur, todo, file, matched>>
      /\ files \in Nat /\ MaxFiles \in Nat
      /\ \A n \in Names : file[n].pos \in Nat
      /\ \A n \in Names : file[n].on # NoFile => file[n].on \in Files
  <2>1. UNCHANGED <<pc, cur, todo, file, matched>>
    BY DEF Others, llad
  <2>2. files \in 0..MaxFiles /\ MaxFiles \in Nat
    BY LogDirectoryAssumption DEF TypeInv, TypeOK
  <2>3. \A n \in Names : file[n].on \in 0..files /\ file[n].pos \in Nat
    BY DEF TypeInv, TypeOK
  <2>. QED
    BY <2>1, <2>2, <2>3 DEF NoFile, Files
<1>2. FileLines'
  BY FileLinesStep DEF LinesInv, Next
<1>3. ASSUME NEW n \in Names
      PROVE  Ahead(n)'
  BY <1>1, UnreadStays DEF LinesInv, Ahead
<1>4. ASSUME NEW n \in Names
      PROVE  Fresh(n)'
  <2>. SUFFICES ASSUME NEW i, entry'[n] = i, i # NoFile, file[n].on # i,
                       ~(pc = "open" /\ Waiting(n))
                PROVE  Unread(n, i, 0)'
    BY <1>1 DEF Fresh, Waiting
  <2>1. CASE entry'[n] = entry[n]
    <3>1. entry[n] \in Files
      BY <2>1, EntryType
    <3>. QED
      BY <2>1, <3>1, UnreadStays DEF LinesInv, Fresh
  <2>2. CASE entry'[n] # entry[n]
    <3>1. Create(n) /\ i = files + 1
      BY <2>2, PlainChanges DEF Write, Truncate, Remove, Create, NewFile, TypeInv, TypeOK
    <3>2. i \in Files /\ i > files
      BY <1>1, <3>1 DEF Create, NewFile, Files
    <3>3. Unread(n, i, 0)
      BY <3>2 DEF LinesInv, FileLines, Unread
    <3>. QED
      BY <3>2, <3>3, UnreadStays DEF LinesInv
  <2>. QED
    BY <2>1, <2>2
<1>5. ASSUME NEW n \in Names
      PROVE  OnceEach(n)'
  <2>1. OnceEach(n) /\ MatchedOf(n)' = MatchedOf(n)
    BY <1>1 DEF LinesInv, MatchedOf
  <2>2. /\ written \in Nat
        /\ \A k \in DOMAIN matched[n] : matched[n][k] \in Nat /\ matched[n][k] <= written
    <3>1. scenario.lines \in Nat
      BY LogDirectoryAssumption DEF TypeInv, TypeOK
    <3>2. matched[n] \in Seq(0..written) /\ written \in Nat
      BY <3>1 DEF TypeInv, TypeOK
    <3>3. \A k \in DOMAIN matched[n] : matched[n][k] \in 0..written
      BY <3>2, LenProperties, ElementOfSeq
    <3>. QED
      BY <3>2, <3>3
  <2>3. \A i \in Files : \A x : x \in LinesOf(i)' /\ x # written + 1 => x \in LinesOf(i)
    <3>1. \A i \in Files : /\ LinesOf(i) = {content[i][k] : k \in 1..Size(i)}
                           /\ LinesOf(i)' = {content'[i][k] : k \in 1..Size(i)'}
      <4>1. \A i \in Files : /\ content[i] \in Seq(0..written)
                             /\ content'[i] \in Seq(0..written')
        BY DEF TypeInv, TypeOK
      <4>. QED
        BY <4>1, LenProperties DEF LinesOf, Size
    <3>. QED
      BY <3>1, LinesChange DEF LinesInv
  <2>. SUFFICES ASSUME NEW k \in DOMAIN matched[n], NEW l \in DOMAIN matched[n], k < l,
                       NEW i \in Files, {matched[n][k], matched[n][l]} \subseteq LinesOf(i)'
                PROVE  matched[n][k] < matched[n][l]
    BY <1>1, <2>1 DEF OnceEach
  <2>4. matched[n][k] # written + 1 /\ matched[n][l] # written + 1
    BY <2>2
  <2>. QED
    BY <2>1, <2>3, <2>4 DEF OnceEach
<1>. QED
  BY <1>1, <1>2, <1>3, <1>4, <1>5 DEF LinesInv


\* Steps that neither read nor open nor close a file.
LEMMA SameLines ==
  ASSUME TypeInv, LinesInv, UNCHANGED <<entry, content, readable, files, file, matched>>,
         pc' # "openscan" \/ file'[cur'] = Closed,
         \A n \in Names : pc = "open" /\ Waiting(n) => pc' = "open" /\ Waiting(n)'
  PROVE  LinesInv'
<1>1. FileLines'
  BY DEF LinesInv, FileLines, Size
<1>2. \A n \in Names : OnceEach(n)'
  BY DEF LinesInv, OnceEach, MatchedOf, LinesOf
<1>3. ASSUME NEW n \in Names
      PROVE  Ahead(n)' /\ Fresh(n)'
  <2>1. \A i, p : Unread(n, i, p)' <=> Unread(n, i, p)
    BY DEF Unread, MatchedOf, Size
  <2>2. Ahead(n)'
    BY <2>1 DEF LinesInv, Ahead
  <2>3. Fresh(n)'
    BY <2>1 DEF LinesInv, Fresh
  <2>. QED
    BY <2>2, <2>3
<1>. QED
  BY <1>1, <1>2, <1>3 DEF LinesInv

\* A stream that is opened or closed.
LEMMA StreamLines ==
  ASSUME TypeInv, LinesInv, UNCHANGED <<entry, content, readable, files, matched>>,
         NEW n \in Names, NEW s, file' = [file EXCEPT ![n] = s],
         pc' # "openscan" \/ file'[cur'] = Closed,
         \A m \in Names : m # n /\ pc = "open" /\ Waiting(m) => pc' = "open" /\ Waiting(m)',
         s.on # NoFile => Unread(n, s.on, s.pos),
         entry[n] # NoFile /\ s.on # entry[n] => Unread(n, entry[n], 0)
  PROVE  LinesInv'
<1>1. FileLines'
  BY DEF LinesInv, FileLines, Size
<1>2. \A m \in Names : OnceEach(m)'
  BY DEF LinesInv, OnceEach, MatchedOf, LinesOf
<1>3. file'[n] = s /\ \A m \in Names : m # n => file'[m] = file[m]
  BY DEF TypeInv, TypeOK
<1>4. Ahead(n)' /\ Fresh(n)'
  BY <1>3 DEF Ahead, Fresh, Unread, MatchedOf, Size
<1>5. \A m \in Names : m # n => Ahead(m)' /\ Fresh(m)'
  BY <1>3 DEF LinesInv, Ahead, Fresh, Unread, MatchedOf, Size
<1>. QED
  BY <1>1, <1>2, <1>4, <1>5 DEF LinesInv

\* A file that has a name can be opened.
LEMMA FoundPlain ==
  ASSUME TypeInv, FileLines, NEW n \in Names
  PROVE  /\ Found(n) = entry[n]
         /\ entry[n] # NoFile => Size(entry[n]) \in Nat /\ entry[n] \in Files
<1>1. entry[n] # NoFile => entry[n] \in 1..files /\ entry[n] \in Files
  BY EntryType
<1>2. entry[n] # NoFile => Size(entry[n]) \in Nat
  BY <1>1, LenProperties DEF TypeInv, TypeOK, Size
<1>. QED
  BY <1>1, <1>2 DEF Found, FileLines, NoFile

LEMMA OpenLines ==
  ASSUME TypeInv, LinesInv, OpenLog \/ OpenToScan \/ ReopenTruncated
  PROVE  LinesInv'
<1>1. UNCHANGED <<entry, content, readable, files, matched>>
  BY DEF OpenLog, OpenToScan, ReopenTruncated, dirVars
<1>2. \A n \in Names, i \in Files : Size(i) \in Nat => Unread(n, i, Size(i))
  BY DEF Unread
<1>3. FileLines
  BY DEF LinesInv
<1>4. CASE OpenLog
  <2>. DEFINE n == Head(todo)
              s == IF Found(n) = NoFile THEN Closed ELSE Stream(Found(n), Size(Found(n)))
  <2>1. /\ n \in Names /\ file' = [file EXCEPT ![n] = s]
        /\ pc = "open" /\ pc' = "open" /\ todo # <<>> /\ todo' = Tail(todo)
        /\ todo \in Seq(Names)
    BY <1>4, HeadTailProperties DEF OpenLog, TypeInv, TypeOK
  <2>2. \A m \in Names : m # n /\ Waiting(m) => Waiting(m)'
    <3>. SUFFICES ASSUME NEW m \in Names, m # n, NEW k \in 1..Len(todo), todo[k] = m
                  PROVE  Waiting(m)'
      BY DEF Waiting
    <3>1. /\ Len(Tail(todo)) = Len(todo) - 1 /\ Head(todo) = todo[1] /\ Len(todo) \in Nat
          /\ \A l \in 1..Len(Tail(todo)) : Tail(todo)[l] = todo[l + 1]
      BY <2>1, HeadTailProperties, LenProperties
    <3>2. k # 1
      BY <3>1
    <3>3. k - 1 \in 1..Len(Tail(todo)) /\ (k - 1) + 1 = k
      BY <3>1, <3>2
    <3>4. Tail(todo)[k - 1] = m
      BY <3>1, <3>3
    <3>. QED
      BY <2>1, <3>3, <3>4 DEF Waiting
  <2>3. /\ Found(n) = entry[n]
        /\ entry[n] # NoFile => Size(entry[n]) \in Nat /\ entry[n] \in Files
    BY <1>3, <2>1, FoundPlain
  <2>4. /\ s.on # NoFile => Unread(n, s.on, s.pos)
        /\ entry[n] # NoFile => s.on = entry[n]
    BY <1>2, <2>1, <2>3 DEF Closed, Stream
  <2>. HIDE DEF s, n
  <2>. QED
    BY <1>1, <2>1, <2>2, <2>4, StreamLines
<1>5. CASE OpenToScan \/ ReopenTruncated
  <2>1. cur \in Names /\ pc # "open" /\ pc' # "openscan" /\ cur' = cur
    BY <1>5 DEF OpenToScan, ReopenTruncated, Goes, TypeInv, Shape, Handling
  <2>2. /\ Found(cur) = entry[cur]
        /\ entry[cur] # NoFile => Size(entry[cur]) \in Nat /\ entry[cur] \in Files
    BY <1>3, <2>1, FoundPlain
  <2>3. CASE file' = file
    BY <1>1, <2>1, <2>3, SameLines
  <2>4. ASSUME NEW s, file' = [file EXCEPT ![cur] = s],
               s.on # NoFile => Unread(cur, s.on, s.pos),
               entry[cur] # NoFile => s.on = entry[cur]
        PROVE  LinesInv'
    BY <1>1, <2>1, <2>4, StreamLines
  <2>5. entry[cur] # NoFile => Unread(cur, entry[cur], Size(entry[cur]))
    BY <1>2, <2>1, <2>2
  <2>6. CASE OpenToScan
    <3>1. entry[cur] # NoFile => Unread(cur, entry[cur], 0)
      BY <2>1, <2>6 DEF OpenToScan, LinesInv, Fresh, Closed
    <3>2. \/ file' = file
          \/ entry[cur] # NoFile /\ file' = [file EXCEPT ![cur] = Stream(entry[cur], 0)]
          \/ /\ entry[cur] # NoFile
             /\ file' = [file EXCEPT ![cur] = Stream(entry[cur], Size(entry[cur]))]
      BY <2>2, <2>6 DEF OpenToScan
    <3>. QED
      BY <2>3, <2>4, <2>5, <3>1, <3>2 DEF Stream
  <2>7. CASE ReopenTruncated
    <3>1. \/ entry[cur] = NoFile /\ file' = [file EXCEPT ![cur] = Closed]
          \/ /\ entry[cur] # NoFile
             /\ file' = [file EXCEPT ![cur] = Stream(entry[cur], Size(entry[cur]))]
      BY <2>2, <2>7 DEF ReopenTruncated
    <3>. QED
      BY <2>4, <2>5, <3>1 DEF Stream, Closed
  <2>. QED
    BY <1>5, <2>6, <2>7
<1>. QED
  BY <1>4, <1>5


\* What is handed on by GetLines is what the stream passes.
LEMMA LinesPassed ==
  ASSUME TypeInv, GetLines
  PROVE  LET s == file[cur]
             m == matched[cur]
         IN  /\ cur \in Names /\ s.on \in Files /\ s.pos \in Nat
             /\ Len(m) \in Nat /\ DOMAIN m = 1..Len(m)
             /\ \E c \in Nat :
                  /\ file'[cur].on = s.on /\ file'[cur].pos = s.pos + c
                  /\ c # 0 => s.pos + c = Size(s.on)
                  /\ DOMAIN matched'[cur] = 1..(Len(m) + c)
                  /\ \A k \in 1..Len(m) : matched'[cur][k] = m[k]
                  /\ \A k \in 1..c : matched'[cur][Len(m) + k] = content[s.on][s.pos + k]
             /\ \A n \in Names : n # cur => file'[n] = file[n] /\ matched'[n] = matched[n]
             /\ UNCHANGED <<dirVars, cur, todo>> /\ pc = "gets" /\ pc' # "openscan"
<1>. DEFINE s     == file[cur]
            old   == matched[cur]
            lines == IF s.eof /\ StickyEOF THEN <<>>
                     ELSE SubSeq(content[s.on], s.pos + 1, Size(s.on))
<1>1. /\ cur \in Names /\ s.on \in Files /\ s.pos \in Nat
      /\ lines \in Seq(0..written) /\ Len(lines) \in Nat
      /\ \A k \in 1..Len(lines) : lines[k] = content[s.on][s.pos + k]
      /\ lines # <<>> => s.pos + Len(lines) = Size(s.on)
      /\ lines = <<>> => Len(lines) = 0
      /\ matched' = [matched EXCEPT ![cur] = @ \o lines]
      /\ file' = [file EXCEPT ![cur].pos = @ + Len(lines), ![cur].eof = (lines = <<>>)]
      /\ pc = "gets" /\ pc' # "openscan"
      /\ UNCHANGED <<dirVars, cur, todo>>
  BY LinesRead
<1>2. /\ file \in [Names -> [on : 0..files, pos : Nat, eof : BOOLEAN]]
      /\ matched \in [Names -> Seq(0..written)]
  BY DEF TypeInv, TypeOK
<1>. HIDE DEF lines
<1>3. /\ file'[cur].on = s.on /\ file'[cur].pos = s.pos + Len(lines)
      /\ matched'[cur] = old \o lines
      /\ \A n \in Names : n # cur => file'[n] = file[n] /\ matched'[n] = matched[n]
  BY <1>1, <1>2
<1>4. old \in Seq(0..written) /\ Len(old) \in Nat /\ DOMAIN old = 1..Len(old)
  BY <1>1, <1>2, LenProperties
<1>. HIDE DEF old
<1>5. /\ DOMAIN (old \o lines) = 1..(Len(old) + Len(lines))
      /\ \A k \in 1..Len(old) : (old \o lines)[k] = old[k]
      /\ \A k \in 1..Len(lines) : (old \o lines)[Len(old) + k] = lines[k]
  <2>1. /\ old \o lines \in Seq(0..written) /\ Len(old \o lines) = Len(old) + Len(lines)
        /\ \A k \in 1..Len(old) + Len(lines) :
             (old \o lines)[k] = IF k <= Len(old) THEN old[k] ELSE lines[k - Len(old)]
    BY <1>1, <1>4, ConcatProperties
  <2>2. DOMAIN (old \o lines) = 1..(Len(old) + Len(lines))
    BY <2>1, LenProperties
  <2>3. \A k \in 1..Len(lines) : /\ Len(old) + k \in 1..Len(old) + Len(lines)
                                 /\ ~(Len(old) + k <= Len(old))
                                 /\ (Len(old) + k) - Len(old) = k
    BY <1>1, <1>4
  <2>4. \A k \in 1..Len(old) : k \in 1..Len(old) + Len(lines) /\ k <= Len(old)
    BY <1>1, <1>4
  <2>5. \A k \in 1..Len(old) : (old \o lines)[k] = old[k]
    BY <2>1, <2>4
  <2>6. \A k \in 1..Len(lines) : (old \o lines)[Len(old) + k] = lines[k]
    BY <2>1, <2>3
  <2>. QED
    BY <2>2, <2>5, <2>6
<1>6. \E c \in Nat :
        /\ file'[cur].on = s.on /\ file'[cur].pos = s.pos + c
        /\ c # 0 => s.pos + c = Size(s.on)
        /\ DOMAIN matched'[cur] = 1..(Len(old) + c)
        /\ \A k \in 1..Len(old) : matched'[cur][k] = old[k]
        /\ \A k \in 1..c : matched'[cur][Len(old) + k] = content[s.on][s.pos + k]
  <2>. WITNESS Len(lines) \in Nat
  <2>. QED
    BY <1>1, <1>3, <1>5
<1>. QED
  BY <1>1, <1>3, <1>4, <1>6 DEF old

LEMMA GetLinesLines ==
  ASSUME TypeInv, TypeInv', LinesInv, GetLines
  PROVE  LinesInv'
<1>. DEFINE s == file[cur]
            m == matched[cur]
            f == content[file[cur].on]
            z == Size(file[cur].on)
<1>1. /\ cur \in Names /\ s.on \in Files /\ s.pos \in Nat
      /\ Len(m) \in Nat /\ DOMAIN m = 1..Len(m)
      /\ \A n \in Names : n # cur => file'[n] = file[n] /\ matched'[n] = matched[n]
      /\ UNCHANGED <<entry, content, readable, files, cur, todo>>
      /\ pc = "gets" /\ pc' # "openscan"
  BY LinesPassed DEF dirVars
<1>2. PICK c \in Nat :
        /\ file'[cur].on = s.on /\ file'[cur].pos = s.pos + c
        /\ c # 0 => s.pos + c = z
        /\ DOMAIN matched'[cur] = 1..(Len(m) + c)
        /\ \A k \in 1..Len(m) : matched'[cur][k] = m[k]
        /\ \A k \in 1..c : matched'[cur][Len(m) + k] = f[s.pos + k]
  BY LinesPassed
<1>3. /\ z \in Nat /\ f \in Seq(0..written)
      /\ \A i \in Files : /\ Size(i) \in Nat
                          /\ LinesOf(i) = {content[i][k] : k \in 1..Size(i)}
  <2>1. \A i \in Files : content[i] \in Seq(0..written)
    BY DEF TypeInv, TypeOK
  <2>. QED
    BY <1>1, <2>1, LenProperties DEF LinesOf, Size
<1>4. /\ MatchedOf(cur) = {m[k] : k \in 1..Len(m)}
      /\ MatchedOf(cur)' = {matched'[cur][k] : k \in 1..(Len(m) + c)}
  BY <1>1, <1>2 DEF MatchedOf
<1>5. /\ \A k \in 1..c : s.pos + k \in 1..z /\ s.pos < s.pos + k
      /\ \A k \in 1..(Len(m) + c) : \/ k \in 1..Len(m)
                                    \/ k - Len(m) \in 1..c /\ Len(m) + (k - Len(m)) = k
  <2>1. \A a, b \in Nat : \A k \in 1..(a + b) :
          k \in 1..a \/ (k - a \in 1..b /\ a + (k - a) = k)
    OBVIOUS
  <2>2. \A k \in 1..c : s.pos + k \in 1..z /\ s.pos < s.pos + k
    <3>1. \A p, y \in Nat : (c # 0 => p + c = y) =>
            \A k \in 1..c : p + k \in 1..y /\ p < p + k
      BY <1>2
    <3>. QED
      BY <1>1, <1>2, <1>3, <3>1
  <2>. QED
    BY <1>1, <2>1, <2>2
<1>6. /\ \A k \in 1..z : s.pos < k => f[k] # 0 /\ f[k] \notin MatchedOf(cur)
      /\ \A k, l \in 1..z : k < l => f[k] < f[l]
  <2>1. s.on # NoFile
    BY <1>1 DEF Files, NoFile
  <2>. QED
    BY <1>1, <2>1 DEF LinesInv, FileLines, Ahead, Unread
<1>7. \A x \in MatchedOf(cur)' : x \in MatchedOf(cur) \/ \E k \in 1..c : x = f[s.pos + k]
  <2>. SUFFICES ASSUME NEW k \in 1..(Len(m) + c)
                PROVE  \/ matched'[cur][k] \in MatchedOf(cur)
                       \/ \E l \in 1..c : matched'[cur][k] = f[s.pos + l]
    BY <1>4
  <2>1. CASE k \in 1..Len(m)
    BY <1>2, <1>4, <2>1
  <2>2. CASE k - Len(m) \in 1..c /\ Len(m) + (k - Len(m)) = k
    BY <1>2, <2>2
  <2>. QED
    BY <1>5, <2>1, <2>2
<1>. HIDE DEF s, m, f, z
<1>8. FileLines'
  BY <1>1 DEF LinesInv, FileLines, Size
<1>9. ASSUME NEW n \in Names, n # cur
      PROVE  OnceEach(n)' /\ Ahead(n)' /\ Fresh(n)'
  <2>1. \A i, p : Unread(n, i, p)' <=> Unread(n, i, p)
    BY <1>1, <1>9 DEF Unread, MatchedOf, Size
  <2>2. OnceEach(n)'
    BY <1>1, <1>9 DEF LinesInv, OnceEach, MatchedOf, LinesOf
  <2>3. Ahead(n)' /\ Fresh(n)'
    BY <1>1, <1>9, <2>1 DEF LinesInv, Ahead, Fresh
  <2>. QED
    BY <2>2, <2>3
<1>10. Ahead(cur)'
  <2>. SUFFICES ASSUME NEW k \in 1..z, s.pos + c < k
                PROVE  f[k] # 0 /\ f[k] \notin MatchedOf(cur)'
    BY <1>1, <1>2 DEF Ahead, Unread, Size, f, z, s
  <2>1. c = 0 /\ s.pos < k
    BY <1>1, <1>2, <1>3
  <2>2. MatchedOf(cur)' \subseteq MatchedOf(cur)
    BY <1>7, <2>1
  <2>. QED
    BY <1>6, <2>1, <2>2
<1>11. Fresh(cur)'
  <2>. SUFFICES ASSUME entry[cur] # NoFile, s.on # entry[cur],
                       NEW k \in 1..Size(entry[cur]), 0 < k
                PROVE  /\ content[entry[cur]][k] # 0
                       /\ content[entry[cur]][k] \notin MatchedOf(cur)'
    BY <1>1, <1>2 DEF Fresh, Unread, Size, s
  <2>1. entry[cur] \in Files
    BY <1>1, EntryType
  <2>2. /\ content[entry[cur]][k] # 0
        /\ content[entry[cur]][k] \notin MatchedOf(cur)
    BY <1>1, <2>1 DEF LinesInv, Fresh, Unread, s
  <2>3. ASSUME NEW l \in 1..c
        PROVE  content[entry[cur]][k] # f[s.pos + l]
    BY <1>1, <1>5, <2>1, <2>2 DEF LinesInv, FileLines, f, z, s
  <2>. QED
    BY <1>7, <2>2, <2>3
<1>12. OnceEach(cur)'
  <2>1. 0 \notin MatchedOf(cur)'
    <3>1. \A k \in 1..c : f[s.pos + k] # 0
      BY <1>5, <1>6
    <3>. QED
      BY <1>1, <1>7, <3>1 DEF LinesInv, OnceEach
  <2>2. ASSUME NEW k \in 1..(Len(m) + c), NEW l \in 1..(Len(m) + c), k < l
        PROVE  /\ matched'[cur][k] # matched'[cur][l]
               /\ \A i \in Files : {matched'[cur][k], matched'[cur][l]} \subseteq LinesOf(i)
                    => matched'[cur][k] < matched'[cur][l]
    <3>1. CASE l \in 1..Len(m)
      <4>1. k \in 1..Len(m)
        BY <1>1, <2>2, <3>1
      <4>2. matched'[cur][k] = m[k] /\ matched'[cur][l] = m[l]
        BY <1>2, <3>1, <4>1
      <4>. QED
        BY <1>1, <2>2, <3>1, <4>1, <4>2 DEF LinesInv, OnceEach, m
    <3>2. CASE k \in 1..Len(m) /\ l \notin 1..Len(m)
      <4>1. PICK d \in 1..c : matched'[cur][l] = f[s.pos + d]
        BY <1>2, <1>5, <2>2, <3>2
      <4>2. /\ matched'[cur][k] \in MatchedOf(cur)
            /\ s.pos + d \in 1..z /\ f[s.pos + d] # 0
            /\ f[s.pos + d] \notin MatchedOf(cur)
        BY <1>2, <1>4, <1>5, <1>6, <3>2
      <4>3. ASSUME NEW i \in Files, {matched'[cur][k], matched'[cur][l]} \subseteq LinesOf(i)
            PROVE  matched'[cur][k] < matched'[cur][l]
        <5>1. i = s.on
          <6>1. PICK e \in 1..Size(i) : f[s.pos + d] = content[i][e]
            BY <1>3, <4>1, <4>3
          <6>. QED
            BY <1>1, <4>2, <6>1 DEF LinesInv, FileLines, f, z, s
        <5>2. PICK e \in 1..z : matched'[cur][k] = f[e]
          BY <1>3, <4>3, <5>1 DEF f, z, s
        <5>3. ~(s.pos < e)
          BY <1>6, <4>2, <5>2
        <5>4. e < s.pos + d
          <6>1. s.pos \in Nat /\ e \in Nat /\ d \in Nat /\ d >= 1
            BY <1>1, <1>3
          <6>. QED
            BY <5>3, <6>1
        <5>. QED
          BY <1>6, <4>1, <4>2, <5>2, <5>4
      <4>. QED
        BY <4>1, <4>2, <4>3
    <3>3. CASE k \notin 1..Len(m) /\ l \notin 1..Len(m)
      <4>1. /\ k - Len(m) \in 1..c /\ matched'[cur][k] = f[s.pos + (k - Len(m))]
            /\ l - Len(m) \in 1..c /\ matched'[cur][l] = f[s.pos + (l - Len(m))]
        <5>1. /\ k - Len(m) \in 1..c /\ Len(m) + (k - Len(m)) = k
              /\ l - Len(m) \in 1..c /\ Len(m) + (l - Len(m)) = l
          BY <1>5, <2>2, <3>3
        <5>. QED
          BY <1>2, <5>1
      <4>2. f[s.pos + (k - Len(m))] < f[s.pos + (l - Len(m))]
        <5>1. s.pos + (k - Len(m)) < s.pos + (l - Len(m))
          BY <1>1, <2>2
        <5>. QED
          BY <1>5, <1>6, <4>1, <5>1
      <4>3. matched'[cur][k] \in Nat /\ matched'[cur][l] \in Nat
        <5>1. matched'[cur] \in Seq(0..written')
          BY <1>1 DEF TypeInv, TypeOK
        <5>2. matched'[cur][k] \in 0..written' /\ matched'[cur][l] \in 0..written'
          BY <1>2, <2>2, <5>1, LenProperties, ElementOfSeq
        <5>. QED
          BY <5>2
      <4>. QED
        BY <4>1, <4>2, <4>3
    <3>. QED
      BY <2>2, <3>1, <3>2, <3>3
  <2>. QED
    BY <1>1, <1>2, <2>1, <2>2 DEF OnceEach, LinesOf
<1>. QED
  BY <1>1, <1>8, <1>9, <1>10, <1>11, <1>12 DEF LinesInv


LEMMA LinesStep ==
  ASSUME Plain, StaysOpen, TypeInv, TypeInv', LinesInv, [Next]_vars
  PROVE  LinesInv'
<1>1. CASE OpenLog \/ OpenToScan \/ ReopenTruncated
  BY <1>1, OpenLines
<1>2. CASE logfile_close \/ CloseToReopen
  <2>1. /\ cur \in Names /\ pc # "open" /\ cur' = cur
        /\ UNCHANGED <<entry, content, readable, files, matched>>
        /\ file' = [file EXCEPT ![cur] = Closed]
        /\ entry[cur] = NoFile \/ file[cur].on # entry[cur]
    BY <1>2 DEF logfile_close, CloseToReopen, Goes, StaysOpen, TypeInv, Shape, Handling, dirVars
  <2>2. Closed.on = NoFile
    BY DEF Closed
  <2>3. entry[cur] # NoFile => Unread(cur, entry[cur], 0)
    BY <2>1 DEF LinesInv, Fresh
  <2>4. file'[cur'] = Closed
    BY <2>1 DEF TypeInv, TypeOK
  <2>. HIDE DEF Closed
  <2>. QED
    BY <2>1, <2>2, <2>3, <2>4, StreamLines
<1>3. CASE GetLines
  BY <1>3, GetLinesLines
<1>4. CASE Others
  BY <1>4, OthersLines
<1>5. CASE \/ AllOpened \/ RegisterDir \/ RegisterFile \/ AllWatched \/ ReadEvents
           \/ HandleEvent \/ RemoveWatch \/ AddWatch \/ CheckFile \/ UNCHANGED vars
  <2>1. UNCHANGED <<entry, content, readable, files, file, matched>>
    BY <1>5 DEF AllOpened, RegisterDir, RegisterFile, AllWatched, ReadEvents, HandleEvent,
       RemoveWatch, AddWatch, CheckFile, dirVars, llad, vars, contents
  <2>2. pc' # "openscan" \/ file'[cur'] = Closed
    BY <1>5, <2>1 DEF AllOpened, RegisterDir, RegisterFile, AllWatched, ReadEvents, HandleEvent,
       RemoveWatch, AddWatch, CheckFile, Goes, llad, vars, LinesInv
  <2>3. ASSUME NEW n \in Names, pc = "open", Waiting(n)
        PROVE  pc' = "open" /\ Waiting(n)'
    <3>1. todo # <<>>
      <4>1. Len(<<>>) = 0
        OBVIOUS
      <4>. QED
        BY <2>3, <4>1 DEF Waiting
    <3>2. pc' = "open" /\ todo' = todo
      BY <1>5, <2>3, <3>1 DEF AllOpened, RegisterDir, RegisterFile, AllWatched, ReadEvents,
         HandleEvent, RemoveWatch, AddWatch, CheckFile, Goes, llad, vars
    <3>. QED
      BY <2>3, <3>2 DEF Waiting
  <2>. QED
    BY <2>1, <2>2, <2>3, SameLines
<1>. QED
  BY <1>1, <1>2, <1>3, <1>4, <1>5 DEF Next, MainThread, Asleep

LEMMA LinesInit ==
  ASSUME Init
  PROVE  LinesInv
<1>1. /\ readable = 1..files /\ files \in 0..MaxFiles /\ pc = "open" /\ todo = LogList
      /\ content = [i \in Files |-> IF i <= files THEN <<0>> ELSE <<>>]
      /\ file = [n \in Names |-> Closed] /\ matched = [n \in Names |-> <<>>]
  BY DEF Init, DirInit
<1>2. \A i \in Files : /\ Size(i) \in {0, 1} /\ (i > files => Size(i) = 0)
                       /\ \A k \in 1..Size(i) : k = 1 /\ content[i][k] = 0
  <2>. SUFFICES ASSUME NEW i \in Files
                PROVE  /\ Size(i) \in {0, 1} /\ (i > files => Size(i) = 0)
                       /\ \A k \in 1..Size(i) : k = 1 /\ content[i][k] = 0
    OBVIOUS
  <2>1. CASE i <= files
    <3>1. content[i] = <<0>> /\ Len(<<0>>) = 1 /\ <<0>>[1] = 0
      BY <1>1, <2>1
    <3>2. Size(i) = 1 /\ content[i][1] = 0
      BY <3>1, Zenon DEF Size
    <3>3. ~(i > files)
      BY <1>1, <2>1, LogDirectoryAssumption DEF Files
    <3>. QED
      BY <3>2, <3>3
  <2>2. CASE ~(i <= files)
    <3>1. content[i] = <<>> /\ Len(<<>>) = 0
      BY <1>1, <2>2
    <3>2. Size(i) = 0
      BY <3>1, Zenon DEF Size
    <3>. QED
      BY <3>2
  <2>. QED
    BY <2>1, <2>2
<1>3. FileLines
  BY <1>1, <1>2 DEF FileLines
<1>4. ASSUME NEW n \in Names
      PROVE  OnceEach(n) /\ Ahead(n) /\ Fresh(n)
  <2>1. Waiting(n)
    BY <1>1, WatcherAssumption, LenProperties DEF Waiting
  <2>2. DOMAIN matched[n] = {}
    BY <1>1
  <2>. QED
    BY <1>1, <2>1, <2>2 DEF OnceEach, MatchedOf, Ahead, Fresh, Closed
<1>. QED
  BY <1>1, <1>3, <1>4 DEF LinesInv

\* Whatever is written to the log files, deleted, created and truncated, also
\* before everything is watched, and whatever inotify drops: as long as llad does
\* not let go of a file that still has the name of the log file, each line is
\* handed on once, those of a file in their order, and no line that was there
\* before the start.
THEOREM OnceWhileOpen ==
  Spec /\ []StaysOpen => [](Plain => \A n \in Names : OnceEach(n))
<1>. DEFINE Inv == TypeInv /\ (Plain => LinesInv)
<1>1. Init => Inv
  BY TypeInit, LinesInit
<1>2. Inv /\ StaysOpen /\ [Next]_vars => Inv'
  <2>. SUFFICES ASSUME Inv, StaysOpen, [Next]_vars
                PROVE  Inv'
    OBVIOUS
  <2>1. TypeInv' /\ scenario' = scenario
    BY TypeStep, ScenarioStays
  <2>2. Plain' => LinesInv'
    BY <2>1, LinesStep DEF Plain
  <2>. QED
    BY <2>1, <2>2
<1>3. Inv => (Plain => \A n \in Names : OnceEach(n))
  BY DEF LinesInv
<1>. QED
  BY <1>1, <1>2, <1>3, PTL DEF Spec


-----------------------------------------------------------------------------
(* A single rotation.  That llad lets go of a file that is there takes      *)
(* three changes: the name comes into being (or its file is truncated),     *)
(* goes away, and comes into being again, before llad has handled the       *)
(* going away.  The invariant counts them.                                  *)

HereAway(p, n) ==
  \E j, k \in 1..Len(p) : j < k /\ Here(p[j], n) /\ Away(p[k], n)

\* q tells no more of n than p.
NoMore(p, q, n) ==
  /\ AwayIn(q, n) => AwayIn(p, n)
  /\ HereIn(q, n) => HereIn(p, n)
  /\ HereAway(q, n) => HereAway(p, n)

LEMMA ShortenedNoMore ==
  ASSUME NEW p, NEW q, NEW n, Len(p) \in Nat, Len(q) \in Nat, Shortened(p, q)
  PROVE  NoMore(p, q, n) /\ (Here(p[1], n) /\ AwayIn(q, n) => HereAway(p, n))
<1>1. /\ 1 \in 1..Len(p)
      /\ \A k \in 1..Len(q) : k + 1 \in 1..Len(p) /\ q[k] = p[k + 1] /\ 1 < k + 1
  BY DEF Shortened
<1>2. (AwayIn(q, n) => AwayIn(p, n)) /\ (HereIn(q, n) => HereIn(p, n))
  BY <1>1 DEF AwayIn, HereIn
<1>3. ASSUME HereAway(q, n) PROVE HereAway(p, n)
  <2>1. PICK j, k \in 1..Len(q) : j < k /\ Here(q[j], n) /\ Away(q[k], n)
    BY <1>3 DEF HereAway
  <2>2. /\ j + 1 \in 1..Len(p) /\ k + 1 \in 1..Len(p) /\ j + 1 < k + 1
        /\ Here(p[j + 1], n) /\ Away(p[k + 1], n)
    BY <1>1, <2>1
  <2>. QED
    BY <2>2 DEF HereAway
<1>4. ASSUME Here(p[1], n), AwayIn(q, n) PROVE HereAway(p, n)
  <2>1. PICK k \in 1..Len(q) : Away(q[k], n)
    BY <1>4 DEF AwayIn
  <2>. QED
    BY <1>1, <1>4, <2>1 DEF HereAway
<1>. QED
  BY <1>2, <1>3, <1>4 DEF NoMore

LEMMA ReplacedNoMore ==
  ASSUME NEW p, NEW q, NEW e, NEW n, Len(p) \in Nat, Len(q) \in Nat, Replaced(p, q, e),
         Away(e, n) => Away(p[1], n), Here(e, n) => Here(p[1], n)
  PROVE  NoMore(p, q, n)
<1>1. /\ Len(p) = Len(q)
      /\ \A k \in 1..Len(q) : k = 1 \/ k \in 2..Len(q)
  BY DEF Replaced
<1>2. \A k \in 1..Len(q) : /\ Away(q[k], n) => Away(p[k], n)
                           /\ Here(q[k], n) => Here(p[k], n)
  BY <1>1 DEF Replaced
<1>. QED
  BY <1>1, <1>2 DEF NoMore, AwayIn, HereIn, HereAway

LEMMA ExtendedMore ==
  ASSUME NEW p, NEW q, NEW e, NEW n, Len(p) \in Nat, Len(q) \in Nat, Extended(p, q, e)
  PROVE  /\ AwayIn(q, n) => AwayIn(p, n) \/ Away(e, n)
         /\ HereIn(q, n) => HereIn(p, n) \/ Here(e, n)
         /\ HereAway(q, n) => HereAway(p, n) \/ (HereIn(p, n) /\ Away(e, n))
<1>1. \A k \in 1..Len(q) : (k \in 1..Len(p) /\ q[k] = p[k]) \/ (q[k] = e /\ k = Len(q))
  BY DEF Extended
<1>2. \A j, k \in 1..Len(q) : j < k => j \in 1..Len(p) /\ q[j] = p[j]
  BY DEF Extended
<1>3. ASSUME HereAway(q, n)
      PROVE  HereAway(p, n) \/ (HereIn(p, n) /\ Away(e, n))
  <2>1. PICK j, k \in 1..Len(q) : j < k /\ Here(q[j], n) /\ Away(q[k], n)
    BY <1>3 DEF HereAway
  <2>2. j \in 1..Len(p) /\ Here(p[j], n)
    BY <1>2, <2>1
  <2>3. CASE k \in 1..Len(p) /\ q[k] = p[k]
    BY <2>1, <2>2, <2>3 DEF HereAway
  <2>4. CASE q[k] = e
    BY <2>1, <2>2, <2>4 DEF HereIn
  <2>. QED
    BY <1>1, <2>3, <2>4
<1>. QED
  BY <1>1, <1>3 DEF AwayIn, HereIn

\* What inotify makes of an event: it queues it, or drops it.
LEMMA QueuedPending ==
  ASSUME TypeInv, TypeInv', UNCHANGED llad, NEW e \in EventRecords,
         queue' \in {queue, Queued(queue, e)}
  PROVE  \/ Pending' = Pending
         \/ Extended(Pending, Pending', e)
         \/ Extended(Pending, Pending', Overflow)
<1>1. /\ queue \in Seq(EventRecords) /\ queue' \in Seq(EventRecords)
      /\ Overflow \in EventRecords /\ Len(queue) \in Nat
  BY PendingType, QueuedRecords, EventRecordsType, LenProperties
<1>2. CASE queue' = queue
  <2>1. Doing' = Doing /\ chunk' = chunk
    BY DEF llad, Doing
  <2>. QED
    BY <1>2, <2>1 DEF Pending
<1>3. ASSUME NEW x \in EventRecords, queue' = Append(queue, x)
      PROVE  Extended(Pending, Pending', x)
  <2>1. /\ Len(Append(queue, x)) = Len(queue) + 1
        /\ Append(queue, x)[Len(queue) + 1] = x
        /\ \A k \in 1..Len(queue) : Append(queue, x)[k] = queue[k]
    BY <1>1, AppendProperties
  <2>2. Extended(queue, queue', x)
    BY <1>1, <1>3, <2>1 DEF Extended
  <2>. QED
    BY <1>1, <2>2, QueueExtends
<1>. QED
  BY <1>1, <1>2, <1>3 DEF Queued

LEMMA OthersTell ==
  ASSUME Plain, TypeInv, TypeInv', Others, NEW n \in Names
  PROVE  /\ AwayIn(Pending', n) => AwayIn(Pending, n) \/ Remove(n)
         /\ HereIn(Pending', n) => HereIn(Pending, n) \/ Create(n)
         /\ HereAway(Pending', n) =>
              HereAway(Pending, n) \/ (HereIn(Pending, n) /\ Remove(n))
<1>1. /\ UNCHANGED llad /\ Len(Pending) \in Nat /\ Len(Pending') \in Nat
      /\ \A m : ~Away(Overflow, m) /\ ~Here(Overflow, m)
  BY PendingType, LenPending DEF Others, Away, Here, Overflow
<1>2. ASSUME NEW e \in EventRecords, queue' \in {queue, Queued(queue, e)},
             Away(e, n) => Remove(n), Here(e, n) => Create(n)
      PROVE  /\ AwayIn(Pending', n) => AwayIn(Pending, n) \/ Remove(n)
             /\ HereIn(Pending', n) => HereIn(Pending, n) \/ Create(n)
             /\ HereAway(Pending', n) =>
                  HereAway(Pending, n) \/ (HereIn(Pending, n) /\ Remove(n))
  BY <1>1, <1>2, QueuedPending, ExtendedMore
<1>3. ASSUME NEW i \in Files, Write(i) \/ Truncate(i)
      PROVE  \E e \in EventRecords : /\ queue' \in {queue, Queued(queue, e)}
                                     /\ ~Away(e, n) /\ ~Here(e, n)
  <2>1. watchOf[i] \in Nat
    <3>1. lastWd \in Nat /\ watchOf[i] \in {NoWatch} \cup (DirWd + 1)..lastWd
      BY DEF TypeInv, TypeOK
    <3>. QED
      BY <3>1 DEF NoWatch, DirWd
  <2>2. /\ FileEvent(watchOf[i]) \in EventRecords
        /\ ~Away(FileEvent(watchOf[i]), n) /\ ~Here(FileEvent(watchOf[i]), n)
    BY <2>1, EventRecordsType DEF FileEvent, Away, Here
  <2>3. queue' \in {queue, Queued(queue, FileEvent(watchOf[i]))}
    BY <1>3 DEF Write, Truncate, NotifyFile
  <2>. QED
    BY <2>2, <2>3
<1>4. ASSUME NEW m \in Names, Remove(m)
      PROVE  \E e \in EventRecords : /\ queue' \in {queue, Queued(queue, e)}
                                     /\ Away(e, n) => n = m
                                     /\ ~Here(e, n)
  <2>1. /\ DirEvent("delete", m) \in EventRecords
        /\ Away(DirEvent("delete", m), n) => n = m
        /\ ~Here(DirEvent("delete", m), n)
    BY EventRecordsType DEF Masks, DirEvent, Away, Here
  <2>. QED
    BY <1>4, <2>1 DEF Remove, NotifyDir
<1>5. ASSUME NEW m \in Names, Create(m)
      PROVE  \E e \in EventRecords : /\ queue' \in {queue, Queued(queue, e)}
                                     /\ Here(e, n) => n = m
                                     /\ ~Away(e, n)
  <2>1. /\ DirEvent("create", m) \in EventRecords
        /\ Here(DirEvent("create", m), n) => n = m
        /\ ~Away(DirEvent("create", m), n)
    BY EventRecordsType DEF Masks, DirEvent, Away, Here
  <2>. QED
    BY <1>5, <2>1 DEF Create, NotifyDir
<1>. QED
  BY <1>2, <1>3, <1>4, <1>5, PlainChanges

LEMMA MainTells ==
  ASSUME TypeInv, TypeInv', MainThread, NEW n \in Names
  PROVE  NoMore(Pending, Pending', n)
<1>1. Len(Pending) \in Nat /\ Len(Pending') \in Nat
  BY LenPending, PendingType, LenProperties
<1>2. CASE Pending' = Pending
  BY <1>2 DEF NoMore
<1>3. CASE RemoveWatch \/ AddWatch \/ CheckFile
  BY <1>1, <1>3, DonePending, ShortenedNoMore
<1>4. CASE HandleEvent
  <2>1. CASE pc' = "unwatch"
    <3>1. /\ Replaced(Pending, Pending', DirEvent("delete", cur'))
          /\ Pending[1] = Head(chunk) /\ Disappeared(Head(chunk), cur')
      BY <1>4, <2>1, HandlePending DEF HandleEvent
    <3>2. /\ Away(DirEvent("delete", cur'), n) => Away(Head(chunk), n)
          /\ ~Here(DirEvent("delete", cur'), n)
      BY <3>1 DEF Disappeared, Away, Here, DirEvent
    <3>. QED
      BY <1>1, <3>1, <3>2, ReplacedNoMore
  <2>2. CASE pc' = "watch"
    <3>1. /\ Replaced(Pending, Pending', DirEvent("attrib", cur'))
          /\ Pending[1] = Head(chunk) /\ Appeared(Head(chunk), cur')
      BY <1>4, <2>2, HandlePending DEF HandleEvent
    <3>2. /\ Here(DirEvent("attrib", cur'), n) => Here(Head(chunk), n)
          /\ ~Away(DirEvent("attrib", cur'), n)
      BY <3>1 DEF Appeared, Away, Here, DirEvent
    <3>. QED
      BY <1>1, <3>1, <3>2, ReplacedNoMore
  <2>3. CASE pc' = "scan"
    BY <1>2, <1>4, <2>3, HandlePending
  <2>4. CASE pc' = "loop"
    BY <1>1, <1>4, <2>4, HandlePending, ShortenedNoMore
  <2>. QED
    BY <1>4, <2>1, <2>2, <2>3, <2>4 DEF HandleEvent
<1>. QED
  BY <1>2, <1>3, <1>4, SamePending DEF MainThread

\* llad will look for the file of this name, or would if it saw the next event.
Expecting(n) ==
  \/ pc \in {"reopen", "openscan", "truncated"} /\ cur = n
  \/ /\ file[n] = Closed
     /\ IF pc = "open" THEN ~Waiting(n) ELSE inwd[n] # NoWatch \/ Waiting(n)
  \/ file[n].on # NoFile /\ Size(file[n].on) < file[n].pos

\* The name has come into being, or its file been truncated, and gone away.
CameAndGoes(n) ==
  (Expecting(n) /\ AwayIn(Pending, n)) \/ HereAway(Pending, n)

\* How many changes there have been at least.
Counted(n) ==
  /\ AwayIn(Pending, n) => changes >= 1
  /\ AwayIn(Pending, n) /\ entry[n] # NoFile => changes >= 2
  /\ (Expecting(n) \/ HereIn(Pending, n)) /\ entry[n] # NoFile => changes >= 1
  /\ CameAndGoes(n) => changes >= 2
  /\ CameAndGoes(n) /\ entry[n] # NoFile => changes >= 3

\* What llad is about to let go of is not there any more.
Leaving(n) ==
  (AwayIn(Pending, n) \/ (pc = "close" /\ cur = n)) /\ entry[n] # NoFile
    => file[n].on # entry[n]

\* Nor is what it has open without watching it.
Unheld(n) ==
  inwd[n] = NoWatch /\ pc # "open" /\ ~Waiting(n) /\ entry[n] # NoFile
    => file[n].on # entry[n]

Places ==
  /\ pc = "reopen" => entry[cur] = NoFile \/ file[cur].on # entry[cur]
  /\ pc = "watch" => inwd[cur] = NoWatch
  /\ ~Starting => todo = <<>>
  /\ pc = "open" => ~dirWatched

SingleInv ==
  /\ Phases /\ Places
  /\ \A n \in Names : Counted(n) /\ Leaving(n) /\ Unheld(n)

\* A change that is not about the file of n.
LEMMA CountedApart ==
  ASSUME NEW n \in Names, Counted(n), entry'[n] = entry[n], changes \in Nat,
         changes' \in Nat, changes' >= changes, NoMore(Pending, Pending', n),
         Expecting(n)' => Expecting(n)
  PROVE  Counted(n)'
  BY DEF Counted, CameAndGoes, NoMore

LEMMA OthersExpects ==
  ASSUME Plain, TypeInv, Others, NEW n \in Names, Expecting(n)'
  PROVE  Expecting(n) \/ \E i \in Files : Truncate(i)
<1>. SUFFICES ASSUME ~\E i \in Files : Truncate(i)
              PROVE  Expecting(n)
  OBVIOUS
<1>1. UNCHANGED <<pc, cur, todo, inwd, file>>
  BY DEF Others, llad
<1>2. Waiting(n)' <=> Waiting(n)
  BY <1>1 DEF Waiting
<1>3. \/ Expecting(n)
      \/ file[n].on # NoFile /\ Len(content'[file[n].on]) < file[n].pos
  BY <1>1, <1>2 DEF Expecting, Closed, Size
<1>4. ASSUME NEW j, j = file[n].on, j # NoFile, Len(content'[j]) < file[n].pos
      PROVE  Size(j) < file[n].pos
  <2>1. /\ j \in Files /\ j \in 1..files /\ file[n].pos \in Nat
        /\ content \in [Files -> Seq(0..written)]
        /\ files \in Nat
    <3>1. files \in 0..MaxFiles /\ MaxFiles \in Nat /\ j \in 0..files /\ file[n].pos \in Nat
      BY <1>4, LogDirectoryAssumption DEF TypeInv, TypeOK
    <3>2. content \in [Files -> Seq(0..written)]
      BY DEF TypeInv, TypeOK
    <3>. QED
      BY <1>4, <3>1, <3>2 DEF NoFile, Files
  <2>2. content[j] \in Seq(0..written) /\ Len(content[j]) \in Nat
    BY <2>1, LenProperties
  <2>3. CASE Write(j)
    <3>. DEFINE T == (0..written) \cup {written'}
    <3>1. content[j] \in Seq(T) /\ written' \in T
      BY <2>2, SeqMonotonic
    <3>. HIDE DEF T
    <3>2. content'[j] = Append(content[j], written')
      BY <2>1, <2>3 DEF Write
    <3>3. Len(content'[j]) = Len(content[j]) + 1
      BY <3>1, <3>2, AppendProperties
    <3>. QED
      BY <1>4, <2>1, <2>2, <3>3 DEF Size
  <2>4. CASE ~Write(j)
    <3>1. content'[j] = content[j]
      <4>1. CASE \E i \in Files : Write(i)
        BY <2>1, <2>4, <4>1 DEF Write
      <4>2. CASE \E m \in Names : Create(m)
        BY <2>1, <4>2 DEF Create, NewFile
      <4>3. CASE \E m \in Names : Remove(m)
        BY <4>3 DEF Remove, contents
      <4>. QED
        BY <4>1, <4>2, <4>3, PlainChanges
    <3>. QED
      BY <1>4, <3>1 DEF Size
  <2>. QED
    BY <2>3, <2>4
<1>. QED
  BY <1>3, <1>4 DEF Expecting

LEMMA CountedOthers ==
  ASSUME Plain, TypeInv, TypeInv', Others, NEW n \in Names, Counted(n)
  PROVE  Counted(n)'
<1>1. changes \in Nat /\ changes' \in Nat
  <2>1. scenario \in Scenarios /\ scenario.most \in Nat /\ changes \in 0..scenario.most
    BY LogDirectoryAssumption DEF TypeInv, TypeOK
  <2>2. scenario' = scenario
    BY ScenarioStays DEF Next
  <2>3. changes' \in 0..scenario'.most
    BY DEF TypeInv, TypeOK
  <2>. QED
    BY <2>1, <2>2, <2>3
<1>2. /\ AwayIn(Pending', n) => AwayIn(Pending, n) \/ Remove(n)
      /\ HereIn(Pending', n) => HereIn(Pending, n) \/ Create(n)
      /\ HereAway(Pending', n) =>
           HereAway(Pending, n) \/ (HereIn(Pending, n) /\ Remove(n))
  BY OthersTell
<1>3. Expecting(n)' => Expecting(n) \/ \E i \in Files : Truncate(i)
  BY OthersExpects
<1>4. Remove(n) => entry[n] # NoFile /\ entry'[n] = NoFile
  BY DEF Remove, TypeInv, TypeOK
<1>5. Create(n) => entry[n] = NoFile
  BY DEF Create
<1>6. \/ /\ changes' = changes /\ entry'[n] = entry[n]
         /\ ~Remove(n) /\ ~Create(n) /\ ~\E i \in Files : Truncate(i)
      \/ changes' = changes + 1 /\ entry'[n] = entry[n]
      \/ changes' = changes + 1 /\ Create(n) /\ ~\E i \in Files : Truncate(i)
      \/ changes' = changes + 1 /\ Remove(n) /\ ~\E i \in Files : Truncate(i)
  <2>1. CASE \E i \in Files : Write(i)
    <3>1. changes' = changes /\ entry' = entry
      BY <2>1 DEF Write
    <3>2. ~Remove(n) /\ ~Create(n) /\ ~\E i \in Files : Truncate(i)
      BY <1>1, <3>1 DEF Remove, Create, Truncate, Change
    <3>. QED
      BY <3>1, <3>2
  <2>2. CASE \E i \in Files : Truncate(i)
    BY <2>2 DEF Truncate, Change
  <2>3. ASSUME NEW m \in Names, Remove(m) \/ Create(m)
        PROVE  /\ changes' = changes + 1
               /\ entry'[n] = entry[n] \/ (m = n /\ entry' # entry)
    BY <2>3 DEF Remove, Create, NewFile, Change, TypeInv, TypeOK
  <2>4. (\E i \in Files : Truncate(i)) => entry' = entry
    BY DEF Truncate
  <2>. QED
    BY <2>1, <2>2, <2>3, <2>4, PlainChanges
<1>7. CASE changes' = changes /\ entry'[n] = entry[n] /\ ~Remove(n) /\ ~Create(n)
           /\ ~\E i \in Files : Truncate(i)
  BY <1>1, <1>2, <1>3, <1>7, CountedApart DEF NoMore
<1>8. CASE changes' = changes + 1 /\ entry'[n] = entry[n]
  <2>1. ~Remove(n)
    BY <1>4, <1>8
  <2>2. CameAndGoes(n)' => CameAndGoes(n) \/ AwayIn(Pending, n)
    BY <1>2, <2>1 DEF CameAndGoes
  <2>. QED
    BY <1>1, <1>2, <1>8, <2>1, <2>2 DEF Counted
<1>9. CASE /\ changes' = changes + 1 /\ Create(n)
           /\ ~\E i \in Files : Truncate(i)
  <2>1. ~Remove(n)
    BY <1>4, <1>5, <1>9
  <2>2. CameAndGoes(n)' => CameAndGoes(n)
    BY <1>2, <1>3, <1>9, <2>1 DEF CameAndGoes
  <2>. QED
    BY <1>1, <1>2, <1>9, <2>1, <2>2 DEF Counted
<1>10. CASE /\ changes' = changes + 1 /\ Remove(n)
            /\ ~\E i \in Files : Truncate(i)
  <2>1. CameAndGoes(n)' => CameAndGoes(n) \/ Expecting(n) \/ HereIn(Pending, n)
    BY <1>2, <1>3, <1>10 DEF CameAndGoes
  <2>. QED
    BY <1>1, <1>4, <1>10, <2>1 DEF Counted
<1>. QED
  BY <1>6, <1>7, <1>8, <1>9, <1>10

\* A change of the files makes no name lead to a file that llad has open.
LEMMA OthersEntry ==
  ASSUME Plain, TypeInv, Others, NEW n \in Names, entry'[n] # NoFile
  PROVE  entry'[n] = entry[n] \/ (entry[n] = NoFile /\ file[n].on # entry'[n])
<1>1. file[n].on \in 0..files /\ files \in Nat /\ entry \in [Names -> 0..files]
  <2>1. files \in 0..MaxFiles /\ MaxFiles \in Nat
    BY LogDirectoryAssumption DEF TypeInv, TypeOK
  <2>2. file[n].on \in 0..files /\ entry \in [Names -> 0..files]
    BY DEF TypeInv, TypeOK
  <2>. QED
    BY <2>1, <2>2
<1>2. CASE \E m \in Names : Create(m)
  <2>1. PICK m \in Names : Create(m)
    BY <1>2
  <2>2. entry' = [entry EXCEPT ![m] = files + 1] /\ entry[m] = NoFile
    BY <2>1 DEF Create, NewFile
  <2>3. file[n].on # files + 1
    BY <1>1
  <2>. QED
    BY <1>1, <2>2, <2>3
<1>3. CASE \E m \in Names : Remove(m)
  BY <1>1, <1>3 DEF Remove
<1>4. CASE \E i \in Files : Write(i) \/ Truncate(i)
  BY <1>4 DEF Write, Truncate
<1>. QED
  BY <1>2, <1>3, <1>4, PlainChanges

LEMMA SingleOthers ==
  ASSUME Plain, TypeInv, TypeInv', SingleInv, Others
  PROVE  SingleInv'
<1>1. UNCHANGED <<pc, cur, todo, inwd, file>>
  BY DEF Others, llad
<1>2. dirWatched' = dirWatched
  BY PlainChanges DEF Write, Truncate, Remove, Create, inotify
<1>3. Phases'
  BY PhasesStep DEF SingleInv
<1>4. pc \in Handling => cur \in Names
  BY DEF TypeInv, Shape
<1>5. Places'
  <2>1. pc = "reopen" => entry'[cur] = NoFile \/ file'[cur].on # entry'[cur]
    BY <1>1, <1>4, OthersEntry DEF SingleInv, Places, Handling
  <2>. QED
    BY <1>1, <1>2, <2>1 DEF SingleInv, Places, Starting
<1>6. ASSUME NEW n \in Names
      PROVE  Counted(n)' /\ Leaving(n)' /\ Unheld(n)'
  <2>1. Counted(n) /\ Leaving(n) /\ Unheld(n)
    BY DEF SingleInv
  <2>2. Counted(n)'
    BY <2>1, CountedOthers
  <2>3. Leaving(n)'
    <3>1. AwayIn(Pending', n) => AwayIn(Pending, n) \/ Remove(n)
      BY OthersTell
    <3>2. Remove(n) => entry'[n] = NoFile
      BY DEF Remove, TypeInv, TypeOK
    <3>. QED
      BY <1>1, <2>1, <3>1, <3>2, OthersEntry DEF Leaving
  <2>4. Unheld(n)'
    BY <1>1, <2>1, OthersEntry DEF Unheld, Waiting
  <2>. QED
    BY <2>2, <2>3, <2>4
<1>. QED
  BY <1>3, <1>5, <1>6 DEF SingleInv

-----------------------------------------------------------------------------

\* A name that llad will look for was one before, or it has just come into
\* being, or it is not there when llad starts.
LEMMA MainExpects ==
  ASSUME TypeInv, TypeInv', LinesInv, SingleInv, MainThread, NEW n \in Names,
         Expecting(n)'
  PROVE  \/ Expecting(n)
         \/ HereIn(Pending, n) /\ (AwayIn(Pending', n) => HereAway(Pending, n))
         \/ entry[n] = NoFile /\ ~AwayIn(Pending', n) /\ ~HereAway(Pending', n)
<1>1. /\ pc \in Handling => cur \in Names
      /\ file \in [Names -> [on : 0..files, pos : Nat, eof : BOOLEAN]]
      /\ inwd \in [Names -> 0..lastWd]
      /\ content' = content /\ Closed.on = NoFile
  BY MainKeepsFiles DEF TypeInv, TypeOK, Shape, Closed
<1>. HIDE DEF Closed
<1>2. CASE OpenLog
  <2>. DEFINE m == Head(todo)
  <2>1. m \in Names /\ todo \in Seq(Names) /\ todo # <<>> /\ pc = "open" /\ pc' = "open"
    BY <1>2, HeadTailProperties DEF OpenLog, TypeInv, TypeOK
  <2>2. /\ \A k \in Names : k # m => file'[k] = file[k]
        /\ file'[m] = IF Found(m) = NoFile THEN Closed ELSE Stream(Found(m), Size(Found(m)))
    BY <1>1, <1>2, <2>1 DEF OpenLog
  <2>3. n # m => (Waiting(n) => Waiting(n)')
    <3>1. todo' = Tail(todo)
      BY <1>2 DEF OpenLog
    <3>2. /\ Len(todo') \in Nat /\ Len(todo) = Len(todo') + 1
          /\ \A k \in 1..Len(todo') : todo'[k] = todo[k + 1]
      BY <2>1, <3>1, HeadTailProperties, LenProperties
    <3>3. m = todo[1]
      BY <2>1, HeadTailProperties
    <3>4. \A k \in 1..Len(todo) : k # 1 => k - 1 \in 1..Len(todo') /\ todo'[k - 1] = todo[k]
      BY <3>2
    <3>. QED
      BY <3>3, <3>4 DEF Waiting
  <2>4. ~Waiting(n)' \/ file'[n].on # NoFile
    BY <1>1, <2>1 DEF Expecting
  <2>5. CASE n # m
    BY <1>1, <2>1, <2>2, <2>3, <2>5 DEF Expecting, Size
  <2>6. CASE n = m /\ Found(m) = NoFile
    <3>1. entry[n] = NoFile
      BY <2>6, FoundPlain DEF LinesInv
    <3>2. queue' = <<>> /\ chunk' = <<>> /\ Doing' = <<>>
      BY <1>2, <2>1 DEF SingleInv, Places, TypeInv, Shape, OpenLog, dirVars, Doing
    <3>3. Pending' = <<>>
      BY <3>2 DEF Pending
    <3>4. Len(Pending') = 0
      BY <3>3
    <3>. QED
      BY <3>1, <3>4 DEF AwayIn, HereAway
  <2>7. CASE n = m /\ Found(m) # NoFile
    <3>1. Size(Found(m)) \in Nat /\ Found(m) = entry[m]
      BY <2>1, <2>7, FoundPlain DEF LinesInv
    <3>2. file'[n].on = Found(m) /\ file'[n].pos = Size(Found(m))
      BY <2>2, <2>7 DEF Stream
    <3>. QED
      BY <1>1, <2>1, <2>7, <3>1, <3>2 DEF Expecting, Size
  <2>. QED
    BY <2>5, <2>6, <2>7

<1>3. CASE AllOpened
  <2>1. pc = "open" /\ pc' # "open" /\ todo = <<>> /\ file' = file /\ pc' = "watchdir"
    BY <1>3 DEF AllOpened, Goes
  <2>2. ~Waiting(n)
    <3>1. Len(<<>>) = 0
      OBVIOUS
    <3>. QED
      BY <2>1, <3>1 DEF Waiting
  <2>. QED
    BY <1>1, <2>1, <2>2 DEF Expecting, Size
<1>4. CASE RegisterDir \/ AllWatched
  <2>1. /\ UNCHANGED <<todo, file, inwd, cur>> /\ pc \in {"watchdir"}
        /\ pc' \in {"watchfile", "loop"}
    BY <1>4 DEF RegisterDir, AllWatched, Goes
  <2>. QED
    BY <1>1, <2>1 DEF Expecting, Size, Waiting
<1>5. CASE RegisterFile
  <2>. DEFINE m == Head(todo)
  <2>1. /\ todo \in Seq(Names) /\ todo # <<>> /\ todo' = Tail(todo) /\ file' = file
        /\ pc = "watchfile" /\ pc' = "watchdir"
    BY <1>5 DEF RegisterFile, Goes, TypeInv, TypeOK, Shape
  <2>2. m \in Names /\ m = todo[1] /\ Len(todo) \in Nat /\ Len(todo) >= 1
    BY <2>1, HeadTailProperties, LenProperties
  <2>3. Waiting(m)
    BY <2>2 DEF Waiting
  <2>4. Waiting(n)' => Waiting(n)
    <3>1. /\ Len(todo') \in Nat /\ Len(todo) = Len(todo') + 1
          /\ \A k \in 1..Len(todo') : todo'[k] = todo[k + 1]
      BY <2>1, HeadTailProperties, LenProperties
    <3>2. \A k \in 1..Len(todo') : k + 1 \in 1..Len(todo)
      BY <3>1
    <3>. QED
      BY <3>1, <3>2 DEF Waiting
  <2>5. n # m => inwd'[n] = inwd[n]
    BY <1>1, <1>5 DEF RegisterFile, Watch
  <2>. QED
    BY <1>1, <2>1, <2>3, <2>4, <2>5 DEF Expecting, Size
<1>6. CASE ReadEvents \/ HandleEvent
  <2>1. UNCHANGED <<todo, file, inwd>> /\ pc = "loop"
        /\ pc' \in {"loop", "unwatch", "watch", "scan"}
    BY <1>6 DEF ReadEvents, HandleEvent
  <2>. QED
    BY <1>1, <2>1 DEF Expecting, Size, Waiting
<1>7. CASE RemoveWatch
  <2>1. UNCHANGED <<todo, file>> /\ pc = "unwatch" /\ pc' = "close"
        /\ inwd' = [inwd EXCEPT ![cur] = NoWatch]
    BY <1>7 DEF RemoveWatch, Goes
  <2>. QED
    BY <1>1, <2>1 DEF Expecting, Size, Waiting
<1>8. CASE logfile_close
  <2>1. /\ UNCHANGED <<todo, inwd>> /\ pc = "close" /\ pc' = "loop" /\ todo = <<>>
        /\ file' = [file EXCEPT ![cur] = Closed] /\ inwd[cur] = NoWatch
    BY <1>8 DEF logfile_close, Goes, SingleInv, Places, Phases, Starting
  <2>2. ~Waiting(n)'
    <3>1. Len(<<>>) = 0
      OBVIOUS
    <3>. QED
      BY <2>1, <3>1 DEF Waiting
  <2>3. n # cur
    BY <1>1, <2>1, <2>2 DEF Expecting
  <2>. QED
    BY <1>1, <2>1, <2>2, <2>3 DEF Expecting, Size
<1>9. CASE AddWatch
  <2>1. /\ UNCHANGED <<todo, file, cur>> /\ pc = "watch" /\ cur \in Names
        /\ Watch(cur) /\ pc' = IF Found(cur) = NoFile THEN "loop" ELSE "reopen"
    BY <1>1, <1>9 DEF AddWatch, Handling
  <2>2. /\ Found(cur) = NoFile => inwd'[cur] = NoWatch
        /\ n # cur => inwd'[n] = inwd[n]
    BY <1>1, <2>1 DEF Watch
  <2>3. CASE n = cur
    <3>1. /\ Pending[1] = DirEvent("attrib", n) /\ Shortened(Pending, Pending')
          /\ Len(Pending) \in Nat /\ Len(Pending') \in Nat
      BY <1>9, <2>1, <2>3, DonePending, LenPending, PendingType, LenProperties
    <3>2. 1 \in 1..Len(Pending) /\ Here(Pending[1], n)
      BY <3>1 DEF Shortened, Here, DirEvent
    <3>. QED
      BY <3>1, <3>2, ShortenedNoMore DEF HereIn
  <2>4. CASE n # cur
    BY <1>1, <2>1, <2>2, <2>4 DEF Expecting, Size, Waiting
  <2>. QED
    BY <2>3, <2>4
<1>10. CASE CloseToReopen \/ OpenToScan \/ ReopenTruncated
  <2>1. /\ UNCHANGED <<todo, inwd, cur>> /\ cur \in Names
        /\ pc \in {"reopen", "openscan", "truncated"} /\ pc' # "open"
        /\ \A m \in Names : m # cur => file'[m] = file[m]
    BY <1>1, <1>10 DEF CloseToReopen, OpenToScan, ReopenTruncated, Goes, Handling
  <2>. QED
    BY <1>1, <2>1 DEF Expecting, Size, Waiting
<1>11. CASE CheckFile
  <2>1. /\ UNCHANGED <<todo, file, inwd, cur>> /\ pc = "scan" /\ pc' # "open"
        /\ pc' = IF file[cur] = Closed THEN "openscan"
                 ELSE IF Size(file[cur].on) < file[cur].pos THEN "truncated"
                 ELSE "gets"
        /\ inwd[cur] # NoWatch
    BY <1>11 DEF CheckFile, SingleInv, Phases
  <2>2. file[cur] # Closed => file[cur].on # NoFile
    BY <1>1, <2>1 DEF TypeInv, Shape, Handling
  <2>. QED
    BY <1>1, <2>1, <2>2 DEF Expecting, Size, Waiting
<1>12. CASE GetLines
  <2>1. PICK c \in Nat : /\ file'[cur].on = file[cur].on
                         /\ file'[cur].pos = file[cur].pos + c
                         /\ c # 0 => file[cur].pos + c = Size(file[cur].on)
    BY <1>12, LinesPassed
  <2>2. /\ UNCHANGED <<todo, inwd, cur>> /\ cur \in Names /\ pc = "gets"
        /\ pc' \in {"loop", "gets"} /\ file[cur].on # NoFile
        /\ \A m \in Names : m # cur => file'[m] = file[m]
    BY <1>1, <1>12, LinesPassed DEF GetLines, TypeInv, Shape, Handling
  <2>3. CASE n = cur
    <3>1. file'[n].on # NoFile /\ file'[n] # Closed
      BY <1>1, <2>1, <2>2, <2>3
    <3>2. Len(content[file[n].on]) < file[n].pos + c
      BY <1>1, <2>1, <2>2, <2>3, <3>1 DEF Expecting, Size
    <3>3. c = 0
      <4>1. file[cur].pos \in Nat /\ Size(file[cur].on) \in Nat
        BY <1>12, LinesRead
      <4>2. Size(file[cur].on) < file[cur].pos + c
        BY <2>3, <3>2 DEF Size
      <4>. QED
        BY <2>1, <4>1, <4>2
    <3>4. file[n].pos + 0 = file[n].pos
      BY <1>1
    <3>. QED
      BY <2>2, <2>3, <3>2, <3>3, <3>4 DEF Expecting, Size
  <2>4. CASE n # cur
    BY <1>1, <2>2, <2>4 DEF Expecting, Size, Waiting
  <2>. QED
    BY <2>3, <2>4
<1>. QED
  BY <1>2, <1>3, <1>4, <1>5, <1>6, <1>7, <1>8, <1>9, <1>10, <1>11, <1>12 DEF MainThread

LEMMA CountedMain ==
  ASSUME TypeInv, TypeInv', LinesInv, SingleInv, MainThread, NEW n \in Names
  PROVE  Counted(n)'
<1>1. Counted(n) /\ NoMore(Pending, Pending', n)
  BY MainTells DEF SingleInv
<1>2. entry' = entry /\ changes' = changes /\ changes \in Nat
  <2>1. changes \in 0..scenario.most /\ scenario.most \in Nat
    BY LogDirectoryAssumption DEF TypeInv, TypeOK
  <2>. QED
    BY <2>1, MainKeepsFiles
<1>3. CASE Expecting(n)' => Expecting(n)
  BY <1>1, <1>2, <1>3, CountedApart
<1>4. CASE HereIn(Pending, n) /\ (AwayIn(Pending', n) => HereAway(Pending, n))
  <2>1. CameAndGoes(n)' => CameAndGoes(n)
    BY <1>1, <1>4 DEF CameAndGoes, NoMore
  <2>. QED
    BY <1>1, <1>2, <1>4, <2>1 DEF Counted, NoMore
<1>5. CASE entry[n] = NoFile /\ ~AwayIn(Pending', n) /\ ~HereAway(Pending', n)
  BY <1>2, <1>5 DEF Counted, CameAndGoes
<1>. QED
  BY <1>3, <1>4, <1>5, MainExpects

\* What llad opens by its name is not announced to go away: that would have
\* been the third change.
LEMMA OpenedStays ==
  ASSUME TypeInv, SingleInv, SingleRotation, NEW n \in Names,
         Expecting(n), entry[n] # NoFile
  PROVE  ~AwayIn(Pending, n)
<1>1. changes \in 0..scenario.most /\ scenario.most \in Nat /\ scenario.most <= 2
  BY LogDirectoryAssumption DEF TypeInv, TypeOK, SingleRotation
<1>2. AwayIn(Pending, n) => changes >= 3
  BY DEF SingleInv, Counted, CameAndGoes
<1>. QED
  BY <1>1, <1>2

LEMMA LeavingMain ==
  ASSUME TypeInv, TypeInv', LinesInv, SingleInv, SingleRotation, MainThread, NEW n \in Names
  PROVE  Leaving(n)'
<1>1. /\ Leaving(n) /\ NoMore(Pending, Pending', n) /\ entry' = entry
      /\ file \in [Names -> [on : 0..files, pos : Nat, eof : BOOLEAN]]
      /\ Closed.on = NoFile
  BY MainTells, MainKeepsFiles DEF SingleInv, TypeInv, TypeOK, Closed
<1>. HIDE DEF Closed
<1>2. CASE OpenLog
  <2>1. pc = "open" /\ pc' = "open" /\ queue' = <<>> /\ chunk' = <<>> /\ Doing' = <<>>
    BY <1>2 DEF SingleInv, Places, TypeInv, Shape, OpenLog, dirVars, Doing
  <2>2. Pending' = <<>>
    BY <2>1 DEF Pending
  <2>3. Len(Pending') = 0
    BY <2>2
  <2>. QED
    BY <2>1, <2>3 DEF Leaving, AwayIn
<1>3. CASE RemoveWatch
  <2>1. file' = file /\ cur' = cur /\ pc = "unwatch"
    BY <1>3 DEF RemoveWatch, Goes
  <2>2. cur = n => AwayIn(Pending, n)
    <3>1. Pending[1] = DirEvent("delete", cur) /\ Shortened(Pending, Pending')
          /\ Len(Pending) \in Nat /\ Len(Pending') \in Nat
      BY <1>3, <2>1, DonePending, LenPending, PendingType, LenProperties
    <3>2. 1 \in 1..Len(Pending) /\ Away(Pending[1], cur)
      BY <3>1 DEF Shortened, Away, DirEvent
    <3>. QED
      BY <3>2 DEF AwayIn
  <2>. QED
    BY <1>1, <2>1, <2>2 DEF Leaving, NoMore
<1>4. CASE logfile_close \/ CloseToReopen
  <2>1. /\ pc' # "close" /\ file' = [file EXCEPT ![cur] = Closed] /\ cur \in Names
    BY <1>4 DEF logfile_close, CloseToReopen, Goes, TypeInv, Shape, Handling
  <2>2. file'[n] = file[n] \/ file'[n].on = NoFile
    BY <1>1, <2>1
  <2>. QED
    BY <1>1, <2>1, <2>2 DEF Leaving, NoMore
<1>5. CASE OpenToScan \/ ReopenTruncated
  <2>1. /\ pc' # "close" /\ pc \in {"openscan", "truncated"} /\ cur \in Names
        /\ \A m \in Names : m # cur => file'[m] = file[m]
    BY <1>1, <1>5 DEF OpenToScan, ReopenTruncated, Goes, TypeInv, Shape, Handling
  <2>2. CASE n = cur
    <3>1. Expecting(n)
      BY <2>1, <2>2 DEF Expecting
    <3>. QED
      BY <1>1, <2>1, <3>1, OpenedStays DEF Leaving, NoMore
  <2>3. CASE n # cur
    BY <1>1, <2>1, <2>3 DEF Leaving, NoMore
  <2>. QED
    BY <2>2, <2>3
<1>6. CASE GetLines
  <2>1. pc' # "close" /\ file'[n].on = file[n].on
    <3>1. \A m \in Names : m # cur => file'[m] = file[m]
      BY <1>6, LinesPassed
    <3>2. file'[cur].on = file[cur].on
      BY <1>6, LinesPassed
    <3>. QED
      BY <1>6, <3>1, <3>2 DEF GetLines
  <2>. QED
    BY <1>1, <2>1 DEF Leaving, NoMore
<1>7. CASE \/ AllOpened \/ RegisterDir \/ RegisterFile \/ AllWatched \/ ReadEvents
           \/ HandleEvent \/ AddWatch \/ CheckFile
  <2>1. file' = file /\ pc' # "close"
    BY <1>7 DEF AllOpened, RegisterDir, RegisterFile, AllWatched, ReadEvents, HandleEvent,
       AddWatch, CheckFile, Goes
  <2>. QED
    BY <1>1, <2>1 DEF Leaving, NoMore
<1>. QED
  BY <1>2, <1>3, <1>4, <1>5, <1>6, <1>7 DEF MainThread

LEMMA UnheldMain ==
  ASSUME TypeInv, TypeInv', LinesInv, SingleInv, MainThread, NEW n \in Names
  PROVE  Unheld(n)'
<1>1. /\ Unheld(n) /\ entry' = entry
      /\ file \in [Names -> [on : 0..files, pos : Nat, eof : BOOLEAN]]
      /\ inwd \in [Names -> 0..lastWd]
      /\ Closed.on = NoFile /\ Found(n) = entry[n]
      /\ pc \in Handling => cur \in Names
  BY MainKeepsFiles, FoundPlain DEF SingleInv, LinesInv, TypeInv, TypeOK, Shape, Closed
<1>. HIDE DEF Closed
<1>2. CASE OpenLog
  BY <1>2 DEF OpenLog, Unheld
<1>3. CASE AllOpened
  <2>1. todo' = LogList
    BY <1>3 DEF AllOpened
  <2>2. Waiting(n)'
    BY <2>1, WatcherAssumption, LenProperties DEF Waiting
  <2>. QED
    BY <2>2 DEF Unheld
<1>4. CASE RegisterFile
  <2>. DEFINE m == Head(todo)
  <2>1. /\ todo \in Seq(Names) /\ todo # <<>> /\ todo' = Tail(todo) /\ file' = file
        /\ pc = "watchfile" /\ Watch(m) /\ m \in Names
    BY <1>4, HeadTailProperties DEF RegisterFile, Goes, TypeInv, TypeOK, Shape
  <2>2. CASE n = m
    <3>1. entry[n] # NoFile => inwd'[n] # NoWatch
      BY <1>1, <2>1, <2>2, WatchDone
    <3>. QED
      BY <1>1, <3>1 DEF Unheld
  <2>3. CASE n # m
    <3>1. inwd'[n] = inwd[n]
      BY <1>1, <2>1, <2>3 DEF Watch
    <3>2. Waiting(n) => Waiting(n)'
      <4>1. /\ Len(todo') \in Nat /\ Len(todo) = Len(todo') + 1
            /\ \A k \in 1..Len(todo') : todo'[k] = todo[k + 1]
        BY <2>1, HeadTailProperties, LenProperties
      <4>2. m = todo[1]
        BY <2>1, HeadTailProperties
      <4>3. \A k \in 1..Len(todo) : k # 1 => k - 1 \in 1..Len(todo') /\ todo'[k - 1] = todo[k]
        BY <4>1
      <4>. QED
        BY <2>3, <4>2, <4>3 DEF Waiting
    <3>. QED
      BY <1>1, <2>1, <3>1, <3>2 DEF Unheld
  <2>. QED
    BY <2>2, <2>3
<1>5. CASE RemoveWatch
  <2>1. /\ UNCHANGED <<file, todo>> /\ pc = "unwatch" /\ cur \in Names
        /\ inwd' = [inwd EXCEPT ![cur] = NoWatch]
    BY <1>1, <1>5 DEF RemoveWatch, Goes, Handling
  <2>2. CASE n = cur
    <3>1. /\ Pending[1] = DirEvent("delete", n) /\ Shortened(Pending, Pending')
          /\ Len(Pending) \in Nat /\ Len(Pending') \in Nat
      BY <1>5, <2>1, <2>2, DonePending, LenPending, PendingType, LenProperties
    <3>2. 1 \in 1..Len(Pending) /\ Away(Pending[1], n)
      BY <3>1 DEF Shortened, Away, DirEvent
    <3>3. AwayIn(Pending, n)
      BY <3>2 DEF AwayIn
    <3>. QED
      BY <1>1, <2>1, <3>3 DEF SingleInv, Leaving, Unheld
  <2>3. CASE n # cur
    BY <1>1, <2>1, <2>3 DEF Unheld, Waiting
  <2>. QED
    BY <2>2, <2>3
<1>6. CASE AddWatch
  <2>1. UNCHANGED <<file, todo>> /\ pc = "watch" /\ cur \in Names /\ Watch(cur)
    BY <1>1, <1>6 DEF AddWatch, Handling
  <2>2. CASE n = cur
    <3>1. entry[n] # NoFile => inwd'[n] # NoWatch
      BY <1>1, <2>1, <2>2, WatchDone
    <3>. QED
      BY <1>1, <3>1 DEF Unheld
  <2>3. CASE n # cur
    <3>1. inwd'[n] = inwd[n]
      BY <1>1, <2>1, <2>3 DEF Watch
    <3>. QED
      BY <1>1, <2>1, <3>1 DEF Unheld, Waiting
  <2>. QED
    BY <2>2, <2>3
<1>7. CASE logfile_close \/ CloseToReopen
  <2>1. /\ UNCHANGED <<inwd, todo>> /\ file' = [file EXCEPT ![cur] = Closed] /\ cur \in Names
        /\ pc # "open"
    BY <1>1, <1>7 DEF logfile_close, CloseToReopen, Goes, Handling
  <2>2. file'[n] = file[n] \/ file'[n].on = NoFile
    BY <1>1, <2>1
  <2>. QED
    BY <1>1, <2>1, <2>2 DEF Unheld, Waiting
<1>8. CASE OpenToScan \/ ReopenTruncated
  <2>1. /\ UNCHANGED <<inwd, todo>> /\ pc \in {"openscan", "truncated"} /\ cur \in Names
        /\ \A m \in Names : m # cur => file'[m] = file[m]
    BY <1>1, <1>8 DEF OpenToScan, ReopenTruncated, Goes, Handling
  <2>2. inwd[cur] # NoWatch
    BY <2>1 DEF SingleInv, Phases
  <2>. QED
    BY <1>1, <2>1, <2>2 DEF Unheld, Waiting
<1>9. CASE GetLines
  <2>1. file'[n].on = file[n].on
    <3>1. \A m \in Names : m # cur => file'[m] = file[m]
      BY <1>9, LinesPassed
    <3>2. file'[cur].on = file[cur].on
      BY <1>9, LinesPassed
    <3>. QED
      BY <3>1, <3>2
  <2>2. UNCHANGED <<inwd, todo>> /\ pc = "gets"
    BY <1>9 DEF GetLines
  <2>. QED
    BY <1>1, <2>1, <2>2 DEF Unheld, Waiting
<1>10. CASE \/ RegisterDir \/ AllWatched \/ ReadEvents \/ HandleEvent \/ CheckFile
  <2>1. UNCHANGED <<file, inwd, todo>> /\ pc # "open"
    BY <1>10 DEF RegisterDir, AllWatched, ReadEvents, HandleEvent, CheckFile, Goes
  <2>. QED
    BY <1>1, <2>1 DEF Unheld, Waiting
<1>. QED
  BY <1>2, <1>3, <1>4, <1>5, <1>6, <1>7, <1>8, <1>9, <1>10 DEF MainThread

LEMMA PlacesMain ==
  ASSUME TypeInv, LinesInv, SingleInv, MainThread
  PROVE  Places'
<1>1. Places /\ entry' = entry
  BY MainKeepsFiles DEF SingleInv
<1>2. ASSUME pc' = "reopen"
      PROVE  entry'[cur'] = NoFile \/ file'[cur'].on # entry'[cur']
  <2>1. AddWatch
    BY <1>2 DEF MainThread, OpenLog, AllOpened, RegisterDir, RegisterFile, AllWatched,
       ReadEvents, HandleEvent, RemoveWatch, logfile_close, CloseToReopen, CheckFile,
       OpenToScan, ReopenTruncated, GetLines, Goes
  <2>2. /\ pc = "watch" /\ cur' = cur /\ file' = file /\ cur \in Names
    BY <2>1 DEF AddWatch, TypeInv, Shape, Handling
  <2>3. inwd[cur] = NoWatch /\ todo = <<>> /\ Unheld(cur)
    BY <2>2 DEF SingleInv, Places, Starting
  <2>4. ~Waiting(cur)
    <3>1. Len(<<>>) = 0
      OBVIOUS
    <3>. QED
      BY <2>3, <3>1 DEF Waiting
  <2>. QED
    BY <1>1, <2>2, <2>3, <2>4 DEF Unheld
<1>3. ASSUME pc' = "watch"
      PROVE  inwd'[cur'] = NoWatch
  <2>1. HandleEvent
    BY <1>3 DEF MainThread, OpenLog, AllOpened, RegisterDir, RegisterFile, AllWatched,
       ReadEvents, AddWatch, RemoveWatch, logfile_close, CloseToReopen, CheckFile,
       OpenToScan, ReopenTruncated, GetLines, Goes
  <2>. QED
    BY <1>3, <2>1 DEF HandleEvent, Appeared
<1>4. ~Starting' => todo' = <<>>
  <2>1. CASE OpenLog \/ AllOpened \/ RegisterDir \/ RegisterFile
    BY <2>1 DEF OpenLog, AllOpened, RegisterDir, RegisterFile, Goes, Starting
  <2>2. CASE AllWatched
    BY <2>2 DEF AllWatched
  <2>3. CASE ~(OpenLog \/ AllOpened \/ RegisterDir \/ RegisterFile \/ AllWatched)
    <3>1. ~Starting /\ todo' = todo
      BY <2>3 DEF MainThread, ReadEvents, HandleEvent, RemoveWatch, logfile_close, AddWatch,
         CloseToReopen, CheckFile, OpenToScan, ReopenTruncated, GetLines, Goes, Starting
    <3>. QED
      BY <1>1, <3>1 DEF Places
  <2>. QED
    BY <2>1, <2>2, <2>3
<1>5. pc' = "open" => ~dirWatched'
  <2>1. pc' = "open" => OpenLog
    BY DEF MainThread, AllOpened, RegisterDir, RegisterFile, AllWatched, ReadEvents,
       HandleEvent, RemoveWatch, logfile_close, AddWatch, CloseToReopen, CheckFile,
       OpenToScan, ReopenTruncated, GetLines, Goes
  <2>. QED
    BY <1>1, <2>1 DEF OpenLog, dirVars, inotify, Places
<1>. QED
  BY <1>2, <1>3, <1>4, <1>5 DEF Places

LEMMA SingleMain ==
  ASSUME TypeInv, TypeInv', LinesInv, SingleInv, SingleRotation, MainThread
  PROVE  SingleInv'
<1>1. Phases'
  BY PhasesStep DEF SingleInv
<1>. QED
  BY <1>1, PlacesMain, CountedMain, LeavingMain, UnheldMain DEF SingleInv

LEMMA SingleSame ==
  ASSUME TypeInv, SingleInv, UNCHANGED vars
  PROVE  SingleInv'
<1>1. Pending' = Pending
  BY DEF Pending, Doing, vars, dirVars, llad
<1>2. \A n \in Names : Expecting(n)' <=> Expecting(n)
  BY DEF Expecting, Waiting, Size, vars, dirVars, llad, contents
<1>3. \A n \in Names : Counted(n)'
  BY <1>1, <1>2 DEF SingleInv, Counted, CameAndGoes, vars, dirVars
<1>4. \A n \in Names : Leaving(n)' /\ Unheld(n)'
  BY <1>1 DEF SingleInv, Leaving, Unheld, Waiting, vars, dirVars, llad
<1>5. Phases' /\ Places'
  BY DEF SingleInv, Phases, Places, Starting, vars, dirVars, llad, inotify
<1>. QED
  BY <1>3, <1>4, <1>5 DEF SingleInv

LEMMA SingleInit ==
  ASSUME Init
  PROVE  SingleInv
<1>1. /\ pc = "open" /\ entry \in [Names -> 0..files] /\ ~dirWatched
      /\ chunk = <<>> /\ queue = <<>> /\ todo = LogList
      /\ \A n \in Names : file[n] = Closed
  BY DEF Init, DirInit
<1>2. Pending = <<>>
  BY <1>1 DEF Pending, Doing
<1>3. Len(Pending) = 0
  BY <1>2
<1>4. \A n \in Names : Waiting(n)
  BY <1>1, WatcherAssumption, LenProperties DEF Waiting
<1>5. \A n \in Names : ~AwayIn(Pending, n) /\ ~HereIn(Pending, n) /\ ~HereAway(Pending, n)
  BY <1>3 DEF AwayIn, HereIn, HereAway
<1>6. ASSUME NEW n \in Names
      PROVE  ~Expecting(n)
  <2>1. file[n].on = NoFile
    BY <1>1 DEF Closed
  <2>. QED
    BY <1>1, <1>4, <2>1 DEF Expecting
<1>. QED
  BY <1>1, <1>5, <1>6 DEF SingleInv, Phases, Places, Starting, Counted, CameAndGoes, Leaving,
     Unheld

\* With a single rotation the file that has the name stays open.
LEMMA SingleStaysOpen ==
  ASSUME TypeInv, SingleInv
  PROVE  StaysOpen
<1>1. pc \in {"close", "reopen"} => cur \in Names
  BY DEF TypeInv, Shape, Handling
<1>. QED
  BY <1>1 DEF SingleInv, Leaving, Places, StaysOpen

\* With at most one rotation, or two truncations, each line is handed on once,
\* those of a file in their order, and none that was there before the start:
\* at any moment, also before everything is watched, and whatever inotify and
\* fgets do.
THEOREM OnceInOrder == Spec => []InOrderOnce
<1>. DEFINE Inv == TypeInv /\ (SingleRotation => LinesInv /\ SingleInv)
<1>1. Init => Inv
  BY TypeInit, LinesInit, SingleInit
<1>2. Inv /\ [Next]_vars => Inv'
  <2>. SUFFICES ASSUME Inv, [Next]_vars
                PROVE  Inv'
    OBVIOUS
  <2>1. TypeInv' /\ scenario' = scenario
    BY TypeStep, ScenarioStays
  <2>2. SingleRotation' => SingleRotation /\ Plain
    BY <2>1 DEF SingleRotation, Plain
  <2>3. SingleRotation /\ Plain => LinesInv' /\ SingleInv'
    <3>. SUFFICES ASSUME SingleRotation, Plain
                  PROVE  LinesInv' /\ SingleInv'
      OBVIOUS
    <3>1. LinesInv'
      BY <2>1, SingleStaysOpen, LinesStep
    <3>2. SingleInv'
      BY <2>1, SingleMain, SingleOthers, SingleSame DEF Next, Asleep
    <3>. QED
      BY <3>1, <3>2
  <2>. QED
    BY <2>1, <2>2, <2>3
<1>3. Inv => InOrderOnce
  <2>. SUFFICES ASSUME Inv, SingleRotation, NEW n \in Names
                PROVE  OnceEach(n)
    BY Zenon DEF InOrderOnce, OnceEach
  <2>. QED
    BY DEF LinesInv
<1>. QED
  BY <1>1, <1>2, <1>3, PTL DEF Spec

=============================================================================
