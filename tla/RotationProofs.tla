-------------------------- MODULE RotationProofs ---------------------------
(***************************************************************************)
(* Proofs about Watcher while log files are rotated: lines are written,    *)
(* files are removed, renamed to other watched names, created again, made  *)
(* readable and truncated, in any number and at any moment.  When llad     *)
(* sleeps it follows every log file, and as long as none is truncated it   *)
(* has skipped no line.                                                    *)
(*                                                                         *)
(* The handlers look at the directory as it is, the events tell what it    *)
(* was.  The invariant says how far apart the two may be: what llad holds  *)
(* is what the directory has, but for what the pending events announce.    *)
(***************************************************************************)
EXTENDS WatcherProofs

-----------------------------------------------------------------------------
(* What a sequence of events announces.                                    *)

Arrive(e, n) == e.mask \in {"create", "movedto"} /\ e.name = n
Here(e, n)   == e.mask \in {"create", "movedto", "attrib"} /\ e.name = n

HereIn(p, n)     == \E k \in 1..Len(p) : Here(p[k], n)
ModifiedIn(p, w) == \E k \in 1..Len(p) : p[k] = FileEvent(w)

\* The name is there in the end.
Returns(p, n) ==
  \A j \in 1..Len(p) : Away(p[j], n) => \E l \in 1..Len(p) : j < l /\ Here(p[l], n)

\* The name is away in the end.
Leaves(p, n) ==
  \A j \in 1..Len(p) : Here(p[j], n) => \E l \in 1..Len(p) : j < l /\ Away(p[l], n)

\* A name that is there does not come into being.
Apart(p, n) ==
  \A j, k \in 1..Len(p) : j < k /\ Here(p[j], n) /\ Arrive(p[k], n)
                            => \E l \in 1..Len(p) : j < l /\ l < k /\ Away(p[l], n)

\* The name goes away before it comes into being.
AwayFirst(p, n) ==
  \A k \in 1..Len(p) : Arrive(p[k], n) => \E l \in 1..Len(p) : l < k /\ Away(p[l], n)

\* m goes away, and later n comes into being.
Moved(p, m, n) ==
  \E j, k \in 1..Len(p) : j < k /\ Away(p[j], m) /\ Arrive(p[k], n)

\* The head of the sequence is done with.
LEMMA ShortenedKeeps ==
  ASSUME NEW p, NEW q, NEW n, Len(p) \in Nat, Len(q) \in Nat, Shortened(p, q)
  PROVE  /\ Returns(p, n) => Returns(q, n)
         /\ Leaves(p, n) => Leaves(q, n)
         /\ Apart(p, n) => Apart(q, n)
         /\ AwayFirst(p, n) /\ ~Away(p[1], n) => AwayFirst(q, n)
         /\ Apart(p, n) /\ Here(p[1], n) => AwayFirst(q, n)
         /\ Returns(p, n) /\ Away(p[1], n) => HereIn(q, n)
         /\ HereIn(p, n) /\ ~Here(p[1], n) => HereIn(q, n)
         /\ AwayIn(q, n) => AwayIn(p, n)
<1>1. /\ Len(p) = Len(q) + 1
      /\ \A k \in 1..Len(q) : k + 1 \in 1..Len(p) /\ q[k] = p[k + 1]
      /\ \A k \in 1..Len(p) : k # 1 => k - 1 \in 1..Len(q) /\ p[k] = q[k - 1]
  <2>1. \A k \in 1..Len(p) : k # 1 => k - 1 \in 1..Len(q) /\ (k - 1) + 1 = k
    BY DEF Shortened
  <2>. QED
    BY <2>1 DEF Shortened
<1>2. ASSUME Returns(p, n) PROVE Returns(q, n)
  <2>. SUFFICES ASSUME NEW j \in 1..Len(q), Away(q[j], n)
                PROVE  \E l \in 1..Len(q) : j < l /\ Here(q[l], n)
    BY DEF Returns
  <2>1. PICK l \in 1..Len(p) : j + 1 < l /\ Here(p[l], n)
    BY <1>1, <1>2 DEF Returns
  <2>. QED
    BY <1>1, <2>1
<1>3. ASSUME Leaves(p, n) PROVE Leaves(q, n)
  <2>. SUFFICES ASSUME NEW j \in 1..Len(q), Here(q[j], n)
                PROVE  \E l \in 1..Len(q) : j < l /\ Away(q[l], n)
    BY DEF Leaves
  <2>1. PICK l \in 1..Len(p) : j + 1 < l /\ Away(p[l], n)
    BY <1>1, <1>3 DEF Leaves
  <2>. QED
    BY <1>1, <2>1
<1>4. ASSUME Apart(p, n) PROVE Apart(q, n)
  <2>. SUFFICES ASSUME NEW j \in 1..Len(q), NEW k \in 1..Len(q),
                       j < k, Here(q[j], n), Arrive(q[k], n)
                PROVE  \E l \in 1..Len(q) : j < l /\ l < k /\ Away(q[l], n)
    BY DEF Apart
  <2>1. /\ j + 1 \in 1..Len(p) /\ k + 1 \in 1..Len(p) /\ j + 1 < k + 1
        /\ Here(p[j + 1], n) /\ Arrive(p[k + 1], n)
    BY <1>1
  <2>2. PICK l \in 1..Len(p) : j + 1 < l /\ l < k + 1 /\ Away(p[l], n)
    BY <1>4, <2>1 DEF Apart
  <2>3. l - 1 \in 1..Len(q) /\ j < l - 1 /\ l - 1 < k /\ Away(q[l - 1], n)
    BY <1>1, <2>2
  <2>. QED
    BY <2>3
<1>5. ASSUME AwayFirst(p, n), ~Away(p[1], n) PROVE AwayFirst(q, n)
  <2>. SUFFICES ASSUME NEW k \in 1..Len(q), Arrive(q[k], n)
                PROVE  \E l \in 1..Len(q) : l < k /\ Away(q[l], n)
    BY DEF AwayFirst
  <2>1. PICK l \in 1..Len(p) : l < k + 1 /\ Away(p[l], n)
    BY <1>1, <1>5 DEF AwayFirst
  <2>2. l # 1
    BY <1>5, <2>1
  <2>3. l - 1 \in 1..Len(q) /\ l - 1 < k /\ Away(q[l - 1], n)
    BY <1>1, <2>1, <2>2
  <2>. QED
    BY <2>3
<1>6. ASSUME Apart(p, n), Here(p[1], n) PROVE AwayFirst(q, n)
  <2>. SUFFICES ASSUME NEW k \in 1..Len(q), Arrive(q[k], n)
                PROVE  \E l \in 1..Len(q) : l < k /\ Away(q[l], n)
    BY DEF AwayFirst
  <2>1. 1 \in 1..Len(p) /\ k + 1 \in 1..Len(p) /\ 1 < k + 1 /\ Arrive(p[k + 1], n)
    BY <1>1
  <2>2. PICK l \in 1..Len(p) : 1 < l /\ l < k + 1 /\ Away(p[l], n)
    BY <1>6, <2>1 DEF Apart
  <2>3. l - 1 \in 1..Len(q) /\ l - 1 < k
    BY <1>1, <2>2
  <2>4. Away(q[l - 1], n)
    BY <1>1, <2>2
  <2>. QED
    BY <2>3, <2>4
<1>7. ASSUME Returns(p, n), Away(p[1], n) PROVE HereIn(q, n)
  <2>1. 1 \in 1..Len(p)
    BY <1>1
  <2>2. PICK l \in 1..Len(p) : 1 < l /\ Here(p[l], n)
    BY <1>7, <2>1 DEF Returns
  <2>. QED
    BY <1>1, <2>2 DEF HereIn
<1>8. HereIn(p, n) /\ ~Here(p[1], n) => HereIn(q, n)
  BY <1>1 DEF HereIn
<1>9. AwayIn(q, n) => AwayIn(p, n)
  BY <1>1 DEF AwayIn
<1>. QED
  BY <1>2, <1>3, <1>4, <1>5, <1>6, <1>7, <1>8, <1>9

LEMMA ShortenedKeepsMore ==
  ASSUME NEW p, NEW q, Len(p) \in Nat, Len(q) \in Nat, Shortened(p, q)
  PROVE  /\ \A m, n : Moved(p, m, n) /\ ~Away(p[1], m) => Moved(q, m, n)
         /\ \A w : ModifiedIn(p, w) /\ p[1] # FileEvent(w) => ModifiedIn(q, w)
<1>1. /\ Len(p) = Len(q) + 1
      /\ \A k \in 1..Len(p) : k # 1 => k - 1 \in 1..Len(q) /\ p[k] = q[k - 1]
  <2>1. \A k \in 1..Len(p) : k # 1 => k - 1 \in 1..Len(q) /\ (k - 1) + 1 = k
    BY DEF Shortened
  <2>. QED
    BY <2>1 DEF Shortened
<1>2. ASSUME NEW m, NEW n, Moved(p, m, n), ~Away(p[1], m)
      PROVE  Moved(q, m, n)
  <2>1. PICK j, k \in 1..Len(p) : j < k /\ Away(p[j], m) /\ Arrive(p[k], n)
    BY <1>2 DEF Moved
  <2>2. /\ j # 1 /\ k # 1 /\ j - 1 \in 1..Len(q) /\ k - 1 \in 1..Len(q) /\ j - 1 < k - 1
        /\ p[j] = q[j - 1] /\ p[k] = q[k - 1]
    BY <1>1, <1>2, <2>1
  <2>. QED
    BY <2>1, <2>2 DEF Moved
<1>3. \A w : ModifiedIn(p, w) /\ p[1] # FileEvent(w) => ModifiedIn(q, w)
  BY <1>1 DEF ModifiedIn
<1>. QED
  BY <1>2, <1>3

\* The head of the sequence becomes another event, of the same name and that
\* leaves the name as it was.
LEMMA ReplacedKeeps ==
  ASSUME NEW p, NEW q, NEW e, NEW n, Len(p) \in Nat, Len(q) \in Nat, Replaced(p, q, e),
         Away(e, n) <=> Away(p[1], n), Here(e, n) <=> Here(p[1], n), ~Arrive(e, n)
  PROVE  /\ Returns(p, n) => Returns(q, n)
         /\ Leaves(p, n) => Leaves(q, n)
         /\ Apart(p, n) => Apart(q, n)
         /\ AwayFirst(p, n) => AwayFirst(q, n)
         /\ HereIn(p, n) => HereIn(q, n)
         /\ AwayIn(q, n) => AwayIn(p, n)
         /\ \A m : (Away(p[1], m) => Away(e, m)) /\ Moved(p, m, n) => Moved(q, m, n)
<1>1. /\ Len(p) = Len(q)
      /\ \A k \in 1..Len(p) : /\ Away(q[k], n) <=> Away(p[k], n)
                              /\ Here(q[k], n) <=> Here(p[k], n)
                              /\ Arrive(q[k], n) => Arrive(p[k], n)
                              /\ k # 1 => q[k] = p[k]
  <2>1. \A k \in 1..Len(p) : k = 1 \/ k \in 2..Len(q)
    BY DEF Replaced
  <2>. QED
    BY <2>1 DEF Replaced
<1>2. Returns(p, n) => Returns(q, n)
  BY <1>1 DEF Returns
<1>3. Leaves(p, n) => Leaves(q, n)
  BY <1>1 DEF Leaves
<1>4. Apart(p, n) => Apart(q, n)
  BY <1>1 DEF Apart
<1>5. AwayFirst(p, n) => AwayFirst(q, n)
  BY <1>1 DEF AwayFirst
<1>6. (HereIn(p, n) => HereIn(q, n)) /\ (AwayIn(q, n) => AwayIn(p, n))
  BY <1>1 DEF HereIn, AwayIn
<1>7. ASSUME NEW m, Away(p[1], m) => Away(e, m), Moved(p, m, n)
      PROVE  Moved(q, m, n)
  <2>1. PICK j, k \in 1..Len(p) : j < k /\ Away(p[j], m) /\ Arrive(p[k], n)
    BY <1>7 DEF Moved
  <2>2. k # 1 /\ Arrive(q[k], n)
    BY <1>1, <2>1
  <2>3. Away(q[j], m)
    BY <1>1, <1>7, <2>1 DEF Replaced
  <2>. QED
    BY <1>1, <2>1, <2>2, <2>3 DEF Moved
<1>. QED
  BY <1>2, <1>3, <1>4, <1>5, <1>6, <1>7

\* An event at the end, for the names that it is not about.
LEMMA ExtendedKeeps ==
  ASSUME NEW p, NEW q, NEW e, NEW n, Len(p) \in Nat, Len(q) \in Nat, Extended(p, q, e)
  PROVE  /\ AwayIn(p, n) => AwayIn(q, n)
         /\ HereIn(p, n) => HereIn(q, n)
         /\ ~Away(e, n) /\ AwayIn(q, n) => AwayIn(p, n)
         /\ ~Away(e, n) /\ Returns(p, n) => Returns(q, n)
         /\ ~Here(e, n) /\ Leaves(p, n) => Leaves(q, n)
         /\ ~Arrive(e, n) /\ Apart(p, n) => Apart(q, n)
         /\ ~Arrive(e, n) /\ AwayFirst(p, n) => AwayFirst(q, n)
         /\ \A m : Moved(p, m, n) => Moved(q, m, n)
         /\ \A w : ModifiedIn(p, w) => ModifiedIn(q, w)
<1>1. /\ Len(p) <= Len(q)
      /\ \A k \in 1..Len(p) : k \in 1..Len(q) /\ q[k] = p[k]
      /\ \A k \in 1..Len(q) : k \in 1..Len(p) \/ q[k] = e
  BY DEF Extended
<1>2. (AwayIn(p, n) => AwayIn(q, n)) /\ (HereIn(p, n) => HereIn(q, n))
  BY <1>1 DEF AwayIn, HereIn
<1>3. ~Away(e, n) /\ AwayIn(q, n) => AwayIn(p, n)
  BY <1>1 DEF AwayIn
<1>4. ASSUME ~Away(e, n), Returns(p, n) PROVE Returns(q, n)
  BY <1>1, <1>4 DEF Returns
<1>5. ASSUME ~Here(e, n), Leaves(p, n) PROVE Leaves(q, n)
  BY <1>1, <1>5 DEF Leaves
<1>6. ASSUME ~Arrive(e, n), Apart(p, n) PROVE Apart(q, n)
  <2>. SUFFICES ASSUME NEW j \in 1..Len(q), NEW k \in 1..Len(q),
                       j < k, Here(q[j], n), Arrive(q[k], n)
                PROVE  \E l \in 1..Len(q) : j < l /\ l < k /\ Away(q[l], n)
    BY DEF Apart
  <2>1. k \in 1..Len(p) /\ j \in 1..Len(p)
    BY <1>1, <1>6
  <2>. QED
    BY <1>1, <1>6, <2>1 DEF Apart
<1>7. ASSUME ~Arrive(e, n), AwayFirst(p, n) PROVE AwayFirst(q, n)
  BY <1>1, <1>7 DEF AwayFirst
<1>8. \A m : Moved(p, m, n) => Moved(q, m, n)
  BY <1>1 DEF Moved
<1>9. \A w : ModifiedIn(p, w) => ModifiedIn(q, w)
  BY <1>1 DEF ModifiedIn
<1>. QED
  BY <1>2, <1>3, <1>4, <1>5, <1>6, <1>7, <1>8, <1>9

\* An event at the end, for the name that it is about.
LEMMA ExtendedAdds ==
  ASSUME NEW p, NEW q, NEW e, NEW n, Len(p) \in Nat, Len(q) \in Nat, Extended(p, q, e)
  PROVE  /\ Away(e, n) => AwayIn(q, n) /\ Leaves(q, n)
         /\ Here(e, n) => HereIn(q, n) /\ Returns(q, n)
         /\ Leaves(p, n) /\ Apart(p, n) /\ Here(e, n) => Apart(q, n)
         /\ AwayIn(p, n) /\ AwayFirst(p, n) => AwayFirst(q, n)
         /\ \A m : Moved(p, m, n) \/ (AwayIn(p, m) /\ Arrive(e, n)) => Moved(q, m, n)
         /\ \A w : e = FileEvent(w) => ModifiedIn(q, w)
<1>1. /\ Len(p) <= Len(q) /\ Len(q) \in 1..Len(q) /\ q[Len(q)] = e
      /\ \A k \in 1..Len(p) : k \in 1..Len(q) /\ q[k] = p[k]
      /\ \A k \in 1..Len(q) : k \in 1..Len(p) \/ (q[k] = e /\ k = Len(q))
  BY DEF Extended
<1>2. ~(Away(e, n) /\ Here(e, n)) /\ (Arrive(e, n) => Here(e, n))
  BY DEF Away, Here, Arrive
<1>3. ASSUME Away(e, n) PROVE AwayIn(q, n) /\ Leaves(q, n)
  <2>1. \A j \in 1..Len(q) : Here(q[j], n) => j < Len(q)
    BY <1>1, <1>2, <1>3
  <2>. QED
    BY <1>1, <1>3, <2>1 DEF AwayIn, Leaves
<1>4. ASSUME Here(e, n) PROVE HereIn(q, n) /\ Returns(q, n)
  <2>1. \A j \in 1..Len(q) : Away(q[j], n) => j < Len(q)
    BY <1>1, <1>2, <1>4
  <2>. QED
    BY <1>1, <1>4, <2>1 DEF HereIn, Returns
<1>5. ASSUME Leaves(p, n), Apart(p, n), Here(e, n) PROVE Apart(q, n)
  <2>. SUFFICES ASSUME NEW j \in 1..Len(q), NEW k \in 1..Len(q),
                       j < k, Here(q[j], n), Arrive(q[k], n)
                PROVE  \E l \in 1..Len(q) : j < l /\ l < k /\ Away(q[l], n)
    BY DEF Apart
  <2>1. CASE k \in 1..Len(p)
    <3>1. j \in 1..Len(p)
      BY <2>1
    <3>. QED
      BY <1>1, <1>5, <2>1, <3>1 DEF Apart
  <2>2. CASE k \notin 1..Len(p)
    <3>1. k = Len(q) /\ k = Len(p) + 1 /\ j \in 1..Len(p)
      BY <1>1, <2>2 DEF Extended
    <3>. QED
      BY <1>1, <1>5, <3>1 DEF Leaves
  <2>. QED
    BY <2>1, <2>2
<1>6. ASSUME AwayIn(p, n), AwayFirst(p, n) PROVE AwayFirst(q, n)
  <2>. SUFFICES ASSUME NEW k \in 1..Len(q), Arrive(q[k], n)
                PROVE  \E l \in 1..Len(q) : l < k /\ Away(q[l], n)
    BY DEF AwayFirst
  <2>1. CASE k \in 1..Len(p)
    BY <1>1, <1>6, <2>1 DEF AwayFirst
  <2>2. CASE k \notin 1..Len(p)
    BY <1>1, <1>6, <2>2 DEF AwayIn
  <2>. QED
    BY <2>1, <2>2
<1>7. ASSUME NEW m, Moved(p, m, n) \/ (AwayIn(p, m) /\ Arrive(e, n))
      PROVE  Moved(q, m, n)
  <2>1. CASE Moved(p, m, n)
    BY <2>1, ExtendedKeeps
  <2>2. CASE AwayIn(p, m) /\ Arrive(e, n) /\ Len(q) = Len(p) + 1
    BY <1>1, <2>2 DEF Moved, AwayIn
  <2>3. CASE AwayIn(p, m) /\ Arrive(e, n) /\ Len(q) = Len(p)
    <3>1. PICK j \in 1..Len(p) : Away(p[j], m)
      BY <2>3 DEF AwayIn
    <3>2. j # Len(q)
      BY <1>1, <2>3, <3>1 DEF Away, Arrive
    <3>. QED
      BY <1>1, <2>3, <3>1, <3>2 DEF Moved
  <2>. QED
    BY <1>7, <2>1, <2>2, <2>3 DEF Extended
<1>8. \A w : e = FileEvent(w) => ModifiedIn(q, w)
  BY <1>1 DEF ModifiedIn
<1>. QED
  BY <1>3, <1>4, <1>5, <1>6, <1>7, <1>8

\* Nothing in q says more about n than p did.
Unmoved(p, q, n) ==
  /\ AwayIn(p, n) <=> AwayIn(q, n)
  /\ HereIn(p, n) => HereIn(q, n)
  /\ Returns(p, n) => Returns(q, n)
  /\ Leaves(p, n) => Leaves(q, n)
  /\ Apart(p, n) => Apart(q, n)
  /\ AwayFirst(p, n) => AwayFirst(q, n)

LEMMA ExtendedUnmoved ==
  ASSUME NEW p, NEW q, NEW e, NEW n, Len(p) \in Nat, Len(q) \in Nat, Extended(p, q, e),
         ~Away(e, n), ~Here(e, n)
  PROVE  Unmoved(p, q, n)
<1>1. ~Arrive(e, n)
  BY DEF Arrive, Here
<1>. QED
  BY <1>1, ExtendedKeeps DEF Unmoved

LEMMA ShortenedUnmoved ==
  ASSUME NEW p, NEW q, NEW n, Len(p) \in Nat, Len(q) \in Nat, Shortened(p, q),
         ~Away(p[1], n), ~Here(p[1], n)
  PROVE  Unmoved(p, q, n)
  BY ShortenedKeeps, AwayShortened DEF Unmoved

LEMMA ReplacedUnmoved ==
  ASSUME NEW p, NEW q, NEW e, NEW n, Len(p) \in Nat, Len(q) \in Nat, Replaced(p, q, e),
         Away(e, n) <=> Away(p[1], n), Here(e, n) <=> Here(p[1], n), ~Arrive(e, n)
  PROVE  Unmoved(p, q, n)
  BY ReplacedKeeps, AwayReplaced DEF Unmoved

-----------------------------------------------------------------------------
(* The invariant.                                                          *)

\* No file has two names, and none that llad may not read is watched.
Separate  == \A n, m \in Names : entry[n] = entry[m] /\ entry[n] # NoFile => n = m
Unwatched == \A i \in Files : i \notin readable => watchOf[i] = NoWatch

\* Where the handlers are.
Phases ==
  /\ pc = "close" => inwd[cur] = NoWatch
  /\ pc \in {"scan", "reopen", "openscan", "truncated"} => inwd[cur] # NoWatch

\* The events announce, in the end, what the directory has; a log file that is
\* watched goes away before it comes into being again.
Announced(n) ==
  /\ IF entry[n] = NoFile THEN Leaves(Pending, n) ELSE Returns(Pending, n)
  /\ Apart(Pending, n)
  /\ inwd[n] # NoWatch => AwayFirst(Pending, n)

\* What llad watches under a name is the file of that name, or it is told.
Holds(n) ==
  inwd[n] # NoWatch => \/ entry[n] # NoFile /\ inwd[n] = watchOf[entry[n]]
                       \/ AwayIn(Pending, n)

\* If it watches the file of n under the name m, the file has been renamed,
\* and it is told in this order.
Shares(m, n) ==
  /\ inwd[m] # NoWatch
  /\ entry[n] # NoFile /\ inwd[m] = watchOf[entry[n]] /\ entry[m] # entry[n]
  => Moved(Pending, m, n)

\* The stream of n is on its file and at the end, or it will be read.
Reading(n) ==
  \/ pc \in {"reopen", "openscan", "truncated"} /\ cur = n
  \/ /\ file[n].on = entry[n]
     /\ \/ file[n].pos = Size(entry[n])
        \/ pc = "gets" /\ cur = n /\ file[n].pos <= Size(entry[n])
        \/ ModifiedIn(Pending, inwd[n])

Watched(n) == inwd[n] # NoWatch /\ inwd[n] = watchOf[entry[n]]
AtEnd(n)   == file[n].on = entry[n] /\ file[n].pos = Size(entry[n])

Waiting(n) == \E k \in 1..Len(todo) : todo[k] = n

\* The same while llad starts.
Prepared(n) ==
  IF pc = "open" THEN Waiting(n) \/ AtEnd(n)
  ELSE AtEnd(n) /\ (Waiting(n) \/ Watched(n))

Tracked(n) ==
  Found(n) # NoFile /\ ~AwayIn(Pending, n) =>
    IF Starting THEN Prepared(n)
    ELSE \/ inwd[n] = NoWatch /\ HereIn(Pending, n)
         \/ Watched(n) /\ Reading(n)

FilesInv == Separate /\ Unwatched /\ Phases

NamesInv == /\ \A n \in Names : Announced(n) /\ Holds(n) /\ Tracked(n)
            /\ \A m, n \in Names : Shares(m, n)

RotationInv == FilesInv /\ NamesInv

\* A log file that is not announced to go away shares its descriptor with no
\* other one.
LEMMA NoSharing ==
  ASSUME RotationInv, NEW n \in Names, NEW m \in Names, m # n,
         inwd[n] # NoWatch, ~AwayIn(Pending, n)
  PROVE  inwd[m] # inwd[n]
<1>. SUFFICES ASSUME inwd[m] = inwd[n] PROVE FALSE
  OBVIOUS
<1>1. entry[n] # NoFile /\ inwd[n] = watchOf[entry[n]]
  BY DEF RotationInv, NamesInv, Holds
<1>2. entry[m] # entry[n]
  BY <1>1 DEF RotationInv, FilesInv, Separate
<1>3. Moved(Pending, m, n)
  BY <1>1, <1>2 DEF RotationInv, NamesInv, Shares
<1>4. AwayFirst(Pending, n)
  BY DEF RotationInv, NamesInv, Announced
<1>. QED
  BY <1>3, <1>4 DEF Moved, AwayFirst, AwayIn

\* A step that is not about n.
LEMMA NotAbout ==
  ASSUME TypeInv, NEW n \in Names, Announced(n), Holds(n), Tracked(n),
         ~Starting, ~Starting', Unmoved(Pending, Pending', n),
         entry'[n] = entry[n], Found(n)' = Found(n), inwd'[n] = inwd[n],
         file'[n] = file[n],
         entry[n] # NoFile => \/ watchOf'[entry[n]] = watchOf[entry[n]]
                              \/ AwayIn(Pending, n)
                              \/ inwd[n] # watchOf[entry[n]]
                              \/ inwd[n] = NoWatch,
         Watched(n) /\ ~AwayIn(Pending, n) =>
           /\ ModifiedIn(Pending, inwd[n]) => ModifiedIn(Pending', inwd[n])
           /\ Size(entry[n])' = Size(entry[n]) \/ ModifiedIn(Pending', inwd[n]),
         \/ UNCHANGED <<pc, cur>>
         \/ ~(pc \in {"reopen", "openscan", "truncated", "gets"} /\ cur = n)
  PROVE  Announced(n)' /\ Holds(n)' /\ Tracked(n)'
<1>1. Announced(n)'
  BY DEF Announced, Unmoved
<1>2. Holds(n)'
  BY DEF Holds, Unmoved
<1>3. Tracked(n)'
  <2>. SUFFICES ASSUME Found(n)' # NoFile, ~AwayIn(Pending', n)
                PROVE  \/ inwd'[n] = NoWatch /\ HereIn(Pending', n)
                       \/ Watched(n)' /\ Reading(n)'
    BY DEF Tracked
  <2>1. ~AwayIn(Pending, n) /\ Found(n) # NoFile
    BY DEF Unmoved
  <2>2. CASE inwd[n] = NoWatch /\ HereIn(Pending, n)
    BY <2>2 DEF Unmoved
  <2>3. CASE Watched(n) /\ Reading(n)
    <3>1. entry[n] # NoFile
      BY <2>1 DEF Found
    <3>2. Watched(n)'
      BY <2>1, <2>3, <3>1 DEF Watched
    <3>3. Reading(n)'
      BY <2>1, <2>3 DEF Reading, Size
    <3>. QED
      BY <3>2, <3>3
  <2>. QED
    BY <2>1, <2>2, <2>3 DEF Tracked
<1>. QED
  BY <1>1, <1>2, <1>3

-----------------------------------------------------------------------------
(* The files and the handlers.                                             *)

LEMMA RotatingChanges ==
  ASSUME Rotating, Others
  PROVE  \/ \E i \in Files : Write(i) \/ Truncate(i)
         \/ \E n \in Names : Remove(n) \/ Create(n) \/ Grant(n)
         \/ \E n, m \in Names : Rename(n, m)
<1>1. /\ "replace" \notin scenario.changes /\ "revoke" \notin scenario.changes
      /\ "link" \notin scenario.changes
  BY DEF Rotating
<1>. QED
  BY <1>1 DEF Others, Environment, Replace, Revoke, Link, Change

LEMMA MainKeepsFiles ==
  ASSUME MainThread
  PROVE  UNCHANGED <<scenario, entry, content, readable, files, written, changes>>
  BY DEF MainThread, OpenLog, AllOpened, RegisterDir, RegisterFile, AllWatched, ReadEvents,
         HandleEvent, RemoveWatch, logfile_close, AddWatch, CloseToReopen, CheckFile,
         OpenToScan, ReopenTruncated, GetLines, dirVars, contents

LEMMA SeparateStep ==
  ASSUME Rotating, TypeInv, Separate, MainThread \/ Others
  PROVE  Separate'
<1>1. \A n \in Names : entry[n] \in 0..files /\ files \in Nat
  BY LogDirectoryAssumption DEF TypeInv, TypeOK
<1>2. CASE \/ MainThread \/ \E i \in Files : Write(i) \/ Truncate(i)
           \/ \E n \in Names : Grant(n)
  <2>1. entry' = entry
    BY <1>2, MainKeepsFiles DEF Write, Truncate, Grant
  <2>. QED
    BY <2>1 DEF Separate
<1>3. CASE \E n \in Names : Remove(n)
  BY <1>3 DEF Remove, Separate, TypeInv, TypeOK
<1>4. CASE \E n \in Names : Create(n)
  <2>1. PICK n \in Names : entry' = [entry EXCEPT ![n] = files + 1]
    BY <1>4 DEF Create, NewFile
  <2>2. \A m \in Names : entry[m] # files + 1
    BY <1>1
  <2>. QED
    BY <2>1, <2>2 DEF Separate, TypeInv, TypeOK
<1>5. CASE \E n, m \in Names : Rename(n, m)
  <2>1. PICK n, m \in Names : /\ entry[n] # NoFile /\ entry[m] = NoFile
                              /\ entry' = [entry EXCEPT ![m] = entry[n], ![n] = NoFile]
    BY <1>5 DEF Rename
  <2>. QED
    BY <2>1 DEF Separate, TypeInv, TypeOK
<1>. QED
  BY <1>2, <1>3, <1>4, <1>5, RotatingChanges

LEMMA UnwatchedStep ==
  ASSUME Rotating, TypeInv, Unwatched, MainThread \/ Others
  PROVE  Unwatched'
<1>1. CASE Others
  <2>1. watchOf' = watchOf /\ readable \subseteq readable'
    BY <1>1, RotatingChanges
       DEF Write, Truncate, Remove, Create, NewFile, Grant, Rename, inotify
  <2>. QED
    BY <2>1 DEF Unwatched
<1>2. ASSUME MainThread, watchOf' # watchOf,
             NEW i \in Files, i \notin readable
      PROVE  watchOf'[i] = NoWatch
  <2>1. CASE RemoveWatch
    BY <1>2, <2>1 DEF RemoveWatch, Unwatched
  <2>2. CASE RegisterFile \/ AddWatch
    <3>1. PICK n \in Names : Watch(n)
      BY <2>2, HeadTailProperties
         DEF RegisterFile, AddWatch, Goes, TypeInv, TypeOK, Shape, Handling
    <3>2. Found(n) # NoFile
      BY <1>2, <3>1 DEF Watch, inotify
    <3>3. Found(n) \in readable
      BY <3>2, FoundType
    <3>. QED
      BY <1>2, <3>1, <3>2, <3>3 DEF Watch, Unwatched, TypeInv, TypeOK
  <2>. QED
    BY <1>2, <2>1, <2>2 DEF MainThread, OpenLog, AllOpened, RegisterDir, AllWatched,
       ReadEvents, HandleEvent, logfile_close, CloseToReopen, CheckFile, OpenToScan,
       ReopenTruncated, GetLines, dirVars, inotify
<1>3. CASE MainThread
  <2>1. readable' = readable
    BY <1>3, MainKeepsFiles
  <2>. QED
    BY <1>2, <1>3, <2>1 DEF Unwatched
<1>. QED
  BY <1>1, <1>3

LEMMA RestOfSeq ==
  ASSUME NEW S, NEW s \in Seq(S), NEW p \in Nat
  PROVE  LET r == SubSeq(s, p + 1, Len(s)) IN
           /\ r \in Seq(S) /\ Len(r) \in Nat /\ Len(s) \in Nat
           /\ p <= Len(s) => Len(r) = Len(s) - p
           /\ Len(s) <= p => Len(r) = 0
           /\ \A k \in 1..Len(r) : r[k] = s[p + k]
<1>. DEFINE r == SubSeq(s, p + 1, Len(s))
<1>1. Len(s) \in Nat /\ \A k \in (p + 1)..Len(s) : s[k] \in S
  <2>1. Len(s) \in Nat /\ \A k \in 1..Len(s) : s[k] \in S
    BY LenProperties, ElementOfSeq
  <2>. QED
    BY <2>1
<1>2. p + 1 \in Int /\ Len(s) \in Int
  BY <1>1
<1>3. /\ r \in Seq(S)
      /\ Len(r) = IF p + 1 <= Len(s) THEN Len(s) - (p + 1) + 1 ELSE 0
      /\ \A k \in 1..Len(s) - (p + 1) + 1 : r[k] = s[p + 1 + k - 1]
  <2>. DEFINE m == p + 1
              l == Len(s)
  <2>1. m \in Int /\ l \in Int /\ \A k \in m..l : s[k] \in S
    BY <1>1, <1>2
  <2>. HIDE DEF m, l
  <2>2. /\ SubSeq(s, m, l) \in Seq(S)
        /\ Len(SubSeq(s, m, l)) = IF m <= l THEN l - m + 1 ELSE 0
        /\ \A k \in 1..l - m + 1 : SubSeq(s, m, l)[k] = s[m + k - 1]
    BY <2>1, SubSeqProperties
  <2>. QED
    BY <2>2 DEF m, l
<1>. HIDE DEF r
<1>4. /\ p <= Len(s) => Len(r) = Len(s) - p
      /\ Len(s) <= p => Len(r) = 0
      /\ Len(r) \in Nat
  BY <1>1, <1>3
<1>5. \A k \in 1..Len(r) : /\ k \in 1..Len(s) - (p + 1) + 1
                           /\ p + 1 + k - 1 = p + k
  BY <1>1, <1>3
<1>6. \A k \in 1..Len(r) : r[k] = s[p + k]
  BY <1>3, <1>5
<1>. QED
  BY <1>1, <1>3, <1>4, <1>6 DEF r

\* The lines that GetLines reads.
LEMMA LinesRead ==
  ASSUME TypeInv, GetLines
  PROVE  LET s     == file[cur]
             lines == IF s.eof /\ StickyEOF THEN <<>>
                      ELSE SubSeq(content[s.on], s.pos + 1, Size(s.on))
         IN  /\ cur \in Names /\ s.on \in Files /\ s.pos \in Nat /\ Size(s.on) \in Nat
             /\ lines \in Seq(0..written) /\ Len(lines) \in Nat
             /\ \A k \in 1..Len(lines) : lines[k] = content[s.on][s.pos + k]
             /\ lines # <<>> => s.pos + Len(lines) = Size(s.on)
             /\ lines = <<>> => /\ Len(lines) = 0
                                /\ (s.eof /\ StickyEOF) \/ Size(s.on) <= s.pos
             /\ matched' = [matched EXCEPT ![cur] = @ \o lines]
             /\ file' = [file EXCEPT ![cur].pos = @ + Len(lines),
                                     ![cur].eof = (lines = <<>>)]
             /\ pc = "gets" /\ pc' = IF lines = <<>> THEN "loop" ELSE "gets"
             /\ UNCHANGED <<dirVars, cur, todo, chunk, inwd>>
<1>. DEFINE s     == file[cur]
            r     == SubSeq(content[s.on], s.pos + 1, Size(s.on))
            lines == IF s.eof /\ StickyEOF THEN <<>> ELSE r
<1>1. cur \in Names /\ pc = "gets" /\ s.on # NoFile
  BY DEF GetLines, TypeInv, Shape, Handling
<1>2. /\ s.on \in Files /\ s.pos \in Nat
      /\ content[s.on] \in Seq(0..written) /\ Size(s.on) = Len(content[s.on])
  BY <1>1, LogDirectoryAssumption DEF TypeInv, TypeOK, Files, NoFile, Size
<1>3. /\ r \in Seq(0..written) /\ Len(r) \in Nat /\ Size(s.on) \in Nat
      /\ s.pos <= Size(s.on) => Len(r) = Size(s.on) - s.pos
      /\ Size(s.on) <= s.pos => Len(r) = 0
      /\ \A k \in 1..Len(r) : r[k] = content[s.on][s.pos + k]
  <2>. DEFINE c == content[s.on]
              p == s.pos
  <2>1. c \in Seq(0..written) /\ p \in Nat
    BY <1>2
  <2>2. r = SubSeq(c, p + 1, Len(c)) /\ Size(s.on) = Len(c)
    BY <1>2
  <2>. HIDE DEF c, p, r
  <2>3. /\ r \in Seq(0..written) /\ Len(r) \in Nat /\ Len(c) \in Nat
        /\ p <= Len(c) => Len(r) = Len(c) - p
        /\ Len(c) <= p => Len(r) = 0
        /\ \A k \in 1..Len(r) : r[k] = c[p + k]
    BY <2>1, <2>2, RestOfSeq
  <2>. QED
    BY <2>2, <2>3 DEF c, p
<1>4. /\ matched' = [matched EXCEPT ![cur] = @ \o lines]
      /\ file' = [file EXCEPT ![cur].pos = @ + Len(lines), ![cur].eof = (lines = <<>>)]
      /\ pc' = IF lines = <<>> THEN "loop" ELSE "gets"
      /\ UNCHANGED <<dirVars, cur, todo, chunk, inwd>>
  BY DEF GetLines
<1>5. lines = r \/ (lines = <<>> /\ s.eof /\ StickyEOF)
  OBVIOUS
<1>. HIDE DEF r, lines
<1>6. /\ lines \in Seq(0..written) /\ Len(lines) \in Nat
      /\ lines = <<>> => Len(lines) = 0
      /\ Len(lines) = 0 => lines = <<>>
  BY <1>3, <1>5, EmptySeq
<1>7. /\ \A k \in 1..Len(lines) : lines[k] = content[s.on][s.pos + k]
      /\ lines # <<>> => s.pos + Len(lines) = Size(s.on)
      /\ lines = <<>> => (s.eof /\ StickyEOF) \/ Size(s.on) <= s.pos
  <2>1. CASE lines = r
    BY <1>2, <1>3, <1>6, <2>1
  <2>2. CASE lines = <<>> /\ s.eof /\ StickyEOF
    BY <1>6, <2>2
  <2>. QED
    BY <1>5, <2>1, <2>2
<1>. QED
  BY <1>1, <1>2, <1>3, <1>4, <1>6, <1>7 DEF r, lines

LEMMA PhasesStep ==
  ASSUME TypeInv, Phases, MainThread \/ Others
  PROVE  Phases'
<1>1. CASE Others
  BY <1>1 DEF Others, llad, Phases
<1>2. CASE HandleEvent
  <2>1. chunk # <<>> /\ chunk \in Seq(Events) /\ inwd' = inwd
    BY <1>2 DEF HandleEvent, TypeInv, TypeOK
  <2>2. Head(chunk) \in Events
    BY <2>1, HeadTailProperties
  <2>3. Head(chunk).mask = "modify" => Head(chunk).wd # NoWatch
    BY <2>2 DEF Events, FileEvent, DirEvent, Overflow, NoWatch
  <2>4. ASSUME NEW n \in Names, Modified(Head(chunk), n)
        PROVE  inwd[n] # NoWatch
    <3>1. n = findFile(Head(chunk).wd) /\ n # NoName
      BY <2>4, LogDirectoryAssumption DEF Modified
    <3>2. inwd[n] = Head(chunk).wd
      BY <3>1, FindFile
    <3>. QED
      BY <2>3, <2>4, <3>2 DEF Modified
  <2>. QED
    BY <1>2, <2>1, <2>4 DEF HandleEvent, Phases
<1>3. CASE AddWatch
  <2>1. cur \in Names /\ inwd \in [Names -> 0..lastWd] /\ lastWd \in Nat /\ dirWatched
    BY <1>3 DEF AddWatch, TypeInv, TypeOK, Shape, Handling
  <2>2. Found(cur) # NoFile => inwd'[cur] # NoWatch
    <3>1. Found(cur) # NoFile => Found(cur) \in Files
      BY <2>1, FoundType
    <3>. QED
      BY <1>3, <2>1, <3>1 DEF AddWatch, Watch, TypeInv, TypeOK, NoWatch
  <2>. QED
    BY <1>3, <2>2 DEF AddWatch, Phases
<1>4. CASE CheckFile
  BY <1>4 DEF CheckFile, Phases
<1>5. CASE RemoveWatch
  BY <1>5 DEF RemoveWatch, Goes, Phases, TypeInv, TypeOK, Shape, Handling
<1>6. CASE RegisterFile
  BY <1>6 DEF RegisterFile, Goes, Phases
<1>7. CASE GetLines
  BY <1>7 DEF GetLines, Phases
<1>8. CASE \/ OpenLog \/ AllOpened \/ RegisterDir \/ AllWatched \/ ReadEvents \/ logfile_close
           \/ CloseToReopen \/ OpenToScan \/ ReopenTruncated
  BY <1>8 DEF OpenLog, AllOpened, RegisterDir, AllWatched, ReadEvents, logfile_close,
     CloseToReopen, OpenToScan, ReopenTruncated, Goes, Phases
<1>. QED
  BY <1>1, <1>2, <1>3, <1>4, <1>5, <1>6, <1>7, <1>8 DEF MainThread

-----------------------------------------------------------------------------
(* The names, while the files change.                                      *)

\* Files change while llad is up and the directory is watched; what llad
\* holds stays as it is.
LEMMA WhileUp ==
  ASSUME Calm, Begun, Others
  PROVE  /\ UNCHANGED llad /\ ~Starting /\ ~Starting'
         /\ \A n \in Names : dirWatched
  BY DEF Begun, Others, Starting, llad

LEMMA LenPending ==
  ASSUME TypeInv
  PROVE  Len(Pending) \in Nat
  BY PendingType, LenProperties

LEMMA EntryType ==
  ASSUME TypeInv, NEW n \in Names, entry[n] # NoFile
  PROVE  entry[n] \in Files /\ entry[n] \in 1..files /\ files + 1 \notin readable
<1>1. entry[n] \in 0..files /\ files \in 0..MaxFiles /\ MaxFiles \in Nat
  BY LogDirectoryAssumption DEF TypeInv, TypeOK
<1>2. readable \subseteq 1..files
  BY DEF TypeInv, TypeOK
<1>. QED
  BY <1>1, <1>2 DEF Files, NoFile

LEMMA WriteNames ==
  ASSUME Calm, Rotating, TypeInv, TypeInv', Begun, NothingLost', RotationInv, Others,
         NEW i \in Files, Write(i) \/ Truncate(i)
  PROVE  NamesInv'
<1>1. /\ UNCHANGED llad /\ ~Starting /\ ~Starting'
      /\ Len(Pending) \in Nat /\ Len(Pending') \in Nat
  BY WhileUp, LenPending
<1>2. /\ UNCHANGED <<entry, readable, watchOf, inwd, file, pc, cur>>
      /\ \A j \in Files : j # i => Size(j)' = Size(j)
  BY <1>1 DEF Write, Truncate, inotify, llad, Size, TypeInv, TypeOK
<1>3. /\ \/ Pending' = Pending /\ watchOf[i] = NoWatch
         \/ Extended(Pending, Pending', FileEvent(watchOf[i]))
      /\ watchOf[i] # NoWatch => Extended(Pending, Pending', FileEvent(watchOf[i]))
  BY <1>1, NotifyFilePending DEF Write, Truncate
<1>4. \A n : ~Away(FileEvent(watchOf[i]), n) /\ ~Here(FileEvent(watchOf[i]), n)
  BY DEF Away, Here, FileEvent
<1>5. \A n : Unmoved(Pending, Pending', n)
  BY <1>1, <1>3, <1>4, ExtendedUnmoved DEF Unmoved
<1>6. /\ \A w : ModifiedIn(Pending, w) => ModifiedIn(Pending', w)
      /\ \A m, n : Moved(Pending, m, n) => Moved(Pending', m, n)
      /\ watchOf[i] # NoWatch => ModifiedIn(Pending', watchOf[i])
  BY <1>1, <1>3, ExtendedKeeps, ExtendedAdds
<1>7. ASSUME NEW n \in Names
      PROVE  Announced(n)' /\ Holds(n)' /\ Tracked(n)'
  <2>1. Announced(n) /\ Holds(n) /\ Tracked(n)
    BY DEF RotationInv, NamesInv
  <2>2. ASSUME Watched(n), ~AwayIn(Pending, n)
        PROVE  Size(entry[n])' = Size(entry[n]) \/ ModifiedIn(Pending', inwd[n])
    <3>1. entry[n] # NoFile
      BY <2>1, <2>2 DEF Holds, Watched
    <3>2. entry[n] \in Files
      BY <3>1, EntryType
    <3>. QED
      BY <1>2, <1>6, <2>2, <3>2 DEF Watched
  <2>3. Found(n)' = Found(n)
    BY <1>2 DEF Found
  <2>. QED
    BY <1>1, <1>2, <1>5, <1>6, <2>1, <2>2, <2>3, NotAbout
<1>8. ASSUME NEW m \in Names, NEW n \in Names
      PROVE  Shares(m, n)'
  BY <1>2, <1>6 DEF RotationInv, NamesInv, Shares
<1>. QED
  BY <1>7, <1>8 DEF NamesInv

LEMMA RemoveNames ==
  ASSUME Calm, Rotating, TypeInv, TypeInv', Begun, NothingLost', RotationInv, Others,
         NEW n \in Names, Remove(n)
  PROVE  NamesInv'
<1>. DEFINE e == DirEvent("delete", n)
<1>1. /\ UNCHANGED llad /\ ~Starting /\ ~Starting' /\ dirWatched
      /\ Len(Pending) \in Nat /\ Len(Pending') \in Nat
  BY WhileUp, LenPending
<1>2. /\ UNCHANGED <<content, readable, watchOf, inwd, file, pc, cur>>
      /\ entry' = [entry EXCEPT ![n] = NoFile] /\ entry \in [Names -> 0..files]
  BY <1>1 DEF Remove, contents, inotify, llad, TypeInv, TypeOK
<1>3. Extended(Pending, Pending', e)
  BY <1>1, NotifyDirPending DEF Remove
<1>4. /\ Away(e, n) /\ \A m : ~Here(e, m) /\ ~Arrive(e, m)
      /\ \A m : m # n => ~Away(e, m)
  BY DEF Away, Here, Arrive, DirEvent
<1>. HIDE DEF e
<1>5. /\ \A w : ModifiedIn(Pending, w) => ModifiedIn(Pending', w)
      /\ \A m, x : Moved(Pending, m, x) => Moved(Pending', m, x)
  BY <1>1, <1>3, ExtendedKeeps
<1>6. Announced(n)' /\ Holds(n)' /\ Tracked(n)'
  <2>1. /\ AwayIn(Pending', n) /\ Leaves(Pending', n)
        /\ Apart(Pending, n) => Apart(Pending', n)
        /\ AwayFirst(Pending, n) => AwayFirst(Pending', n)
    BY <1>1, <1>3, <1>4, ExtendedKeeps, ExtendedAdds
  <2>. QED
    BY <1>2, <2>1 DEF RotationInv, NamesInv, Announced, Holds, Tracked
<1>7. ASSUME NEW m \in Names, m # n
      PROVE  Announced(m)' /\ Holds(m)' /\ Tracked(m)'
  <2>1. Announced(m) /\ Holds(m) /\ Tracked(m)
    BY DEF RotationInv, NamesInv
  <2>2. Unmoved(Pending, Pending', m)
    BY <1>1, <1>3, <1>4, <1>7, ExtendedUnmoved
  <2>3. entry'[m] = entry[m] /\ Found(m)' = Found(m) /\ Size(entry[m])' = Size(entry[m])
    BY <1>2, <1>7 DEF Found, Size
  <2>. QED
    BY <1>1, <1>2, <1>5, <2>1, <2>2, <2>3, NotAbout
<1>8. ASSUME NEW x \in Names, NEW m \in Names
      PROVE  Shares(x, m)'
  <2>1. Shares(x, m) /\ (entry[x] = entry[m] /\ entry[m] # NoFile => x = m)
    BY DEF RotationInv, NamesInv, FilesInv, Separate
  <2>. QED
    BY <1>2, <1>5, <2>1 DEF Shares
<1>. QED
  BY <1>6, <1>7, <1>8 DEF NamesInv

LEMMA CreateNames ==
  ASSUME Calm, Rotating, TypeInv, TypeInv', Begun, GoneInv, NothingLost', RotationInv,
         Others, NEW n \in Names, Create(n)
  PROVE  NamesInv'
<1>. DEFINE e == DirEvent("create", n)
<1>1. /\ UNCHANGED llad /\ ~Starting /\ ~Starting' /\ dirWatched
      /\ Len(Pending) \in Nat /\ Len(Pending') \in Nat
  BY WhileUp, LenPending
<1>2. /\ UNCHANGED <<watchOf, inwd, file, pc, cur>>
      /\ entry[n] = NoFile /\ entry' = [entry EXCEPT ![n] = files + 1]
      /\ entry \in [Names -> 0..files] /\ files + 1 \in Files /\ files \in Nat
      /\ readable' \subseteq readable \cup {files + 1} /\ readable \subseteq readable'
      /\ \A i \in 1..files : content'[i] = content[i]
  <2>1. files' = files + 1 /\ files \in 0..MaxFiles /\ MaxFiles \in Nat /\ files < MaxFiles
    BY LogDirectoryAssumption DEF Create, NewFile, TypeInv, TypeOK
  <2>2. content' = content \/ content' = [content EXCEPT ![files + 1] = <<written'>>]
    BY <2>1 DEF Create, NewFile
  <2>3. \A i \in 1..files : content'[i] = content[i]
    <3>1. \A i \in 1..files : i \in Files /\ i # files + 1
      BY <2>1 DEF Files
    <3>. QED
      BY <2>2, <3>1 DEF TypeInv, TypeOK
  <2>4. /\ entry[n] = NoFile /\ entry' = [entry EXCEPT ![n] = files + 1]
        /\ watchOf' = watchOf
        /\ readable' = readable \cup {files + 1} \/ readable' = readable
    BY <2>1 DEF Create, NewFile, inotify
  <2>5. entry \in [Names -> 0..files] /\ files + 1 \in Files
    BY <2>1 DEF TypeInv, TypeOK, Files
  <2>. QED
    BY <1>1, <2>1, <2>3, <2>4, <2>5 DEF llad
<1>3. Extended(Pending, Pending', e)
  BY <1>1, NotifyDirPending DEF Create
<1>4. /\ Here(e, n) /\ \A m : ~Away(e, m)
      /\ \A m : m # n => ~Here(e, m) /\ ~Arrive(e, m)
  BY DEF Away, Here, Arrive, DirEvent
<1>. HIDE DEF e
<1>5. /\ \A w : ModifiedIn(Pending, w) => ModifiedIn(Pending', w)
      /\ \A m, x : Moved(Pending, m, x) => Moved(Pending', m, x)
  BY <1>1, <1>3, ExtendedKeeps
<1>6. Announced(n)' /\ Holds(n)' /\ Tracked(n)'
  <2>1. /\ HereIn(Pending', n) /\ Returns(Pending', n)
        /\ Leaves(Pending, n) /\ Apart(Pending, n) => Apart(Pending', n)
        /\ AwayIn(Pending, n) /\ AwayFirst(Pending, n) => AwayFirst(Pending', n)
        /\ AwayIn(Pending, n) => AwayIn(Pending', n)
    BY <1>1, <1>3, <1>4, ExtendedKeeps, ExtendedAdds
  <2>2. Announced(n) /\ (inwd[n] = NoWatch \/ AwayIn(Pending, n))
    BY <1>2 DEF RotationInv, NamesInv, GoneInv, LetGo
  <2>3. entry'[n] # NoFile
    BY <1>2 DEF NoFile
  <2>. QED
    BY <1>1, <1>2, <2>1, <2>2, <2>3 DEF Announced, Holds, Tracked
<1>7. ASSUME NEW m \in Names, m # n
      PROVE  Announced(m)' /\ Holds(m)' /\ Tracked(m)'
  <2>1. Announced(m) /\ Holds(m) /\ Tracked(m)
    BY DEF RotationInv, NamesInv
  <2>2. Unmoved(Pending, Pending', m)
    BY <1>1, <1>3, <1>4, <1>7, ExtendedUnmoved
  <2>3. entry'[m] = entry[m] /\ entry[m] # files + 1
    BY <1>2, <1>7
  <2>4. Found(m)' = Found(m)
    BY <1>2, <2>3 DEF Found
  <2>5. Watched(m) /\ ~AwayIn(Pending, m) => Size(entry[m])' = Size(entry[m])
    BY <1>2, <2>1, <2>3, EntryType DEF Holds, Watched, Size
  <2>. QED
    BY <1>1, <1>2, <1>5, <2>1, <2>2, <2>3, <2>4, <2>5, NotAbout
<1>8. ASSUME NEW x \in Names, NEW m \in Names
      PROVE  Shares(x, m)'
  <2>1. Shares(x, m)
    BY DEF RotationInv, NamesInv
  <2>2. watchOf[files + 1] = NoWatch
    <3>1. files + 1 \notin readable
      BY <1>2 DEF TypeInv, TypeOK
    <3>. QED
      BY <1>2, <3>1 DEF RotationInv, FilesInv, Unwatched
  <2>. QED
    BY <1>2, <1>5, <2>1, <2>2 DEF Shares
<1>. QED
  BY <1>6, <1>7, <1>8 DEF NamesInv

LEMMA GrantNames ==
  ASSUME Calm, Rotating, TypeInv, TypeInv', Begun, NothingLost', RotationInv, Others,
         NEW n \in Names, Grant(n)
  PROVE  NamesInv'
<1>. DEFINE e == DirEvent("attrib", n)
<1>1. /\ UNCHANGED llad /\ ~Starting /\ ~Starting' /\ dirWatched
      /\ Len(Pending) \in Nat /\ Len(Pending') \in Nat
  BY WhileUp, LenPending
<1>2. /\ UNCHANGED <<entry, content, watchOf, inwd, file, pc, cur>>
      /\ entry[n] # NoFile /\ entry[n] \notin readable
      /\ readable' = readable \cup {entry[n]}
  BY <1>1 DEF Grant, contents, inotify, llad
<1>3. Extended(Pending, Pending', e)
  BY <1>1, NotifyDirPending DEF Grant
<1>4. /\ Here(e, n) /\ \A m : ~Away(e, m) /\ ~Arrive(e, m)
      /\ \A m : m # n => ~Here(e, m)
  BY DEF Away, Here, Arrive, DirEvent
<1>. HIDE DEF e
<1>5. /\ \A w : ModifiedIn(Pending, w) => ModifiedIn(Pending', w)
      /\ \A m, x : Moved(Pending, m, x) => Moved(Pending', m, x)
  BY <1>1, <1>3, ExtendedKeeps
<1>6. Announced(n)' /\ Holds(n)' /\ Tracked(n)'
  <2>1. /\ HereIn(Pending', n) /\ Returns(Pending', n)
        /\ Apart(Pending, n) => Apart(Pending', n)
        /\ AwayFirst(Pending, n) => AwayFirst(Pending', n)
        /\ AwayIn(Pending, n) <=> AwayIn(Pending', n)
    BY <1>1, <1>3, <1>4, ExtendedKeeps, ExtendedAdds
  <2>2. Announced(n) /\ Holds(n)
    BY DEF RotationInv, NamesInv
  <2>3. watchOf[entry[n]] = NoWatch
    BY <1>2, EntryType DEF RotationInv, FilesInv, Unwatched
  <2>. QED
    BY <1>1, <1>2, <2>1, <2>2, <2>3 DEF Announced, Holds, Tracked
<1>7. ASSUME NEW m \in Names, m # n
      PROVE  Announced(m)' /\ Holds(m)' /\ Tracked(m)'
  <2>1. /\ Announced(m) /\ Holds(m) /\ Tracked(m)
        /\ entry[m] # entry[n] \/ entry[m] = NoFile
    BY <1>7 DEF RotationInv, NamesInv, FilesInv, Separate
  <2>2. Unmoved(Pending, Pending', m)
    BY <1>1, <1>3, <1>4, <1>7, ExtendedUnmoved
  <2>3. Found(m)' = Found(m) /\ Size(entry[m])' = Size(entry[m])
    BY <1>2, <2>1 DEF Found, Size
  <2>. QED
    BY <1>1, <1>2, <1>5, <2>1, <2>2, <2>3, NotAbout
<1>8. ASSUME NEW x \in Names, NEW m \in Names
      PROVE  Shares(x, m)'
  BY <1>2, <1>5 DEF RotationInv, NamesInv, Shares
<1>. QED
  BY <1>6, <1>7, <1>8 DEF NamesInv

LEMMA RenameNames ==
  ASSUME Calm, Rotating, TypeInv, TypeInv', Begun, GoneInv, NothingLost', RotationInv,
         Others, NEW n \in Names, NEW m \in Names, Rename(n, m)
  PROVE  NamesInv'
<1>. DEFINE e == DirEvent("movedfrom", n)
            f == DirEvent("movedto", m)
<1>1. /\ UNCHANGED llad /\ ~Starting /\ ~Starting' /\ dirWatched
      /\ Len(Pending) \in Nat /\ Len(Pending') \in Nat
  BY WhileUp, LenPending
<1>2. /\ UNCHANGED <<content, readable, watchOf, inwd, file, pc, cur>>
      /\ entry[n] # NoFile /\ entry[m] = NoFile /\ n # m
      /\ entry' = [entry EXCEPT ![m] = entry[n], ![n] = NoFile]
      /\ entry \in [Names -> 0..files]
  BY <1>1 DEF Rename, contents, inotify, llad, TypeInv, TypeOK
<1>3. PICK p \in Seq(EventRecords) : /\ Extended(Pending, p, e)
                                     /\ Extended(p, Pending', f)
  BY <1>1, RenamePending
<1>4. /\ Away(e, n) /\ Here(f, m) /\ Arrive(f, m)
      /\ \A x : ~Here(e, x) /\ ~Arrive(e, x) /\ ~Away(f, x)
      /\ \A x : (x # n => ~Away(e, x)) /\ (x # m => ~Here(f, x) /\ ~Arrive(f, x))
  BY DEF Away, Here, Arrive, DirEvent
<1>. HIDE DEF e, f
<1>5. Len(p) \in Nat
  BY <1>3, LenProperties
<1>6. /\ \A w : ModifiedIn(Pending, w) => ModifiedIn(Pending', w)
      /\ \A x, y : Moved(Pending, x, y) => Moved(Pending', x, y)
  BY <1>1, <1>3, <1>5, ExtendedKeeps
<1>7. Announced(n)' /\ Holds(n)' /\ Tracked(n)'
  <2>1. /\ AwayIn(p, n) /\ Leaves(p, n)
        /\ Apart(Pending, n) => Apart(p, n)
        /\ AwayFirst(Pending, n) => AwayFirst(p, n)
    BY <1>1, <1>3, <1>4, <1>5, ExtendedKeeps, ExtendedAdds
  <2>2. /\ AwayIn(Pending', n) /\ Leaves(Pending', n)
        /\ Apart(Pending, n) => Apart(Pending', n)
        /\ AwayFirst(Pending, n) => AwayFirst(Pending', n)
    BY <1>1, <1>2, <1>3, <1>4, <1>5, <2>1, ExtendedKeeps
  <2>. QED
    BY <1>2, <2>2 DEF RotationInv, NamesInv, Announced, Holds, Tracked
<1>8. Announced(m)' /\ Holds(m)' /\ Tracked(m)'
  <2>1. Unmoved(Pending, p, m)
    BY <1>1, <1>2, <1>3, <1>4, <1>5, ExtendedUnmoved
  <2>2. /\ HereIn(Pending', m) /\ Returns(Pending', m)
        /\ Leaves(p, m) /\ Apart(p, m) => Apart(Pending', m)
        /\ AwayIn(p, m) /\ AwayFirst(p, m) => AwayFirst(Pending', m)
        /\ AwayIn(p, m) => AwayIn(Pending', m)
    BY <1>1, <1>3, <1>4, <1>5, ExtendedKeeps, ExtendedAdds
  <2>3. Announced(m) /\ (inwd[m] = NoWatch \/ AwayIn(Pending, m))
    BY <1>2 DEF RotationInv, NamesInv, GoneInv, LetGo
  <2>4. entry'[m] # NoFile
    BY <1>2
  <2>. QED
    BY <1>1, <1>2, <2>1, <2>2, <2>3, <2>4 DEF Announced, Holds, Tracked, Unmoved
<1>9. ASSUME NEW x \in Names, x # n, x # m
      PROVE  Announced(x)' /\ Holds(x)' /\ Tracked(x)'
  <2>1. Announced(x) /\ Holds(x) /\ Tracked(x)
    BY DEF RotationInv, NamesInv
  <2>2. Unmoved(Pending, p, x) /\ Unmoved(p, Pending', x)
    BY <1>1, <1>3, <1>4, <1>5, <1>9, ExtendedUnmoved
  <2>3. Unmoved(Pending, Pending', x)
    BY <2>2 DEF Unmoved
  <2>4. entry'[x] = entry[x] /\ Found(x)' = Found(x) /\ Size(entry[x])' = Size(entry[x])
    BY <1>2, <1>9 DEF Found, Size
  <2>. QED
    BY <1>1, <1>2, <1>6, <2>1, <2>3, <2>4, NotAbout
<1>10. ASSUME NEW x \in Names, NEW y \in Names
       PROVE  Shares(x, y)'
  <2>. SUFFICES ASSUME inwd'[x] # NoWatch, entry'[y] # NoFile,
                       inwd'[x] = watchOf'[entry'[y]], entry'[x] # entry'[y]
                PROVE  Moved(Pending', x, y)
    BY DEF Shares
  <2>1. y # n
    BY <1>2
  <2>2. CASE y = m /\ x = n
    <3>1. AwayIn(p, n)
      BY <1>1, <1>3, <1>4, <1>5, ExtendedAdds
    <3>. QED
      BY <1>1, <1>3, <1>4, <1>5, <2>2, <3>1, ExtendedAdds
  <2>3. CASE y = m /\ x # n
    <3>1. x # m /\ entry'[x] = entry[x] /\ entry'[m] = entry[n]
      BY <1>2, <2>3
    <3>2. Moved(Pending, x, n)
      BY <1>2, <2>3, <3>1 DEF RotationInv, NamesInv, Shares
    <3>3. AwayIn(Pending, x)
      BY <3>2 DEF Moved, AwayIn
    <3>4. AwayIn(p, x)
      BY <1>1, <1>3, <1>5, <3>3, ExtendedKeeps
    <3>. QED
      BY <1>1, <1>3, <1>4, <1>5, <2>3, <3>4, ExtendedAdds
  <2>4. CASE y # m
    <3>1. entry'[y] = entry[y] /\ entry[x] # entry[y]
      BY <1>2, <2>1, <2>4 DEF RotationInv, FilesInv, Separate
    <3>. QED
      BY <1>2, <1>6, <3>1 DEF RotationInv, NamesInv, Shares
  <2>. QED
    BY <2>2, <2>3, <2>4
<1>. QED
  BY <1>7, <1>8, <1>9, <1>10 DEF NamesInv

LEMMA OthersNames ==
  ASSUME Calm, Rotating, TypeInv, TypeInv', Begun, GoneInv, NothingLost', RotationInv,
         Others
  PROVE  NamesInv'
  BY RotatingChanges, WriteNames, RemoveNames, CreateNames, GrantNames, RenameNames

-----------------------------------------------------------------------------
(* The names, while llad starts: nothing is pending.                       *)

LEMMA NothingPending ==
  ASSUME Begun, Starting
  PROVE  Pending = <<>>
<1>1. queue = <<>> /\ chunk = <<>> /\ Doing = <<>>
  BY DEF Begun, Starting, Doing
<1>. QED
  BY <1>1 DEF Pending

LEMMA EmptyAnnounces ==
  ASSUME NEW p, p = <<>>, NEW n
  PROVE  /\ Returns(p, n) /\ Leaves(p, n) /\ Apart(p, n) /\ AwayFirst(p, n)
         /\ ~AwayIn(p, n) /\ ~HereIn(p, n) /\ \A m : ~Moved(p, m, n)
<1>1. \A k \in 1..Len(p) : FALSE
  OBVIOUS
<1>. QED
  BY <1>1 DEF Returns, Leaves, Apart, AwayFirst, AwayIn, HereIn, Moved

\* inotify_add_watch
LEMMA WatchDone ==
  ASSUME TypeInv, NEW n \in Names, Watch(n)
  PROVE  /\ inwd' = [inwd EXCEPT ![n] = inwd'[n]]
         /\ Found(n) = NoFile => inwd'[n] = NoWatch /\ watchOf' = watchOf
         /\ Found(n) # NoFile =>
              /\ inwd'[n] # NoWatch /\ inwd'[n] = watchOf'[entry[n]]
              /\ \A j \in Files : j # entry[n] => watchOf'[j] = watchOf[j]
              /\ \/ watchOf' = watchOf
                 \/ \A m \in Names : inwd[m] # inwd'[n]
<1>1. /\ inwd \in [Names -> 0..lastWd] /\ lastWd \in Nat
      /\ watchOf \in [Files -> {NoWatch} \cup (DirWd + 1)..lastWd]
  BY DEF TypeInv, TypeOK
<1>2. CASE Found(n) = NoFile
  BY <1>1, <1>2 DEF Watch, inotify
<1>3. CASE Found(n) # NoFile
  <2>. DEFINE i  == Found(n)
              wd == IF watchOf[i] # NoWatch THEN watchOf[i] ELSE lastWd + 1
  <2>1. i \in Files /\ i = entry[n]
    BY <1>3, FoundType
  <2>2. inwd' = [inwd EXCEPT ![n] = wd] /\ watchOf' = [watchOf EXCEPT ![i] = wd]
    BY <1>3 DEF Watch
  <2>3. wd # NoWatch
    BY <1>1 DEF NoWatch
  <2>4. watchOf[i] = NoWatch => \A m \in Names : inwd[m] # wd
    BY <1>1
  <2>5. watchOf[i] # NoWatch => watchOf' = watchOf
    BY <1>1, <2>1, <2>2
  <2>. HIDE DEF i, wd
  <2>6. inwd'[n] = wd /\ watchOf'[i] = wd
    BY <1>1, <2>1, <2>2
  <2>. QED
    BY <1>1, <1>3, <2>1, <2>2, <2>3, <2>4, <2>5, <2>6
<1>. QED
  BY <1>2, <1>3

\* Two files have two descriptors.
LEMMA SharesWatched ==
  ASSUME TypeInv, NEW m \in Names, NEW n \in Names, entry[m] # NoFile,
         inwd[m] = watchOf[entry[m]]
  PROVE  Shares(m, n)
  BY EntryType DEF Shares, TypeInv, TypeOK

LEMMA StartNames ==
  ASSUME Calm, TypeInv, TypeInv', Begun, RotationInv,
         OpenLog \/ AllOpened \/ RegisterDir \/ RegisterFile \/ AllWatched
  PROVE  NamesInv'
<1>1. Starting
  BY DEF OpenLog, AllOpened, RegisterDir, RegisterFile, AllWatched, Goes, Starting
<1>2. Pending = <<>> /\ Pending' = <<>>
  BY <1>1, NothingPending, SamePending
<1>3. UNCHANGED <<entry, content, readable>>
  BY MainKeepsFiles DEF MainThread
<1>4. ASSUME NEW n \in Names
      PROVE  /\ inwd[n] # NoWatch => entry[n] # NoFile /\ inwd[n] = watchOf[entry[n]]
             /\ Found(n) # NoFile => Prepared(n)
             /\ Found(n) # NoFile => Found(n) = entry[n]
             /\ Found(n)' = Found(n) /\ (AtEnd(n) /\ UNCHANGED file => AtEnd(n)')
  <2>1. Holds(n) /\ Tracked(n) /\ ~AwayIn(Pending, n)
    BY <1>2, EmptyAnnounces DEF RotationInv, NamesInv
  <2>. QED
    BY <1>1, <1>3, <2>1 DEF Holds, Tracked, Found, AtEnd, Size
<1>5. CASE OpenLog
  <2>1. /\ todo # <<>> /\ todo' = Tail(todo) /\ Head(todo) \in Names /\ todo \in Seq(Names)
        /\ UNCHANGED <<pc, inwd, watchOf>> /\ pc = "open"
        /\ file \in [Names -> [on : 0..files, pos : Nat, eof : BOOLEAN]]
    BY <1>5, HeadTailProperties DEF OpenLog, dirVars, TypeInv, TypeOK
  <2>2. ASSUME NEW n \in Names, Found(n) # NoFile
        PROVE  Prepared(n)'
    <3>1. CASE n = Head(todo)
      <4>1. file'[n] = Stream(Found(n), Size(Found(n)))
        BY <1>5, <2>1, <2>2, <3>1 DEF OpenLog
      <4>2. AtEnd(n)'
        BY <1>3, <1>4, <2>2, <4>1 DEF AtEnd, Stream, Size
      <4>. QED
        BY <2>1, <4>2 DEF Prepared
    <3>2. CASE n # Head(todo)
      <4>1. file'[n] = file[n]
        BY <1>5, <2>1, <3>2 DEF OpenLog
      <4>2. Waiting(n) => Waiting(n)'
        <5>1. /\ Len(todo) \in Nat /\ Len(Tail(todo)) = Len(todo) - 1
              /\ \A k \in 1..Len(Tail(todo)) : Tail(todo)[k] = todo[k + 1]
              /\ Head(todo) = todo[1]
          BY <2>1, HeadTailProperties, LenProperties
        <5>2. \A k \in 1..Len(todo) : k # 1 => /\ k - 1 \in 1..Len(Tail(todo))
                                               /\ (k - 1) + 1 = k
          BY <5>1
        <5>. QED
          BY <2>1, <3>2, <5>1, <5>2 DEF Waiting
      <4>. QED
        BY <1>3, <1>4, <2>1, <2>2, <4>1, <4>2 DEF Prepared, AtEnd, Size
    <3>. QED
      BY <3>1, <3>2
  <2>. QED
    BY <1>1, <1>2, <1>3, <1>4, <2>1, <2>2, EmptyAnnounces, SharesWatched
       DEF NamesInv, Announced, Holds, Shares, Tracked, Starting
<1>6. CASE AllOpened
  <2>1. /\ todo = <<>> /\ todo' = LogList /\ UNCHANGED <<inwd, watchOf, file>>
        /\ pc = "open" /\ pc' = "watchdir"
    BY <1>6 DEF AllOpened, Goes, dirVars
  <2>2. ASSUME NEW n \in Names, Found(n) # NoFile
        PROVE  Prepared(n)'
    <3>1. ~Waiting(n)
      BY <2>1 DEF Waiting
    <3>2. Waiting(n)'
      BY <2>1, WatcherAssumption, LenProperties DEF Waiting
    <3>. QED
      BY <1>4, <2>1, <2>2, <3>1, <3>2 DEF Prepared
  <2>. QED
    BY <1>1, <1>2, <1>3, <1>4, <2>1, <2>2, EmptyAnnounces, SharesWatched
       DEF NamesInv, Announced, Holds, Shares, Tracked, Starting
<1>7. CASE RegisterDir
  <2>1. /\ UNCHANGED <<todo, inwd, watchOf, file>>
        /\ pc = "watchdir" /\ pc' = "watchfile"
    BY <1>7 DEF RegisterDir, Goes
  <2>2. ASSUME NEW n \in Names, Found(n) # NoFile
        PROVE  Prepared(n)'
    BY <1>3, <1>4, <2>1, <2>2 DEF Prepared, Waiting, Watched
  <2>. QED
    BY <1>1, <1>2, <1>3, <1>4, <2>1, <2>2, EmptyAnnounces, SharesWatched
       DEF NamesInv, Announced, Holds, Shares, Tracked, Starting
<1>8. CASE RegisterFile
  <2>. DEFINE h == Head(todo)
  <2>1. /\ todo # <<>> /\ todo' = Tail(todo) /\ h \in Names /\ todo \in Seq(Names)
        /\ UNCHANGED file /\ Watch(h) /\ pc = "watchfile" /\ pc' = "watchdir"
        /\ inwd \in [Names -> 0..lastWd]
    BY <1>8, HeadTailProperties DEF RegisterFile, Goes, TypeInv, TypeOK, Shape
  <2>2. /\ inwd' = [inwd EXCEPT ![h] = inwd'[h]]
        /\ Found(h) = NoFile => inwd'[h] = NoWatch /\ watchOf' = watchOf
        /\ Found(h) # NoFile =>
              /\ inwd'[h] # NoWatch /\ inwd'[h] = watchOf'[entry[h]]
              /\ \A j \in Files : j # entry[h] => watchOf'[j] = watchOf[j]
    BY <2>1, WatchDone
  <2>. HIDE DEF h
  <2>3. ASSUME NEW n \in Names, n # h
        PROVE  /\ inwd'[n] = inwd[n]
               /\ entry[n] # NoFile => watchOf'[entry[n]] = watchOf[entry[n]]
    <3>1. inwd'[n] = inwd[n]
      BY <2>1, <2>2, <2>3
    <3>2. entry[n] # NoFile => entry[n] # entry[h]
      BY <2>1, <2>3 DEF RotationInv, FilesInv, Separate
    <3>. QED
      BY <2>2, <3>1, <3>2, EntryType
  <2>4. ASSUME NEW n \in Names, inwd'[n] # NoWatch
        PROVE  entry'[n] # NoFile /\ inwd'[n] = watchOf'[entry'[n]]
    BY <1>3, <1>4, <2>2, <2>3, <2>4 DEF Found
  <2>5. ASSUME NEW n \in Names, Found(n) # NoFile
        PROVE  Prepared(n)'
    <3>1. AtEnd(n)' /\ (Waiting(n) \/ Watched(n))
      BY <1>4, <2>1, <2>5 DEF Prepared
    <3>2. CASE n = h
      BY <1>3, <2>1, <2>2, <2>5, <3>1, <3>2 DEF Prepared, Watched
    <3>3. CASE n # h
      <4>1. Waiting(n) => Waiting(n)'
        <5>1. /\ Len(todo) \in Nat /\ Len(Tail(todo)) = Len(todo) - 1
              /\ \A k \in 1..Len(Tail(todo)) : Tail(todo)[k] = todo[k + 1]
              /\ h = todo[1]
          BY <2>1, HeadTailProperties, LenProperties DEF h
        <5>2. \A k \in 1..Len(todo) : k # 1 => /\ k - 1 \in 1..Len(Tail(todo))
                                               /\ (k - 1) + 1 = k
          BY <5>1
        <5>. QED
          BY <2>1, <3>3, <5>1, <5>2 DEF Waiting
      <4>2. Watched(n) => Watched(n)'
        BY <1>3, <1>4, <2>3, <3>3 DEF Watched
      <4>. QED
        BY <2>1, <3>1, <4>1, <4>2 DEF Prepared
    <3>. QED
      BY <3>2, <3>3
  <2>6. ASSUME NEW m \in Names, NEW n \in Names
        PROVE  Shares(m, n)'
    <3>1. \A i, j \in Files : watchOf'[i] = watchOf'[j] /\ i # j => watchOf'[i] = NoWatch
      BY DEF TypeInv, TypeOK
    <3>. QED
      BY <1>3, <2>4, <3>1, EntryType DEF Shares
  <2>7. ASSUME NEW n \in Names
        PROVE  Announced(n)' /\ Holds(n)' /\ Tracked(n)'
    <3>1. Starting'
      BY <2>1 DEF Starting
    <3>. QED
      BY <1>2, <1>4, <2>4, <2>5, <3>1, EmptyAnnounces DEF Announced, Holds, Tracked
  <2>. QED
    BY <2>6, <2>7 DEF NamesInv
<1>9. CASE AllWatched
  <2>1. /\ todo = <<>> /\ UNCHANGED <<inwd, watchOf, file>>
        /\ pc = "watchdir" /\ pc' = "loop"
    BY <1>9 DEF AllWatched, Goes, dirVars
  <2>2. ASSUME NEW n \in Names, Found(n) # NoFile
        PROVE  Watched(n)' /\ Reading(n)'
    <3>1. ~Waiting(n)
      BY <2>1 DEF Waiting
    <3>2. AtEnd(n)' /\ Watched(n)'
      BY <1>3, <1>4, <2>1, <2>2, <3>1 DEF Prepared, Watched
    <3>. QED
      BY <3>2 DEF AtEnd, Reading
  <2>. QED
    BY <1>1, <1>2, <1>3, <1>4, <2>1, <2>2, EmptyAnnounces, SharesWatched
       DEF NamesInv, Announced, Holds, Shares, Tracked, Starting
<1>. QED
  BY <1>5, <1>6, <1>7, <1>8, <1>9

-----------------------------------------------------------------------------
(* The names, while llad handles events.                                   *)

\* Steps that look at the files only: the pending events stay as they are.
LEMMA ReadNames ==
  ASSUME ~StickyEOF, TypeInv, RotationInv,
         \/ ReadEvents \/ logfile_close \/ CloseToReopen \/ OpenToScan \/ ReopenTruncated
         \/ GetLines
  PROVE  NamesInv'
<1>1. Pending' = Pending /\ ~Starting /\ ~Starting'
  BY SamePending DEF ReadEvents, logfile_close, CloseToReopen, OpenToScan, ReopenTruncated,
     GetLines, Goes, Starting
<1>2. UNCHANGED <<entry, content, readable, watchOf, inwd, cur>>
  BY DEF ReadEvents, logfile_close, CloseToReopen, OpenToScan, ReopenTruncated, GetLines,
     dirVars, inotify, contents
<1>3. /\ file \in [Names -> [on : 0..files, pos : Nat, eof : BOOLEAN]]
      /\ pc \in Handling => cur \in Names
  BY DEF TypeInv, TypeOK, Shape
<1>4. ASSUME NEW n \in Names, Watched(n), Reading(n), Found(n) # NoFile
      PROVE  Reading(n)'
  <2>1. CASE ReadEvents
    BY <1>1, <1>2, <1>4, <2>1 DEF ReadEvents, Reading, Size
  <2>2. CASE logfile_close
    <3>1. n # cur /\ pc = "close"
      BY <1>4, <2>2 DEF logfile_close, Goes, RotationInv, FilesInv, Phases, Watched
    <3>2. file'[n] = file[n]
      BY <1>3, <2>2, <3>1 DEF logfile_close
    <3>. QED
      BY <1>1, <1>2, <1>4, <3>1, <3>2 DEF Reading, Size
  <2>3. CASE CloseToReopen
    <3>1. pc' = "openscan" /\ (n # cur => file'[n] = file[n])
      BY <1>3, <2>3 DEF CloseToReopen, Goes
    <3>2. pc = "reopen"
      BY <2>3 DEF CloseToReopen, Goes
    <3>. QED
      BY <1>1, <1>2, <1>4, <3>1, <3>2 DEF Reading, Size
  <2>4. CASE OpenToScan
    <3>1. pc = "openscan" /\ cur \in Names
      BY <1>3, <2>4 DEF OpenToScan, Handling
    <3>2. CASE n = cur
      <4>1. Found(cur) = entry[cur] /\ Size(entry[cur]) \in Nat
        BY <1>4, <3>1, <3>2, FoundType
      <4>2. \/ pc' = "gets" /\ file'[cur] = Stream(entry[cur], 0)
            \/ file'[cur] = Stream(entry[cur], Size(entry[cur]))
        BY <1>3, <1>4, <2>4, <3>1, <3>2, <4>1 DEF OpenToScan
      <4>. QED
        BY <1>2, <3>2, <4>1, <4>2 DEF Reading, Stream, Size
    <3>3. CASE n # cur
      <4>1. file'[n] = file[n]
        BY <1>3, <2>4, <3>3 DEF OpenToScan
      <4>. QED
        BY <1>1, <1>2, <1>4, <3>1, <3>3, <4>1 DEF Reading, Size
    <3>. QED
      BY <3>2, <3>3
  <2>5. CASE ReopenTruncated
    <3>1. pc = "truncated" /\ cur \in Names
      BY <1>3, <2>5 DEF ReopenTruncated, Goes, Handling
    <3>2. CASE n = cur
      <4>1. Found(cur) = entry[cur]
        BY <1>4, <3>2 DEF Found
      <4>2. file'[cur] = Stream(entry[cur], Size(entry[cur]))
        BY <1>3, <1>4, <2>5, <3>1, <3>2, <4>1 DEF ReopenTruncated
      <4>. QED
        BY <1>2, <3>2, <4>2 DEF Reading, Stream, Size
    <3>3. CASE n # cur
      <4>1. file'[n] = file[n]
        BY <1>3, <2>5, <3>3 DEF ReopenTruncated
      <4>. QED
        BY <1>1, <1>2, <1>4, <3>1, <3>3, <4>1 DEF Reading, Size
    <3>. QED
      BY <3>2, <3>3
  <2>6. CASE GetLines
    <3>. DEFINE s     == file[cur]
                lines == IF s.eof /\ StickyEOF THEN <<>>
                         ELSE SubSeq(content[s.on], s.pos + 1, Size(s.on))
    <3>1. /\ cur \in Names /\ s.pos \in Nat /\ Size(s.on) \in Nat
          /\ lines # <<>> => s.pos + Len(lines) = Size(s.on)
          /\ lines = <<>> => Len(lines) = 0 /\ Size(s.on) <= s.pos
          /\ file' = [file EXCEPT ![cur].pos = @ + Len(lines), ![cur].eof = (lines = <<>>)]
          /\ pc = "gets"
      BY <2>6, LinesRead
    <3>. HIDE DEF lines
    <3>2. /\ file'[cur].on = s.on /\ file'[cur].pos = s.pos + Len(lines)
          /\ n # cur => file'[n] = file[n]
      BY <1>3, <3>1
    <3>3. CASE n = cur
      <4>1. s.on = entry[n] /\ file'[n].on = entry[n]
        BY <1>4, <3>1, <3>2, <3>3 DEF Reading
      <4>2. CASE lines = <<>> /\ ~ModifiedIn(Pending, inwd[n])
        <5>1. s.pos = Size(s.on) \/ s.pos <= Size(s.on)
          BY <1>4, <3>1, <3>3, <4>1, <4>2 DEF Reading
        <5>2. file'[n].pos = Size(entry[n])
          BY <3>1, <3>2, <3>3, <4>1, <4>2, <5>1
        <5>. QED
          BY <1>2, <4>1, <5>2 DEF Reading, Size
      <4>3. CASE lines # <<>>
        BY <1>2, <3>1, <3>2, <3>3, <4>1, <4>3 DEF Reading, Size
      <4>4. CASE ModifiedIn(Pending, inwd[n])
        BY <1>1, <1>2, <4>1, <4>4 DEF Reading
      <4>. QED
        BY <4>2, <4>3, <4>4
    <3>4. CASE n # cur
      BY <1>1, <1>2, <1>4, <3>1, <3>2, <3>4 DEF Reading, Size
    <3>. QED
      BY <3>3, <3>4
  <2>. QED
    BY <2>1, <2>2, <2>3, <2>4, <2>5, <2>6
<1>5. ASSUME NEW n \in Names
      PROVE  Announced(n)' /\ Holds(n)' /\ Tracked(n)'
  <2>1. Announced(n) /\ Holds(n) /\ Tracked(n)
    BY DEF RotationInv, NamesInv
  <2>2. Announced(n)' /\ Holds(n)'
    BY <1>1, <1>2, <2>1 DEF Announced, Holds
  <2>3. Tracked(n)'
    <3>1. Watched(n) => Watched(n)'
      BY <1>2 DEF Watched
    <3>2. Found(n)' = Found(n)
      BY <1>2 DEF Found
    <3>. QED
      BY <1>1, <1>2, <1>4, <2>1, <3>1, <3>2 DEF Tracked
  <2>. QED
    BY <2>2, <2>3
<1>6. ASSUME NEW m \in Names, NEW n \in Names
      PROVE  Shares(m, n)'
  BY <1>1, <1>2 DEF RotationInv, NamesInv, Shares
<1>. QED
  BY <1>5, <1>6 DEF NamesInv

\* The event that is done with says that a file was written to.
LEMMA FirstModified ==
  ASSUME NEW e, NEW w, e.mask # "modify"
  PROVE  e # FileEvent(w)
  BY DEF FileEvent

LEMMA RemoveWatchNames ==
  ASSUME TypeInv, TypeInv', RotationInv, RemoveWatch
  PROVE  NamesInv'
<1>. DEFINE e == DirEvent("delete", cur)
<1>1. /\ pc = "unwatch" /\ pc' = "close" /\ cur \in Names /\ ~Starting /\ ~Starting'
      /\ UNCHANGED <<entry, content, readable, cur, file>>
      /\ inwd' = [inwd EXCEPT ![cur] = NoWatch] /\ inwd \in [Names -> 0..lastWd]
      /\ \A i \in Files : watchOf'[i] = IF watchOf[i] = inwd[cur] THEN NoWatch ELSE watchOf[i]
  BY DEF RemoveWatch, Goes, contents, TypeInv, TypeOK, Shape, Handling, Starting
<1>2. /\ Len(Pending) \in Nat /\ Len(Pending') \in Nat
      /\ Shortened(Pending, Pending') /\ Pending[1] = e
  BY <1>1, LenPending, DonePending
<1>3. /\ Away(e, cur) /\ \A n : ~Here(e, n)
      /\ \A n : n # cur => ~Away(e, n)
      /\ \A w : e # FileEvent(w)
  BY DEF Away, Here, DirEvent, FileEvent
<1>. HIDE DEF e
<1>4. /\ \A m, n : Moved(Pending, m, n) /\ m # cur => Moved(Pending', m, n)
      /\ \A w : ModifiedIn(Pending, w) => ModifiedIn(Pending', w)
  BY <1>2, <1>3, ShortenedKeepsMore
<1>5. ASSUME NEW n \in Names, n = cur
      PROVE  Announced(n)' /\ Holds(n)' /\ Tracked(n)'
  <2>1. /\ Returns(Pending, cur) => Returns(Pending', cur) /\ HereIn(Pending', cur)
        /\ Leaves(Pending, cur) => Leaves(Pending', cur)
        /\ Apart(Pending, cur) => Apart(Pending', cur)
    BY <1>2, <1>3, ShortenedKeeps
  <2>2. Announced(cur) /\ inwd'[cur] = NoWatch
    BY <1>1 DEF RotationInv, NamesInv
  <2>3. Found(cur)' # NoFile => entry[cur] # NoFile
    BY <1>1 DEF Found
  <2>. QED
    BY <1>1, <1>5, <2>1, <2>2, <2>3 DEF Announced, Holds, Tracked
<1>6. ASSUME NEW n \in Names, n # cur
      PROVE  Announced(n)' /\ Holds(n)' /\ Tracked(n)'
  <2>1. Announced(n) /\ Holds(n) /\ Tracked(n)
    BY DEF RotationInv, NamesInv
  <2>2. Unmoved(Pending, Pending', n)
    BY <1>2, <1>3, <1>6, ShortenedUnmoved
  <2>3. /\ Found(n)' = Found(n) /\ inwd'[n] = inwd[n]
        /\ Size(entry[n])' = Size(entry[n])
    BY <1>1, <1>6 DEF Found, Size
  <2>4. ASSUME entry[n] # NoFile, ~AwayIn(Pending, n), inwd[n] = watchOf[entry[n]],
               inwd[n] # NoWatch
        PROVE  watchOf'[entry[n]] = watchOf[entry[n]]
    <3>1. inwd[cur] # inwd[n]
      BY <1>1, <1>6, <2>4, NoSharing
    <3>. QED
      BY <1>1, <2>4, <3>1, EntryType
  <2>. QED
    BY <1>1, <1>4, <2>1, <2>2, <2>3, <2>4, NotAbout
<1>7. ASSUME NEW x \in Names, NEW m \in Names
      PROVE  Shares(x, m)'
  <2>. SUFFICES ASSUME inwd'[x] # NoWatch, entry'[m] # NoFile,
                       inwd'[x] = watchOf'[entry'[m]], entry'[x] # entry'[m]
                PROVE  Moved(Pending', x, m)
    BY DEF Shares
  <2>1. x # cur /\ inwd'[x] = inwd[x]
    BY <1>1
  <2>2. watchOf'[entry[m]] = watchOf[entry[m]]
    BY <1>1, EntryType
  <2>3. Moved(Pending, x, m)
    BY <1>1, <2>1, <2>2 DEF RotationInv, NamesInv, Shares
  <2>. QED
    BY <1>4, <2>1, <2>3
<1>. QED
  BY <1>5, <1>6, <1>7 DEF NamesInv

LEMMA AddWatchNames ==
  ASSUME TypeInv, TypeInv', RotationInv, AddWatch
  PROVE  NamesInv'
<1>. DEFINE e == DirEvent("attrib", cur)
<1>1. /\ pc = "watch" /\ cur \in Names /\ ~Starting /\ ~Starting'
      /\ UNCHANGED <<entry, content, readable, cur, file>>
      /\ Found(cur) # NoFile => pc' = "reopen" /\ Found(cur) = entry[cur]
      /\ inwd \in [Names -> 0..lastWd] /\ Watch(cur)
  BY FoundType DEF AddWatch, contents, TypeInv, TypeOK, Shape, Handling, Starting
<1>2. /\ Len(Pending) \in Nat /\ Len(Pending') \in Nat
      /\ Shortened(Pending, Pending') /\ Pending[1] = e
  BY <1>1, LenPending, DonePending
<1>3. /\ Here(e, cur) /\ \A n : ~Away(e, n)
      /\ \A n : n # cur => ~Here(e, n)
      /\ \A w : e # FileEvent(w)
  BY DEF Away, Here, DirEvent, FileEvent
<1>. HIDE DEF e
<1>4. /\ \A m, n : Moved(Pending, m, n) => Moved(Pending', m, n)
      /\ \A w : ModifiedIn(Pending, w) => ModifiedIn(Pending', w)
  BY <1>2, <1>3, ShortenedKeepsMore
<1>5. /\ inwd' = [inwd EXCEPT ![cur] = inwd'[cur]]
      /\ Found(cur) = NoFile => inwd'[cur] = NoWatch /\ watchOf' = watchOf
      /\ Found(cur) # NoFile =>
           /\ inwd'[cur] # NoWatch /\ inwd'[cur] = watchOf'[entry[cur]]
           /\ \A j \in Files : j # entry[cur] => watchOf'[j] = watchOf[j]
           /\ watchOf' = watchOf \/ \A m \in Names : inwd[m] # inwd'[cur]
  BY <1>1, WatchDone
<1>6. \A n \in Names : n # cur => inwd'[n] = inwd[n]
  BY <1>1, <1>5
<1>7. ASSUME NEW n \in Names, n = cur
      PROVE  Announced(n)' /\ Holds(n)' /\ Tracked(n)'
  <2>1. /\ Returns(Pending, cur) => Returns(Pending', cur)
        /\ Leaves(Pending, cur) => Leaves(Pending', cur)
        /\ Apart(Pending, cur) => Apart(Pending', cur) /\ AwayFirst(Pending', cur)
    BY <1>2, <1>3, ShortenedKeeps
  <2>2. Announced(cur)
    BY <1>1 DEF RotationInv, NamesInv
  <2>3. Found(cur)' = Found(cur)
    BY <1>1 DEF Found
  <2>. QED
    BY <1>1, <1>5, <1>7, <2>1, <2>2, <2>3 DEF Announced, Holds, Tracked, Watched, Reading
<1>8. ASSUME NEW n \in Names, n # cur, entry[n] # NoFile
      PROVE  watchOf'[entry[n]] = watchOf[entry[n]]
  <2>1. Found(cur) # NoFile => entry[n] # entry[cur]
    BY <1>1, <1>8 DEF RotationInv, FilesInv, Separate
  <2>. QED
    BY <1>5, <1>8, <2>1, EntryType
<1>9. ASSUME NEW n \in Names, n # cur
      PROVE  Announced(n)' /\ Holds(n)' /\ Tracked(n)'
  <2>1. Announced(n) /\ Holds(n) /\ Tracked(n)
    BY DEF RotationInv, NamesInv
  <2>2. Unmoved(Pending, Pending', n)
    BY <1>2, <1>3, <1>9, ShortenedUnmoved
  <2>3. Found(n)' = Found(n) /\ Size(entry[n])' = Size(entry[n])
    BY <1>1 DEF Found, Size
  <2>. QED
    BY <1>1, <1>4, <1>6, <1>8, <1>9, <2>1, <2>2, <2>3, NotAbout
<1>10. ASSUME NEW x \in Names, NEW m \in Names
       PROVE  Shares(x, m)'
  <2>. SUFFICES ASSUME inwd'[x] # NoWatch, entry'[m] # NoFile,
                       inwd'[x] = watchOf'[entry'[m]], entry'[x] # entry'[m]
                PROVE  Moved(Pending', x, m)
    BY DEF Shares
  <2>1. Shares(x, m) /\ entry[m] \in Files
    BY <1>1, EntryType DEF RotationInv, NamesInv
  <2>2. CASE x = cur
    <3>1. /\ Found(cur) # NoFile /\ inwd'[cur] = watchOf'[entry[cur]]
          /\ entry[cur] \in Files
      BY <1>1, <1>5, <2>2, FoundType
    <3>2. \A i, j \in Files : watchOf'[i] = watchOf'[j] /\ i # j => watchOf'[i] = NoWatch
      BY DEF TypeInv, TypeOK
    <3>. QED
      BY <1>1, <2>1, <2>2, <3>1, <3>2
  <2>3. CASE x # cur /\ (m # cur \/ watchOf' = watchOf)
    <3>1. watchOf'[entry[m]] = watchOf[entry[m]]
      BY <1>1, <1>8, <2>3
    <3>. QED
      BY <1>1, <1>4, <1>6, <2>1, <2>3, <3>1 DEF Shares
  <2>4. CASE x # cur /\ m = cur /\ watchOf' # watchOf
    BY <1>1, <1>5, <1>6, <2>4
  <2>. QED
    BY <2>2, <2>3, <2>4
<1>. QED
  BY <1>7, <1>9, <1>10 DEF NamesInv

LEMMA CheckFileNames ==
  ASSUME TypeInv, TypeInv', RotationInv, CheckFile
  PROVE  NamesInv'
<1>. DEFINE e == FileEvent(inwd[cur])
<1>1. /\ pc = "scan" /\ cur \in Names /\ ~Starting /\ ~Starting'
      /\ UNCHANGED <<entry, content, readable, cur, file, inwd, watchOf>>
      /\ pc' \in {"openscan", "truncated", "gets"} /\ inwd[cur] # NoWatch
      /\ pc' = "gets" => file[cur].pos <= Size(file[cur].on)
  <2>1. pc' = "gets" => ~(Size(file[cur].on) < file[cur].pos) /\ file[cur] # Closed
    BY DEF CheckFile
  <2>2. ASSUME NEW n \in Names, ~(Size(file[n].on) < file[n].pos)
        PROVE  file[n].on # NoFile => file[n].pos <= Size(file[n].on)
    <3>1. file[n].on # NoFile => file[n].on \in Files /\ file[n].pos \in Nat
      <4>1. file[n].on \in 0..files /\ file[n].pos \in Nat
        BY DEF TypeInv, TypeOK
      <4>2. files \in 0..MaxFiles /\ MaxFiles \in Nat
        BY LogDirectoryAssumption DEF TypeInv, TypeOK
      <4>. QED
        BY <4>1, <4>2 DEF Files, NoFile
    <3>2. \A i \in Files : Size(i) \in Nat
      BY FoundType
    <3>. QED
      BY <2>2, <3>1, <3>2
  <2>. QED
  BY <2>1, <2>2 DEF CheckFile, dirVars, contents, TypeInv, TypeOK, Shape, Handling, Starting,
     RotationInv, FilesInv, Phases
<1>2. /\ Len(Pending) \in Nat /\ Len(Pending') \in Nat
      /\ Shortened(Pending, Pending') /\ Pending[1] = e
  BY <1>1, LenPending, DonePending
<1>3. /\ \A n : ~Away(e, n) /\ ~Here(e, n)
      /\ \A w : w # inwd[cur] => e # FileEvent(w)
  BY DEF Away, Here, FileEvent
<1>. HIDE DEF e
<1>4. /\ \A m, n : Moved(Pending, m, n) => Moved(Pending', m, n)
      /\ \A w : ModifiedIn(Pending, w) /\ w # inwd[cur] => ModifiedIn(Pending', w)
  BY <1>2, <1>3, ShortenedKeepsMore
<1>5. ASSUME NEW n \in Names
      PROVE  Announced(n)' /\ Holds(n)' /\ Tracked(n)'
  <2>1. Announced(n) /\ Holds(n) /\ Tracked(n)
    BY DEF RotationInv, NamesInv
  <2>2. Unmoved(Pending, Pending', n)
    BY <1>2, <1>3, ShortenedUnmoved
  <2>3. Found(n)' = Found(n) /\ Size(entry[n])' = Size(entry[n])
    BY <1>1 DEF Found, Size
  <2>4. CASE n = cur
    <3>1. Announced(n)' /\ Holds(n)'
      BY <1>1, <2>1, <2>2 DEF Announced, Holds, Unmoved
    <3>2. Watched(n) /\ Reading(n) => Watched(n)' /\ Reading(n)'
      BY <1>1, <2>3, <2>4 DEF Watched, Reading
    <3>. QED
      BY <1>1, <2>1, <2>2, <2>3, <3>1, <3>2 DEF Tracked, Unmoved
  <2>5. CASE n # cur
    <3>1. Watched(n) /\ ~AwayIn(Pending, n) => inwd[n] # inwd[cur]
      BY <1>1, <2>5, NoSharing DEF Watched
    <3>. QED
      BY <1>1, <1>4, <2>1, <2>2, <2>3, <2>5, <3>1, NotAbout
  <2>. QED
    BY <2>4, <2>5
<1>6. ASSUME NEW m \in Names, NEW n \in Names
      PROVE  Shares(m, n)'
  BY <1>1, <1>4 DEF RotationInv, NamesInv, Shares
<1>. QED
  BY <1>5, <1>6 DEF NamesInv

\* findFile finds a log file for an event, or no log file has its descriptor;
\* an event that is dropped does not say that a log file is gone, nor that
\* one is there which llad does not watch.
LEMMA Dropped ==
  ASSUME HandleEvent, pc' = "loop", NEW n \in Names
  PROVE  LET e == Head(chunk) IN
           /\ ~Away(e, n)
           /\ Here(e, n) => inwd[n] # NoWatch
           /\ inwd[n] # NoWatch => e # FileEvent(inwd[n])
<1>1. \A m \in Names : ~(\/ Disappeared(Head(chunk), m) \/ Appeared(Head(chunk), m)
                         \/ Modified(Head(chunk), m))
  BY DEF HandleEvent
<1>2. ~Away(Head(chunk), n) /\ (Here(Head(chunk), n) => inwd[n] # NoWatch)
  BY <1>1 DEF Disappeared, Appeared, Away, Here
<1>3. Head(chunk) # FileEvent(inwd[n])
  <2>1. findFile(inwd[n]) \in Names
    BY FindFile
  <2>. QED
    BY <1>1, <2>1 DEF Modified, FileEvent
<1>. QED
  BY <1>2, <1>3

LEMMA HandleNames ==
  ASSUME TypeInv, TypeInv', RotationInv, HandleEvent
  PROVE  NamesInv'
<1>. DEFINE e == Head(chunk)
<1>1. /\ pc = "loop" /\ ~Starting /\ ~Starting'
      /\ UNCHANGED <<entry, content, readable, inwd, file, watchOf>>
      /\ pc' \in {"unwatch", "watch", "scan", "loop"}
  BY DEF HandleEvent, dirVars, Starting
<1>2. /\ Len(Pending) \in Nat /\ Len(Pending') \in Nat /\ Pending[1] = e
      /\ pc' = "unwatch" => Replaced(Pending, Pending', DirEvent("delete", cur'))
      /\ pc' = "watch"   => Replaced(Pending, Pending', DirEvent("attrib", cur'))
      /\ pc' = "scan"    => Pending' = Pending
      /\ pc' = "loop"    => Shortened(Pending, Pending')
  BY LenPending, HandlePending
<1>3. /\ pc' = "unwatch" => Disappeared(e, cur')
      /\ pc' = "watch"   => Appeared(e, cur')
  BY DEF HandleEvent
<1>. HIDE DEF e
<1>4. ASSUME pc' \in {"unwatch", "watch"}
      PROVE  /\ \A n : Unmoved(Pending, Pending', n)
             /\ \A m, n : Moved(Pending, m, n) => Moved(Pending', m, n)
             /\ \A w : ModifiedIn(Pending, w) => ModifiedIn(Pending', w)
  <2>1. PICK f : /\ Replaced(Pending, Pending', f)
                 /\ \A n : /\ Away(f, n) <=> Away(e, n)
                           /\ Here(f, n) <=> Here(e, n)
                           /\ ~Arrive(f, n)
    <3>1. CASE pc' = "unwatch"
      BY <1>2, <1>3, <3>1 DEF Disappeared, Away, Here, Arrive, DirEvent
    <3>2. CASE pc' = "watch"
      BY <1>2, <1>3, <3>2 DEF Appeared, Away, Here, Arrive, DirEvent
    <3>. QED
      BY <1>4, <3>1, <3>2
  <2>2. \A w : e # FileEvent(w)
    BY <1>3, <1>4 DEF Disappeared, Appeared, FileEvent
  <2>3. \A w : ModifiedIn(Pending, w) => ModifiedIn(Pending', w)
    <3>1. /\ Len(Pending) = Len(Pending')
          /\ \A k \in 1..Len(Pending) : k # 1 => Pending'[k] = Pending[k]
      <4>1. \A k \in 1..Len(Pending) : k = 1 \/ k \in 2..Len(Pending')
        BY <1>2, <2>1 DEF Replaced
      <4>. QED
        BY <2>1, <4>1 DEF Replaced
    <3>. QED
      BY <1>2, <2>2, <3>1 DEF ModifiedIn
  <2>. QED
    BY <1>2, <2>1, <2>3, ReplacedUnmoved, ReplacedKeeps
<1>5. ASSUME pc' = "loop"
      PROVE  /\ \A m, n \in Names : Moved(Pending, m, n) => Moved(Pending', m, n)
             /\ \A n \in Names : inwd[n] # NoWatch /\ ModifiedIn(Pending, inwd[n])
                                   => ModifiedIn(Pending', inwd[n])
  BY <1>2, <1>5, Dropped, ShortenedKeepsMore DEF e
<1>6. ASSUME NEW n \in Names
      PROVE  Announced(n)' /\ Holds(n)' /\ Tracked(n)'
  <2>1. Announced(n) /\ Holds(n) /\ Tracked(n)
    BY DEF RotationInv, NamesInv
  <2>2. Found(n)' = Found(n) /\ Size(entry[n])' = Size(entry[n])
    BY <1>1 DEF Found, Size
  <2>3. CASE pc' # "loop"
    <3>1. /\ Unmoved(Pending, Pending', n)
          /\ \A w : ModifiedIn(Pending, w) => ModifiedIn(Pending', w)
      BY <1>1, <1>2, <1>4, <2>3 DEF Unmoved
    <3>. QED
      BY <1>1, <2>1, <2>2, <3>1, NotAbout
  <2>4. CASE pc' = "loop" /\ ~Here(e, n)
    <3>1. ~Away(e, n)
      BY <2>4, Dropped DEF e
    <3>2. Unmoved(Pending, Pending', n)
      BY <1>2, <2>4, <3>1, ShortenedUnmoved
    <3>. QED
      BY <1>1, <1>5, <2>1, <2>2, <2>4, <3>2, NotAbout DEF Watched
  <2>5. CASE pc' = "loop" /\ Here(e, n)
    <3>1. ~Away(e, n) /\ inwd[n] # NoWatch
      BY <2>5, Dropped DEF e
    <3>2. /\ Returns(Pending, n) => Returns(Pending', n)
          /\ Leaves(Pending, n) => Leaves(Pending', n)
          /\ Apart(Pending, n) => Apart(Pending', n)
          /\ AwayFirst(Pending, n) => AwayFirst(Pending', n)
          /\ AwayIn(Pending, n) <=> AwayIn(Pending', n)
      BY <1>2, <2>5, <3>1, ShortenedKeeps, AwayShortened
    <3>3. Announced(n)' /\ Holds(n)'
      BY <1>1, <2>1, <3>2 DEF Announced, Holds
    <3>4. Watched(n) /\ Reading(n) => Watched(n)' /\ Reading(n)'
      BY <1>1, <1>5, <2>2, <2>5 DEF Watched, Reading
    <3>. QED
      BY <1>1, <2>1, <2>2, <3>1, <3>2, <3>3, <3>4 DEF Tracked
  <2>. QED
    BY <2>3, <2>4, <2>5
<1>7. ASSUME NEW m \in Names, NEW n \in Names
      PROVE  Shares(m, n)'
  <2>1. Moved(Pending, m, n) => Moved(Pending', m, n)
    BY <1>1, <1>2, <1>4, <1>5
  <2>. QED
    BY <1>1, <2>1 DEF RotationInv, NamesInv, Shares
<1>. QED
  BY <1>6, <1>7 DEF NamesInv

-----------------------------------------------------------------------------
(* The theorems.                                                           *)

LEMMA ScenarioStays ==
  ASSUME [Next]_vars
  PROVE  scenario' = scenario
  BY MainKeepsFiles DEF Next, Others, Environment, Asleep, vars, dirVars, Write, Truncate,
     Remove, Create, Replace, Grant, Revoke, Link, Rename, Change

LEMMA RotationStep ==
  ASSUME Calm, ~StickyEOF, Rotating, TypeInv, TypeInv', Begun, GoneInv, NothingLost',
         RotationInv, [Next]_vars
  PROVE  RotationInv'
<1>1. CASE MainThread \/ Others
  <2>1. FilesInv'
    BY <1>1, SeparateStep, UnwatchedStep, PhasesStep DEF RotationInv, FilesInv
  <2>2. NamesInv'
    BY <1>1, OthersNames, StartNames, ReadNames, HandleNames,
       RemoveWatchNames, AddWatchNames, CheckFileNames DEF MainThread
  <2>. QED
    BY <2>1, <2>2 DEF RotationInv
<1>2. CASE UNCHANGED vars
  <2>1. UNCHANGED <<entry, content, readable, watchOf, queue, pc, cur, todo, chunk, inwd,
                    file>>
    BY <1>2 DEF vars, dirVars, llad
  <2>2. Pending' = Pending
    BY <2>1 DEF Pending, Doing
  <2>. QED
    BY <2>1, <2>2 DEF RotationInv, FilesInv, NamesInv, Separate, Unwatched, Phases,
       Announced, Holds, Tracked, Shares, Starting, Prepared, Watched, Reading, AtEnd,
       Waiting, Found, Size
<1>. QED
  BY <1>1, <1>2 DEF Next, Asleep

LEMMA RotationInit ==
  ASSUME Init
  PROVE  RotationInv
<1>1. /\ pc = "open" /\ todo = LogList /\ Starting
      /\ inwd = [n \in Names |-> NoWatch] /\ file = [n \in Names |-> Closed]
      /\ watchOf = [i \in Files |-> NoWatch]
      /\ \A n, m \in Names : entry[n] = entry[m] /\ entry[n] # NoFile => n = m
  BY DEF Init, DirInit, Starting
<1>2. Begun
  BY GoneInit
<1>3. Pending = <<>>
  BY <1>1, <1>2, NothingPending
<1>4. FilesInv
  BY <1>1 DEF FilesInv, Separate, Unwatched, Phases
<1>5. ASSUME NEW n \in Names
      PROVE  Waiting(n)
  BY <1>1, WatcherAssumption, LenProperties DEF Waiting
<1>6. NamesInv
  BY <1>1, <1>3, <1>5, EmptyAnnounces
     DEF NamesInv, Announced, Holds, Shares, Tracked, Prepared
<1>. QED
  BY <1>4, <1>6 DEF RotationInv

\* When llad sleeps there is nothing that it has still to be told.
LEMMA RotationMeans ==
  ASSUME TypeInv, GoneInv, RotationInv
  PROVE  CaughtUp
<1>. SUFFICES ASSUME Idle, NEW n \in Names
              PROVE  Followed(n)
  BY DEF CaughtUp
<1>1. Pending = <<>> /\ ~Starting /\ pc = "loop"
  BY DEF Idle, Pending, Doing, Starting
<1>2. /\ ~AwayIn(Pending, n) /\ ~HereIn(Pending, n)
      /\ \A w : ~ModifiedIn(Pending, w)
  BY <1>1, EmptyAnnounces DEF ModifiedIn
<1>3. entry[n] = NoFile => inwd[n] = NoWatch /\ file[n] = Closed
  BY <1>1, <1>2 DEF GoneInv, LetGo
<1>4. ASSUME Found(n) # NoFile
      PROVE  /\ inwd[n] # NoWatch /\ inwd[n] = watchOf[Found(n)]
             /\ file[n].on = Found(n)
             /\ file[n].pos = Size(Found(n))
  <2>1. Found(n) = entry[n]
    BY <1>4 DEF Found
  <2>2. Watched(n) /\ Reading(n)
    BY <1>1, <1>2, <1>4 DEF RotationInv, NamesInv, Tracked
  <2>. QED
    BY <1>1, <1>2, <2>1, <2>2 DEF Watched, Reading
<1>. QED
  BY <1>3, <1>4 DEF Followed

\* However often log files are deleted, moved away, renamed to one another,
\* created again, made readable, truncated and written to, also while a handler
\* is at work on them: when llad sleeps, each log file that it can open is watched,
\* and open at its end, and there is nothing else that it watches or reads.
\* It rests on nothing having changed before everything was watched (Calm), on
\* inotify not having dropped an event, and on reading on after the end of a
\* file (not StickyEOF).
THEOREM RotationsCaughtUp ==
  ASSUME Calm, ~StickyEOF
  PROVE  Spec /\ []NothingLost => []RotatedCaughtUp
<1>. DEFINE Inv == TypeInv /\ Begun /\ GoneInv /\ (Rotating => RotationInv)
<1>1. Init => Inv
  BY TypeInit, GoneInit, RotationInit
<1>2. Inv /\ NothingLost' /\ [Next]_vars => Inv'
  <2>. SUFFICES ASSUME Inv, NothingLost', [Next]_vars
                PROVE  Inv'
    OBVIOUS
  <2>1. TypeInv' /\ Begun' /\ GoneInv'
    BY TypeStep, BegunStep, GoneStep
  <2>2. scenario' = scenario
    BY ScenarioStays
  <2>3. Rotating' => RotationInv'
    BY <2>1, <2>2, RotationStep DEF Rotating
  <2>. QED
    BY <2>1, <2>3
<1>3. Inv => RotatedCaughtUp
  BY RotationMeans DEF RotatedCaughtUp
<1>. QED
  BY <1>1, <1>2, <1>3, PTL DEF Spec

\* The same with nothing but the constants to rest on: rotations only, and room
\* in the queue of inotify for the events of all of them.
OnlyRotations ==
  \A s \in Scenarios :
    s.changes \subseteq
      {"write", "late", "remove", "create", "grant", "rename", "truncate"}

\* llad follows every log file whenever it sleeps, if log files are only
\* written to and rotated, and inotify has room for all the events.
THEOREM FollowedForever ==
  ASSUME Calm, ~StickyEOF, OnlyRotations, RoomForAll
  PROVE  Spec => []CaughtUp
<1>1. TypeInv /\ RotatedCaughtUp => CaughtUp
  BY DEF TypeInv, TypeOK, OnlyRotations, Rotating, RotatedCaughtUp
<1>. QED
  BY <1>1, TypeInvCorrect, NothingLostWithRoom, RotationsCaughtUp, PTL

-----------------------------------------------------------------------------
(* No line is skipped.  What is before the position of a stream has been   *)
(* handed on, or was there before the start; a new file is read from its   *)
(* first line as long as it is short enough when llad comes to open it.    *)

Short == \A i \in Files : Size(i) <= ScanComplete

\* Rotating, but not by truncation.
Appending == Rotating /\ "truncate" \notin scenario.changes

Within == \A n \in Names : file[n].on # NoFile => file[n].pos <= Size(file[n].on)

Kept == Within /\ pc # "truncated"

Passed(n, k) ==
  LET line == content[file[n].on][k] IN line = 0 \/ line \in MatchedOf(n)

Handed == \A n \in Names : file[n].on # NoFile =>
            \A k \in 1..file[n].pos : Passed(n, k)

\* Before the logs are opened there are old lines only.
OldLines == pc = "open" => \A i \in Files : \A k \in 1..Size(i) : content[i][k] = 0

LEMMA AppendingChanges ==
  ASSUME Appending, Others
  PROVE  \/ \E i \in Files : Write(i)
         \/ \E n \in Names : Remove(n) \/ Create(n) \/ Grant(n)
         \/ \E n, m \in Names : Rename(n, m)
  BY RotatingChanges DEF Appending, Truncate, Change

\* No file gets shorter, and but for the one that is written to none longer.
LEMMA SizesGrow ==
  ASSUME Appending, TypeInv, Others, NEW j \in 1..files
  PROVE  /\ Size(j) \in Nat /\ Size(j)' \in Nat /\ Size(j)' >= Size(j)
         /\ ~Write(j) => Size(j)' = Size(j)
<1>1. /\ files \in Nat /\ files <= MaxFiles /\ MaxFiles \in Nat /\ j \in Files
      /\ content \in [Files -> Seq(0..written)] /\ content[j] \in Seq(0..written)
      /\ Len(content[j]) \in Nat
  <2>1. files \in 0..MaxFiles /\ MaxFiles \in Nat
    BY LogDirectoryAssumption DEF TypeInv, TypeOK
  <2>2. j \in Files /\ content \in [Files -> Seq(0..written)]
    BY <2>1 DEF TypeInv, TypeOK, Files
  <2>. QED
    BY <2>1, <2>2, LenProperties
<1>2. CASE Write(j)
  <2>1. content'[j] = Append(content[j], written')
    BY <1>1, <1>2 DEF Write
  <2>2. Len(content'[j]) = Len(content[j]) + 1
    <3>. DEFINE T == (0..written) \cup {written'}
    <3>1. content[j] \in Seq(T) /\ written' \in T
      BY <1>1, SeqMonotonic
    <3>. HIDE DEF T
    <3>. QED
      BY <2>1, <3>1, AppendProperties
  <2>. QED
    BY <1>1, <1>2, <2>2 DEF Size
<1>3. CASE ~Write(j)
  <2>1. content'[j] = content[j]
    <3>1. CASE \E i \in Files : Write(i)
      BY <1>1, <1>3, <3>1 DEF Write
    <3>2. CASE \E n \in Names : Create(n)
      BY <1>1, <3>2 DEF Create, NewFile
    <3>3. CASE \/ \E n \in Names : Remove(n) \/ Grant(n)
               \/ \E n, m \in Names : Rename(n, m)
      BY <3>3 DEF Remove, Grant, Rename, contents
    <3>. QED
      BY <3>1, <3>2, <3>3, AppendingChanges
  <2>. QED
    BY <1>1, <1>3, <2>1 DEF Size
<1>. QED
  BY <1>2, <1>3

LEMMA WithinStep ==
  ASSUME Appending, TypeInv, Kept, MainThread \/ Others
  PROVE  Within'
<1>1. /\ file \in [Names -> [on : 0..files, pos : Nat, eof : BOOLEAN]]
      /\ \A n \in Names : file[n].pos \in Nat
  BY DEF TypeInv, TypeOK
<1>2. CASE Others
  <2>1. file' = file
    BY <1>2 DEF Others, llad
  <2>. SUFFICES ASSUME NEW n \in Names, file'[n].on # NoFile
                PROVE  file'[n].pos <= Size(file[n].on)'
    BY <2>1 DEF Within
  <2>2. file[n].on \in 1..files /\ file[n].pos \in Nat
    BY <1>1, <2>1, LogDirectoryAssumption DEF TypeInv, TypeOK, NoFile
  <2>3. /\ Size(file[n].on) \in Nat /\ Size(file[n].on)' \in Nat
        /\ Size(file[n].on)' >= Size(file[n].on)
    BY <1>2, <2>1, <2>2, SizesGrow
  <2>4. file[n].pos <= Size(file[n].on)
    BY <2>1 DEF Kept, Within
  <2>. QED
    BY <2>1, <2>2, <2>3, <2>4
<1>3. ASSUME NEW n \in Names, NEW pos \in Nat, content' = content,
             file' = [file EXCEPT ![n] = IF Found(n) = NoFile THEN Closed
                                         ELSE Stream(Found(n), pos)],
             Found(n) # NoFile => pos <= Size(Found(n))
      PROVE  Within'
  BY <1>1, <1>3 DEF Kept, Within, Size, Stream, Closed
<1>4. \A n \in Names : /\ Found(n) # NoFile => Size(Found(n)) \in Nat
  BY FoundType
<1>5. CASE OpenLog
  <2>1. Head(todo) \in Names
    BY <1>5, HeadTailProperties DEF OpenLog, TypeInv, TypeOK
  <2>. DEFINE n == Head(todo)
              pos == IF Found(n) = NoFile THEN 0 ELSE Size(Found(n))
  <2>2. /\ pos \in Nat /\ content' = content
        /\ file' = [file EXCEPT ![n] = IF Found(n) = NoFile THEN Closed
                                       ELSE Stream(Found(n), pos)]
        /\ Found(n) # NoFile => pos <= Size(Found(n))
    BY <1>4, <1>5, <2>1 DEF OpenLog, dirVars
  <2>. QED
    BY <1>3, <2>1, <2>2
<1>6. CASE OpenToScan \/ ReopenTruncated
  <2>1. cur \in Names /\ content' = content
    BY <1>6 DEF OpenToScan, ReopenTruncated, Goes, TypeInv, Shape, Handling, dirVars
  <2>. DEFINE pos == IF Found(cur) = NoFile \/ (pc = "openscan" /\ Size(Found(cur)) <= ScanComplete)
                     THEN 0 ELSE Size(Found(cur))
  <2>2. /\ pos \in Nat
        /\ \/ file' = file
           \/ file' = [file EXCEPT ![cur] = IF Found(cur) = NoFile THEN Closed
                                            ELSE Stream(Found(cur), pos)]
        /\ Found(cur) # NoFile => pos <= Size(Found(cur))
    BY <1>4, <1>6, <2>1 DEF OpenToScan, ReopenTruncated, Goes
  <2>3. CASE file' = file
    BY <2>1, <2>3 DEF Kept, Within, Size
  <2>. HIDE DEF pos
  <2>. QED
    BY <1>3, <2>1, <2>2, <2>3
<1>7. CASE GetLines
  <2>. DEFINE s     == file[cur]
              lines == IF s.eof /\ StickyEOF THEN <<>>
                       ELSE SubSeq(content[s.on], s.pos + 1, Size(s.on))
  <2>1. /\ cur \in Names /\ s.on \in Files /\ s.pos \in Nat /\ Size(s.on) \in Nat
        /\ Len(lines) \in Nat
        /\ lines # <<>> => s.pos + Len(lines) = Size(s.on)
        /\ lines = <<>> => Len(lines) = 0
        /\ file' = [file EXCEPT ![cur].pos = @ + Len(lines), ![cur].eof = (lines = <<>>)]
        /\ content' = content
    BY <1>7, LinesRead DEF dirVars
  <2>. HIDE DEF lines
  <2>2. /\ file'[cur].on = s.on /\ file'[cur].pos = s.pos + Len(lines)
        /\ \A n \in Names : n # cur => file'[n] = file[n]
    BY <1>1, <2>1
  <2>3. s.on # NoFile => s.pos + Len(lines) <= Size(s.on)
    BY <2>1 DEF Kept, Within
  <2>. QED
    BY <2>1, <2>2, <2>3 DEF Kept, Within, Size
<1>8. CASE logfile_close \/ CloseToReopen
  <2>1. content' = content /\ file' = [file EXCEPT ![cur] = Closed]
    BY <1>8 DEF logfile_close, CloseToReopen, dirVars
  <2>. QED
    BY <1>1, <2>1 DEF Kept, Within, Size, Closed
<1>9. CASE \/ AllOpened \/ RegisterDir \/ RegisterFile \/ AllWatched \/ ReadEvents
           \/ HandleEvent \/ RemoveWatch \/ AddWatch \/ CheckFile
  <2>1. file' = file /\ content' = content
    BY <1>9 DEF AllOpened, RegisterDir, RegisterFile, AllWatched, ReadEvents, HandleEvent,
       RemoveWatch, AddWatch, CheckFile, dirVars, contents
  <2>. QED
    BY <2>1 DEF Kept, Within, Size
<1>. QED
  BY <1>2, <1>5, <1>6, <1>7, <1>8, <1>9 DEF MainThread

\* The position of a stream is within its file, and llad never finds a file to
\* be truncated.
LEMMA KeptStep ==
  ASSUME Appending, TypeInv, Kept, [Next]_vars
  PROVE  Kept'
<1>1. CASE MainThread \/ Others
  <2>1. pc' # "truncated"
    <3>1. CASE CheckFile
      <4>1. cur \in Names
        BY <3>1 DEF CheckFile, TypeInv, Shape, Handling
      <4>2. file[cur] # Closed =>
              /\ Size(file[cur].on) \in Nat /\ file[cur].pos \in Nat
              /\ file[cur].pos <= Size(file[cur].on)
        <5>1. file[cur] # Closed => file[cur].on # NoFile
          BY <4>1 DEF TypeInv, Shape
        <5>2. file[cur] # Closed => file[cur].on \in Files
          BY <4>1, <5>1, LogDirectoryAssumption DEF TypeInv, TypeOK, Files, NoFile
        <5>. QED
          BY <4>1, <5>1, <5>2, FoundType DEF Kept, Within, TypeInv, TypeOK
      <4>3. ~(file[cur] # Closed /\ Size(file[cur].on) < file[cur].pos)
        BY <4>2
      <4>. QED
        BY <3>1, <4>3 DEF CheckFile
    <3>2. CASE ~CheckFile
      BY <1>1, <3>2 DEF Kept, MainThread, Others, llad, OpenLog, AllOpened, RegisterDir,
         RegisterFile, AllWatched, ReadEvents, HandleEvent, RemoveWatch, logfile_close,
         AddWatch, CloseToReopen, OpenToScan, ReopenTruncated, GetLines, Goes
    <3>. QED
      BY <3>1, <3>2
  <2>. QED
    BY <1>1, <2>1, WithinStep DEF Kept
<1>2. CASE UNCHANGED vars
  BY <1>2 DEF vars, llad, dirVars, Kept, Within, Size
<1>. QED
  BY <1>1, <1>2 DEF Next, Asleep

LEMMA LinesStay ==
  ASSUME Appending, TypeInv, Others, NEW j \in 1..files, NEW k \in 1..Size(j)
  PROVE  content'[j][k] = content[j][k]
<1>1. /\ j \in Files /\ j # files + 1 /\ content \in [Files -> Seq(0..written)]
  <2>1. files \in 0..MaxFiles /\ MaxFiles \in Nat
    BY LogDirectoryAssumption DEF TypeInv, TypeOK
  <2>. QED
    BY <2>1 DEF TypeInv, TypeOK, Files
<1>2. CASE \E i \in Files : Write(i)
  <2>. DEFINE T == (0..written) \cup {written'}
  <2>1. content'[j] = content[j] \/ content'[j] = Append(content[j], written')
    BY <1>1, <1>2 DEF Write
  <2>2. content[j] \in Seq(T) /\ written' \in T
    BY <1>1, SeqMonotonic
  <2>. HIDE DEF T
  <2>. QED
    BY <2>1, <2>2, AppendProperties DEF Size
<1>3. CASE \E n \in Names : Create(n)
  BY <1>1, <1>3 DEF Create, NewFile
<1>4. CASE \/ \E n \in Names : Remove(n) \/ Grant(n)
           \/ \E n, m \in Names : Rename(n, m)
  BY <1>4 DEF Remove, Grant, Rename, contents
<1>. QED
  BY <1>2, <1>3, <1>4, AppendingChanges

\* GetLines hands on the lines that it moves the position over.
LEMMA LinesMatched ==
  ASSUME TypeInv, GetLines
  PROVE  /\ \A n \in Names : MatchedOf(n) \subseteq MatchedOf(n)'
         /\ \A n \in Names : n # cur => file'[n] = file[n]
         /\ file'[cur].on = file[cur].on
         /\ \A k \in 1..file'[cur].pos :
              k \in 1..file[cur].pos \/ content[file[cur].on][k] \in MatchedOf(cur)'
<1>. DEFINE s     == file[cur]
            lines == IF s.eof /\ StickyEOF THEN <<>>
                     ELSE SubSeq(content[s.on], s.pos + 1, Size(s.on))
<1>1. /\ cur \in Names /\ s.on \in Files /\ s.pos \in Nat
      /\ matched' = [matched EXCEPT ![cur] = @ \o lines]
      /\ file' = [file EXCEPT ![cur].pos = @ + Len(lines), ![cur].eof = (lines = <<>>)]
      /\ UNCHANGED <<dirVars, cur>>
  BY LinesRead
<1>2. /\ file \in [Names -> [on : 0..files, pos : Nat, eof : BOOLEAN]]
      /\ matched \in [Names -> Seq(0..written)]
  BY DEF TypeInv, TypeOK
<1>3. /\ lines \in Seq(0..written) /\ Len(lines) \in Nat
      /\ \A k \in 1..Len(lines) : lines[k] = content[s.on][s.pos + k]
  BY LinesRead
<1>. HIDE DEF lines
<1>4. /\ file'[cur].on = s.on /\ file'[cur].pos = s.pos + Len(lines)
      /\ \A n \in Names : n # cur => file'[n] = file[n]
  BY <1>1, <1>2
<1>5. /\ matched'[cur] = matched[cur] \o lines
      /\ \A n \in Names : n # cur => matched'[n] = matched[n]
  BY <1>1, <1>2
<1>. DEFINE old == matched[cur]
<1>6. /\ old \in Seq(0..written) /\ Len(old) \in Nat
      /\ old \o lines \in Seq(0..written) /\ Len(old \o lines) = Len(old) + Len(lines)
      /\ \A k \in 1..Len(old) : k \in 1..Len(old \o lines) /\ (old \o lines)[k] = old[k]
      /\ \A k \in 1..Len(lines) : /\ Len(old) + k \in 1..Len(old \o lines)
                                  /\ (old \o lines)[Len(old) + k] = lines[k]
  <2>1. old \in Seq(0..written) /\ Len(old) \in Nat
    BY <1>1, <1>2, LenProperties
  <2>2. /\ old \o lines \in Seq(0..written) /\ Len(old \o lines) = Len(old) + Len(lines)
        /\ \A k \in 1..Len(old) + Len(lines) :
             (old \o lines)[k] = IF k <= Len(old) THEN old[k] ELSE lines[k - Len(old)]
    BY <1>3, <2>1, ConcatProperties
  <2>. HIDE DEF old
  <2>3. \A k \in 1..Len(lines) : /\ Len(old) + k \in 1..Len(old) + Len(lines)
                                 /\ ~(Len(old) + k <= Len(old))
                                 /\ (Len(old) + k) - Len(old) = k
    BY <1>3, <2>1
  <2>4. \A k \in 1..Len(old) : k \in 1..Len(old) + Len(lines) /\ k <= Len(old)
    BY <1>3, <2>1
  <2>. QED
    BY <2>1, <2>2, <2>3, <2>4
<1>7. /\ MatchedOf(cur)  = {old[k] : k \in 1..Len(old)}
      /\ MatchedOf(cur)' = {(old \o lines)[k] : k \in 1..Len(old \o lines)}
  <2>1. /\ DOMAIN old = 1..Len(old)
        /\ DOMAIN (old \o lines) = 1..Len(old \o lines)
    BY <1>6, LenProperties
  <2>2. matched'[cur] = old \o lines /\ cur' = cur
    BY <1>1, <1>5
  <2>3. MatchedOf(cur)' = {(matched'[cur])[k] : k \in DOMAIN matched'[cur]}
    BY <2>2 DEF MatchedOf
  <2>. QED
    BY <2>1, <2>2, <2>3 DEF MatchedOf
<1>. HIDE DEF old
<1>8. /\ MatchedOf(cur) \subseteq MatchedOf(cur)'
      /\ \A k \in 1..Len(lines) : content[s.on][s.pos + k] \in MatchedOf(cur)'
  BY <1>3, <1>6, <1>7
<1>9. \A n \in Names : MatchedOf(n) \subseteq MatchedOf(n)'
  <2>1. \A n \in Names : n # cur => MatchedOf(n)' = MatchedOf(n)
    BY <1>5 DEF MatchedOf
  <2>2. \A n \in Names : n = cur => MatchedOf(n) \subseteq MatchedOf(n)'
    BY <1>1, <1>8 DEF MatchedOf
  <2>. QED
    BY <2>1, <2>2
<1>10. ASSUME NEW k \in 1..file'[cur].pos
       PROVE  k \in 1..s.pos \/ content[s.on][k] \in MatchedOf(cur)'
  <2>1. k \in 1..s.pos \/ (k - s.pos \in 1..Len(lines) /\ s.pos + (k - s.pos) = k)
    BY <1>1, <1>3, <1>4
  <2>. QED
    BY <1>8, <2>1
<1>. QED
  BY <1>4, <1>9, <1>10

LEMMA OldLinesStep ==
  ASSUME Calm, OldLines, [Next]_vars
  PROVE  OldLines'
<1>. SUFFICES ASSUME pc' = "open" PROVE OldLines'
  BY DEF OldLines
<1>1. pc = "open" /\ content' = content
  BY DEF Next, MainThread, Others, Starting, Asleep, llad, vars, dirVars, contents, OpenLog,
     AllOpened, RegisterDir, RegisterFile, AllWatched, ReadEvents, HandleEvent, RemoveWatch,
     logfile_close, AddWatch, CloseToReopen, CheckFile, OpenToScan, ReopenTruncated,
     GetLines, Goes
<1>. QED
  BY <1>1 DEF OldLines, Size

\* A stream that is opened has nothing new before its position.
LEMMA OpenedHanded ==
  ASSUME TypeInv, Handed, NEW n \in Names, NEW pos \in Nat, content' = content,
         matched' = matched,
         file' = [file EXCEPT ![n] = IF Found(n) = NoFile THEN Closed
                                     ELSE Stream(Found(n), pos)],
         \A k \in 1..pos : Found(n) # NoFile => content[Found(n)][k] = 0
  PROVE  Handed'
<1>1. file \in [Names -> [on : 0..files, pos : Nat, eof : BOOLEAN]]
  BY DEF TypeInv, TypeOK
<1>2. /\ \A m \in Names : m # n => file'[m] = file[m]
      /\ file'[n] = IF Found(n) = NoFile THEN Closed ELSE Stream(Found(n), pos)
  BY <1>1
<1>3. ASSUME NEW m \in Names, file'[m].on # NoFile, NEW k \in 1..file'[m].pos
      PROVE  Passed(m, k)'
  <2>1. CASE m = n
    BY <1>2, <1>3, <2>1 DEF Passed, Closed, Stream
  <2>2. CASE m # n
    BY <1>2, <1>3, <2>2 DEF Handed, Passed, MatchedOf
  <2>. QED
    BY <2>1, <2>2
<1>. QED
  BY <1>3 DEF Handed

LEMMA HandedStep ==
  ASSUME Calm, Appending, Short, TypeInv, Kept, OldLines, Handed, [Next]_vars
  PROVE  Handed'
<1>1. /\ file \in [Names -> [on : 0..files, pos : Nat, eof : BOOLEAN]]
      /\ pc \in Handling => cur \in Names
  BY DEF TypeInv, TypeOK, Shape
<1>2. CASE Others
  <2>1. file' = file /\ matched' = matched
    BY <1>2 DEF Others, llad
  <2>2. ASSUME NEW n \in Names, file[n].on # NoFile, NEW k \in 1..file[n].pos
        PROVE  content'[file[n].on][k] = content[file[n].on][k]
    <3>1. file[n].on \in 0..files /\ files \in Nat /\ file[n].pos \in Nat
      BY <1>1, LogDirectoryAssumption DEF TypeInv, TypeOK
    <3>2. file[n].on \in 1..files
      BY <2>2, <3>1 DEF NoFile
    <3>3. file[n].pos <= Size(file[n].on) /\ Size(file[n].on) \in Nat
      BY <1>2, <2>2, <3>2, SizesGrow DEF Kept, Within
    <3>4. k \in 1..Size(file[n].on)
      BY <3>1, <3>3
    <3>. QED
      BY <1>2, <3>2, <3>4, LinesStay
  <2>3. ASSUME NEW n \in Names, file'[n].on # NoFile, NEW k \in 1..file'[n].pos
        PROVE  Passed(n, k)'
    BY <2>1, <2>2, <2>3 DEF Handed, Passed, MatchedOf
  <2>. QED
    BY <2>3 DEF Handed
<1>3. CASE OpenLog
  <2>. DEFINE n == Head(todo)
              pos == IF Found(n) = NoFile THEN 0 ELSE Size(Found(n))
  <2>1. n \in Names
    BY <1>3, HeadTailProperties DEF OpenLog, TypeInv, TypeOK
  <2>2. Found(n) # NoFile => Found(n) \in Files /\ Size(Found(n)) \in Nat
    BY <2>1, FoundType
  <2>3. /\ file' = [file EXCEPT ![n] = IF Found(n) = NoFile THEN Closed
                                       ELSE Stream(Found(n), pos)]
        /\ pc = "open" /\ content' = content /\ matched' = matched
    BY <1>3 DEF OpenLog, dirVars
  <2>4. pos \in Nat /\ \A k \in 1..pos : Found(n) # NoFile => content[Found(n)][k] = 0
    BY <2>2, <2>3 DEF OldLines
  <2>. HIDE DEF n, pos
  <2>. QED
    BY <2>1, <2>3, <2>4, OpenedHanded
<1>4. CASE OpenToScan
  <2>1. cur \in Names /\ content' = content /\ matched' = matched
    BY <1>1, <1>4 DEF OpenToScan, Handling, dirVars
  <2>2. Found(cur) # NoFile => Size(Found(cur)) <= ScanComplete
    BY <2>1, FoundType DEF Short
  <2>3. CASE Found(cur) = NoFile
    BY <1>4, <2>1, <2>3 DEF OpenToScan, Handed, Passed, MatchedOf
  <2>4. CASE Found(cur) # NoFile
    <3>1. file' = [file EXCEPT ![cur] = IF Found(cur) = NoFile THEN Closed
                                        ELSE Stream(Found(cur), 0)]
      BY <1>4, <2>2, <2>4 DEF OpenToScan
    <3>2. 0 \in Nat /\ \A k \in 1..0 : Found(cur) # NoFile => content[Found(cur)][k] = 0
      OBVIOUS
    <3>. QED
      BY <2>1, <3>1, <3>2, OpenedHanded
  <2>. QED
    BY <2>3, <2>4
<1>5. CASE GetLines
  <2>1. /\ cur \in Names /\ pc = "gets" /\ content' = content
    BY <1>1, <1>5 DEF GetLines, Handling, dirVars
  <2>2. /\ \A n \in Names : MatchedOf(n) \subseteq MatchedOf(n)'
        /\ \A n \in Names : n # cur => file'[n] = file[n]
        /\ file'[cur].on = file[cur].on
        /\ \A k \in 1..file'[cur].pos :
             k \in 1..file[cur].pos \/ content[file[cur].on][k] \in MatchedOf(cur)'
        /\ cur' = cur
    BY <1>5, LinesMatched DEF GetLines
  <2>3. ASSUME NEW n \in Names, file'[n].on # NoFile, NEW k \in 1..file'[n].pos
        PROVE  Passed(n, k)'
    <3>1. file'[n].on = file[n].on /\ (k \in 1..file[n].pos => Passed(n, k))
      BY <2>2, <2>3 DEF Handed
    <3>2. Passed(n, k)' <=> content[file[n].on][k] = 0
                            \/ content[file[n].on][k] \in MatchedOf(n)'
      BY <2>1, <3>1 DEF Passed
    <3>3. CASE k \in 1..file[n].pos
      BY <2>2, <3>1, <3>2, <3>3 DEF Passed
    <3>4. CASE k \notin 1..file[n].pos
      <4>1. n = cur
        BY <2>2, <2>3, <3>4
      <4>2. content[file[cur].on][k] \in MatchedOf(cur)'
        BY <2>2, <2>3, <3>4, <4>1
      <4>. QED
        BY <2>2, <3>2, <4>1, <4>2 DEF MatchedOf
    <3>. QED
      BY <3>3, <3>4
  <2>. QED
    BY <2>3 DEF Handed
<1>6. CASE logfile_close \/ CloseToReopen
  <2>1. /\ file' = [file EXCEPT ![cur] = Closed]
        /\ content' = content /\ matched' = matched
    BY <1>6 DEF logfile_close, CloseToReopen, dirVars
  <2>. QED
    BY <1>1, <2>1 DEF Handed, Passed, MatchedOf, Closed
<1>7. CASE \/ AllOpened \/ RegisterDir \/ RegisterFile \/ AllWatched \/ ReadEvents
           \/ HandleEvent \/ RemoveWatch \/ AddWatch \/ CheckFile \/ UNCHANGED vars
  <2>1. UNCHANGED <<file, content, matched>>
    BY <1>7 DEF AllOpened, RegisterDir, RegisterFile, AllWatched, ReadEvents, HandleEvent,
       RemoveWatch, AddWatch, CheckFile, vars, llad, dirVars, contents
  <2>. QED
    BY <2>1 DEF Handed, Passed, MatchedOf
<1>8. ~ReopenTruncated
  BY DEF ReopenTruncated, Goes, Kept
<1>. QED
  BY <1>2, <1>3, <1>4, <1>5, <1>6, <1>7, <1>8 DEF Next, MainThread, Asleep

LEMMA HandedInit ==
  ASSUME Init
  PROVE  Handed /\ Kept /\ OldLines
<1>1. Handed /\ Kept
  BY DEF Init, Handed, Kept, Within, Closed
<1>2. ASSUME NEW i \in Files, NEW k \in 1..Size(i)
      PROVE  content[i][k] = 0
  BY <1>2 DEF Init, DirInit, Size
<1>. QED
  BY <1>1, <1>2 DEF OldLines

\* At the end of the file everything is before the position.
LEMMA HandedMeans ==
  ASSUME TypeInv, Handed, CaughtUp
  PROVE  NothingSkipped
<1>. SUFFICES ASSUME Idle, NEW n \in Names, Found(n) # NoFile,
                     NEW l \in LinesOf(Found(n)), l # 0
              PROVE  l \in MatchedOf(n)
  BY DEF NothingSkipped
<1>1. file[n].on = Found(n) /\ file[n].pos = Size(Found(n))
  BY DEF CaughtUp, Followed
<1>2. content[Found(n)] \in Seq(0..written)
  BY FoundType DEF TypeInv, TypeOK
<1>3. PICK k \in 1..Size(Found(n)) : l = content[Found(n)][k]
  BY <1>2, LenProperties DEF LinesOf, Size
<1>. QED
  BY <1>1, <1>3 DEF Handed, Passed

\* When llad sleeps, every line of the file that has the name of a log file
\* now was handed to its actions, or was there before llad started, however
\* the log files were rotated meanwhile and whenever the lines were written.
\* It rests on what RotationsCaughtUp rests on, on no file being truncated (at
\* a truncation that it notices llad starts at the new end of the file), and on
\* none being too long to be read from its beginning when llad opens it (Short).
THEOREM RotationsSkipNothing ==
  ASSUME Calm, ~StickyEOF
  PROVE  Spec /\ []NothingLost /\ []Short => [](Appending => NothingSkipped)
<1>. DEFINE Inv == /\ TypeInv /\ Begun /\ GoneInv /\ OldLines
                   /\ Appending => RotationInv /\ Kept /\ Handed
<1>1. Init => Inv
  BY TypeInit, GoneInit, RotationInit, HandedInit
<1>2. Inv /\ NothingLost' /\ Short /\ [Next]_vars => Inv'
  <2>. SUFFICES ASSUME Inv, NothingLost', Short, [Next]_vars
                PROVE  Inv'
    OBVIOUS
  <2>1. TypeInv' /\ Begun' /\ GoneInv' /\ OldLines'
    BY TypeStep, BegunStep, GoneStep, OldLinesStep
  <2>2. scenario' = scenario
    BY ScenarioStays
  <2>3. Appending' => RotationInv' /\ Kept' /\ Handed'
    BY <2>1, <2>2, RotationStep, KeptStep, HandedStep DEF Appending, Rotating
  <2>. QED
    BY <2>1, <2>3
<1>3. Inv => (Appending => NothingSkipped)
  BY RotationMeans, HandedMeans
<1>. QED
  BY <1>1, <1>2, <1>3, PTL DEF Spec

\* When no file is too long: it has the line it started with, and what was
\* written.
ShortForAll == \A s \in Scenarios : s.lines + 1 <= ScanComplete

Sizes == \A i \in Files : Size(i) <= written + 1

LEMMA SizesStep ==
  ASSUME Appending, TypeInv, Sizes, [Next]_vars
  PROVE  Sizes'
<1>1. /\ files \in 0..MaxFiles /\ MaxFiles \in Nat /\ written \in Nat
      /\ content \in [Files -> Seq(0..written)]
  <2>1. scenario.lines \in Nat
    BY LogDirectoryAssumption DEF TypeInv, TypeOK
  <2>. QED
    BY <2>1, LogDirectoryAssumption DEF TypeInv, TypeOK
<1>2. \A i \in Files : Size(i) \in Nat /\ Size(i) <= written + 1
  BY <1>1, LenProperties DEF Sizes, Size
<1>3. CASE content' = content /\ written' \in {written, written + 1}
  BY <1>1, <1>2, <1>3 DEF Sizes, Size
<1>4. ASSUME NEW i \in Files, Write(i)
      PROVE  Sizes'
  <2>1. /\ written' = written + 1
        /\ content' = [content EXCEPT ![i] = Append(content[i], written')]
    BY <1>4 DEF Write
  <2>2. Len(Append(content[i], written')) = Len(content[i]) + 1
    <3>. DEFINE T == (0..written) \cup {written'}
    <3>1. content[i] \in Seq(T) /\ written' \in T
      BY <1>1, SeqMonotonic
    <3>. HIDE DEF T
    <3>. QED
      BY <3>1, AppendProperties
  <2>. QED
    BY <1>1, <1>2, <2>1, <2>2 DEF Sizes, Size
<1>5. ASSUME NEW n \in Names, Create(n)
      PROVE  Sizes'
  <2>1. \/ content' = content /\ written' = written
        \/ /\ written' = written + 1
           /\ content' = [content EXCEPT ![files + 1] = <<written'>>]
    BY <1>5 DEF Create, NewFile
  <2>2. CASE content' = content
    BY <1>3, <2>1, <2>2
  <2>3. ASSUME content' # content, NEW i \in Files
        PROVE  Size(i)' <= written' + 1
    <3>1. content'[i] = content[i] \/ content'[i] = <<written'>>
      BY <1>1, <2>1, <2>3
    <3>2. Len(<<written'>>) = 1
      OBVIOUS
    <3>3. Size(i)' = Size(i) \/ Size(i)' = 1
      BY <3>1, <3>2, Zenon DEF Size
    <3>. QED
      BY <1>1, <1>2, <2>1, <2>3, <3>3
  <2>. QED
    BY <2>2, <2>3 DEF Sizes
<1>6. CASE \/ MainThread \/ UNCHANGED vars \/ \E n \in Names : Remove(n) \/ Grant(n)
           \/ \E n, m \in Names : Rename(n, m)
  BY <1>3, <1>6, MainKeepsFiles DEF vars, dirVars, Remove, Grant, Rename, contents
<1>. QED
  BY <1>4, <1>5, <1>6, AppendingChanges DEF Next, Asleep

\* The same with nothing but the constants to rest on: rotations that do not
\* truncate, and room for everything.
OnlyAppended ==
  \A s \in Scenarios :
    s.changes \subseteq {"write", "late", "remove", "create", "grant", "rename"}

\* llad skips no line if log files are only written to and rotated, none is
\* truncated, inotify has room for all the events, and there are not more lines
\* than llad reads of a new file.
THEOREM NothingSkippedForever ==
  ASSUME Calm, ~StickyEOF, OnlyAppended, RoomForAll, ShortForAll
  PROVE  Spec => []NothingSkipped
<1>1. Init => Sizes
  <2>. SUFFICES ASSUME Init, NEW i \in Files
                PROVE  Size(i) <= written + 1
    BY DEF Sizes
  <2>1. (content[i] = <<0>> \/ content[i] = <<>>) /\ written = 0
    BY DEF Init, DirInit
  <2>2. Len(<<0>>) = 1 /\ Len(<<>>) = 0
    OBVIOUS
  <2>3. Size(i) = 1 \/ Size(i) = 0
    BY <2>1, <2>2, Zenon DEF Size
  <2>. QED
    BY <2>1, <2>3
<1>2. TypeInv => Appending
  BY DEF TypeInv, TypeOK, OnlyAppended, Appending, Rotating
<1>3. TypeInv /\ Sizes /\ [Next]_vars => Sizes'
  BY <1>2, SizesStep
<1>4. TypeInv /\ Sizes => Short
  <2>. SUFFICES ASSUME TypeInv, Sizes, NEW i \in Files
                PROVE  Size(i) <= ScanComplete
    BY DEF Short
  <2>1. /\ scenario \in Scenarios /\ scenario.lines \in Nat /\ written \in 0..scenario.lines
        /\ ScanComplete \in Nat
    BY LogDirectoryAssumption, WatcherAssumption DEF TypeInv, TypeOK
  <2>2. /\ scenario.lines + 1 <= ScanComplete
        /\ Size(i) \in Nat /\ Size(i) <= written + 1
    <3>1. Size(i) \in Nat
      BY LenProperties DEF TypeInv, TypeOK, Size
    <3>. QED
      BY <2>1, <3>1 DEF ShortForAll, Sizes
  <2>3. \A x, y, z, w \in Nat : x <= y + 1 /\ y \in 0..z /\ z + 1 <= w => x <= w
    OBVIOUS
  <2>. QED
    BY <2>1, <2>2, <2>3
<1>. QED
  BY <1>1, <1>2, <1>3, <1>4, TypeInvCorrect, NothingLostWithRoom, RotationsSkipNothing, PTL
     DEF Spec

=============================================================================
