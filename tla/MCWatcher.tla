----------------------------- MODULE MCWatcher -----------------------------
(* Instances of Watcher for TLC: one log file, or two. *)
EXTENDS Watcher

CONSTANTS n1, n2

OneName  == {n1}
OneLog   == <<n1>>
TwoNames == {n1, n2}
TwoLogs  == <<n1, n2>>

\* Rotation of two log files: deleted or moved away, renamed, created again,
\* readable at last.
Rotation == [changes |-> {"write", "late", "remove", "create", "grant", "rename"},
             lines |-> 2, most |-> 3]
\* One rotation, or copytruncate twice.
Single   == [changes |-> {"write", "late", "remove", "create", "truncate"},
             lines |-> 4, most |-> 2]

\* Rotation and copytruncate together.
Truncation == [changes |-> Rotation.changes \cup {"truncate"}, lines |-> 2, most |-> 3]

Anything == [changes |-> AllChanges, lines |-> 2, most |-> 3]

Rotations == {Rotation}
Mixed     == {Anything, Single, Truncation}
Replacing == {[changes |-> {"write", "replace"}, lines |-> 1, most |-> 1]}
=============================================================================
