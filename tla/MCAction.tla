------------------------------ MODULE MCAction ------------------------------
(* Instances of Action with its clock for TLC. *)
EXTENDS Timing, TLC

\* Controlling threads differ in nothing but their name.
Symmetry == Permutations(Threads)

\* Every command stays silent and is there until it is killed, nothing fails,
\* and all are executed before the daemon stops.
Silent ==
  /\ \A t \in Threads :
       /\ pc[t] \notin {"refused", "gets"}
       /\ pipe[t] = "empty"
       /\ holders[t] \subseteq {t}
       /\ child[t] \in {"zombie", "reaped"} => signalled[t] = "KILL"
       /\ pc[t] \in {"finish", "dec", "post", "unlock", "gone"} => child[t] = "reaped"
       /\ main \in Waiting => pc[t] # "unused"
  /\ verdict = "none"
=============================================================================
