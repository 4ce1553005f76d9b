--------------------------- MODULE PendingActions ---------------------------
(***************************************************************************)
(* What the Action class promises its caller, svcmain (llad.c): actions    *)
(* are started while the logs are watched and end on their own; once the   *)
(* watching is over, Action_waitForPending answers exactly once, and it    *)
(* answers "finished" only when nothing it started is pending any more.    *)
(***************************************************************************)

CONSTANT Jobs   \* the executions that may ever be started

VARIABLES
  pending,      \* executions started and not yet ended
  closing,      \* TRUE once svcmain has called Action_waitForPending
  verdict       \* its answer: "none" so far, "finished" (1) or "gaveup" (0)

pvars == <<pending, closing, verdict>>

Init == pending = {} /\ closing = FALSE /\ verdict = "none"

Begin(j) ==
  /\ ~closing
  /\ j \notin pending
  /\ pending' = pending \cup {j}
  /\ UNCHANGED <<closing, verdict>>

\* An execution may end at any time, even after the wait was given up.
End(j) ==
  /\ j \in pending
  /\ pending' = pending \ {j}
  /\ UNCHANGED <<closing, verdict>>

Close ==
  /\ ~closing
  /\ closing' = TRUE
  /\ UNCHANGED <<pending, verdict>>

Finished ==
  /\ closing
  /\ verdict = "none"
  /\ pending = {}
  /\ verdict' = "finished"
  /\ UNCHANGED <<pending, closing>>

GiveUp ==
  /\ closing
  /\ verdict = "none"
  /\ verdict' = "gaveup"
  /\ UNCHANGED <<pending, closing>>

Next ==
  \/ \E j \in Jobs : Begin(j) \/ End(j)
  \/ Close
  \/ Finished
  \/ GiveUp

Spec == Init /\ [][Next]_pvars
=============================================================================
