----------------------------- MODULE JobLifecycle -----------------------------
(***************************************************************************)
(* What the correction jobs promise about the `status` column, without     *)
(* tasks, transactions or an event loop: one slot for a job that is queued *)
(* or running, one way through the statuses, and no way back from an end.  *)
(***************************************************************************)
CONSTANT Jobs
VARIABLE status

Active == {"queued", "running"}
Ended == {"done", "cancelled", "interrupted", "error"}

Init == status = [j \in Jobs |-> "unborn"]

Submit(j) ==
    /\ status[j] = "unborn"
    /\ \A i \in Jobs : status[i] \notin Active
    /\ status' = [status EXCEPT ![j] = "queued"]

Begin(j) ==
    /\ status[j] = "queued"
    /\ status' = [status EXCEPT ![j] = "running"]

\* Only a job that runs can be done or cancelled.
Finish(j) ==
    /\ status[j] = "running"
    /\ \E s \in {"done", "cancelled"} : status' = [status EXCEPT ![j] = s]

Break(j) ==
    /\ status[j] \in Active
    /\ status' = [status EXCEPT ![j] = "error"]

\* A new process: what was active has been interrupted.
Restart ==
    status' = [j \in Jobs |-> IF status[j] \in Active THEN "interrupted" ELSE status[j]]

\* Rows of some jobs are deleted, whatever their status.
Delete(S) ==
    status' = [j \in Jobs |-> IF j \in S /\ status[j] # "unborn" THEN "deleted"
                              ELSE status[j]]

Next ==
    \/ \E j \in Jobs : Submit(j) \/ Begin(j) \/ Finish(j) \/ Break(j)
    \/ Restart
    \/ \E S \in SUBSET Jobs : Delete(S)

Spec == Init /\ [][Next]_status

=============================================================================
