---------------------------- MODULE JobLifecycle ----------------------------
(***************************************************************************)
(* What a client of the job manager can rely on, through the job list, the *)
(* job page and process restarts: one lifecycle per job id.  No goroutine, *)
(* store, file or semaphore appears here.                                  *)
(***************************************************************************)
EXTENDS Naturals

CONSTANT Job

VARIABLES
    view,     \* what Get(id) shows: a state, or "absent" for 404
    outcome,  \* the verdict reached for the job, kept when it leaves the list
    restarts  \* how often the process has been restarted

lvars == <<view, outcome, restarts>>

Verdict == {"done", "failed", "canceled"}

LInit ==
    /\ view = [j \in Job |-> "absent"]
    /\ outcome = [j \in Job |-> "none"]
    /\ restarts = 0

\* Finished jobs may leave the list at any time, on request or by retention.
Without(v, D) == [j \in Job |-> IF j \in D THEN "absent" ELSE v[j]]
Settled       == {j \in Job : view[j] \in Verdict}

\* A new id enters as pending; retention may drop finished jobs in the same step.
Accept(j) ==
    /\ view[j] = "absent" /\ outcome[j] = "none"
    /\ \E D \in SUBSET Settled : view' = [Without(view, D) EXCEPT ![j] = "pending"]
    /\ UNCHANGED <<outcome, restarts>>

Begin(j) ==
    /\ view[j] = "pending"
    /\ view' = [view EXCEPT ![j] = "running"]
    /\ UNCHANGED <<outcome, restarts>>

\* Only a running job can be done or failed, only a pending one canceled.
Conclude(j, o) ==
    /\ view[j] = IF o = "canceled" THEN "pending" ELSE "running"
    /\ view' = [view EXCEPT ![j] = o]
    /\ outcome' = [outcome EXCEPT ![j] = o]
    /\ UNCHANGED restarts

Forget ==
    /\ \E D \in SUBSET Settled : view' = Without(view, D)
    /\ UNCHANGED <<outcome, restarts>>

\* After a restart nothing is pending or running.  A job may have been lost, may
\* have come back, and a verdict that did not reach the disk reads failed; but
\* done is shown only for a job whose build did succeed.
AfterReboot(j) ==
    \/ view'[j] = "absent" /\ outcome'[j] = outcome[j]
    \/ view'[j] = "failed" /\ outcome'[j] = "failed"
    \/ view'[j] = "done" /\ outcome[j] = "done" /\ outcome'[j] = "done"

Reboot ==
    /\ restarts' = restarts + 1
    /\ view' \in [Job -> {"absent", "failed", "done"}]
    /\ outcome' \in [Job -> Verdict \cup {"none"}]
    /\ \A j \in Job : AfterReboot(j)

LNext ==
    \/ \E j \in Job : Accept(j) \/ Begin(j) \/ \E o \in Verdict : Conclude(j, o)
    \/ Forget
    \/ Reboot

LSpec == LInit /\ [][LNext]_lvars
=============================================================================
