-------------------------- MODULE DeployLifecycle --------------------------
(***************************************************************************)
(* What a client of the deployment manager can rely on, through the list,  *)
(* the page of a deployment and process restarts: one lifecycle per id.    *)
(* No goroutine, VM, hypervisor call, context or store appears here.       *)
(***************************************************************************)
EXTENDS Naturals

CONSTANT Dep

VARIABLES
    view,      \* what Get(id) shows: a state, "new" before the id exists, "absent" for 404
    asked,     \* somebody has asked for a stop: Cancel or Remove
    loose,     \* a Remove has stopped waiting for the run
    restarts   \* how often the process has been restarted

lvars == <<view, asked, loose, restarts>>

Verdict == {"done", "failed", "canceled"}
Settled == Verdict \cup {"removed"}
Listed  == {d \in Dep : view[d] \notin {"new", "absent"}}

LInit ==
    /\ view = [d \in Dep |-> "new"]
    /\ asked = [d \in Dep |-> FALSE] /\ loose = [d \in Dep |-> FALSE]
    /\ restarts = 0

Becomes(d, v) == view' = [view EXCEPT ![d] = v] /\ UNCHANGED <<asked, loose, restarts>>

\* An id is given out once.
Accept(d) == view[d] = "new" /\ Becomes(d, "pending")

\* A run that its Remove does not wait for goes on behind the mark.
In(d, v) == view[d] = v \/ (loose[d] /\ view[d] = "removed")

Begin(d) == In(d, "pending") /\ Becomes(d, "running")

\* Only a running deployment ends, and "canceled" only when somebody has asked.
Conclude(d, o) ==
    /\ In(d, "running") /\ (o = "canceled" => asked[d])
    /\ Becomes(d, o)

Ask(d) ==
    /\ d \in Listed /\ asked' = [asked EXCEPT ![d] = TRUE]
    /\ UNCHANGED <<view, loose, restarts>>

GiveUp(d) ==
    /\ loose' = [loose EXCEPT ![d] = TRUE]
    /\ UNCHANGED <<view, asked, restarts>>

\* Removed comes after the verdict, unless the run is not waited for.
Mark(d) ==
    /\ d \in Listed /\ (view[d] \in Settled \/ loose[d])
    /\ Becomes(d, "removed")

\* Settled deployments may leave the list, on request or by retention.
Forget ==
    /\ \E D \in SUBSET {d \in Dep : view[d] \in Settled} :
           view' = [d \in Dep |-> IF d \in D THEN "absent" ELSE view[d]]
    /\ UNCHANGED <<asked, loose, restarts>>

\* After a restart nothing is pending or running, and no id is given out again.
\* What had no verdict reads failed, and so does a verdict that did not reach the
\* disk; a mark that did not reach it uncovers the verdict.
AfterReboot(d) ==
    /\ view'[d] = "new" <=> view[d] = "new"
    /\ view[d] \in {"pending", "running"} /\ ~loose[d] => view'[d] \in {"failed", "absent"}
    /\ view[d] \in Verdict /\ ~loose[d] => view'[d] \in {view[d], "failed", "absent"}

Reboot ==
    /\ restarts' = restarts + 1
    /\ view' \in [Dep -> Settled \cup {"new", "absent"}]
    /\ \A d \in Dep : AfterReboot(d)
    /\ asked' = [d \in Dep |-> FALSE] /\ loose' = [d \in Dep |-> FALSE]

LNext ==
    \/ \E d \in Dep :
          \/ Accept(d) \/ Begin(d) \/ Ask(d) \/ GiveUp(d) \/ Mark(d)
          \/ \E o \in Verdict : Conclude(d, o)
    \/ Forget
    \/ Reboot

LSpec == LInit /\ [][LNext]_lvars
=============================================================================
