-------------------------- MODULE MCDeployManager --------------------------
(* Finite instances of DeployManager. *)
EXTENDS DeployManager

\* A DHCP topology that is powered on and wired.
WiredPlan == [power |-> TRUE, kick |-> FALSE, wire |-> TRUE, dhcp |-> {1}]

\* A remote kickstart of the same topology, wired as well.
KickPlan == [WiredPlan EXCEPT !.kick = TRUE]

\* VMs left powered off.
OffPlan == [power |-> FALSE, kick |-> FALSE, wire |-> FALSE, dhcp |-> {}]

OneNode    == 1 .. 1
TwoNodes   == 1 .. 2
OnePlan    == {WiredPlan}
MixedPlans == {KickPlan, OffPlan}

\* Proxmox streams the ISO without a context and heeds its context everywhere else.
ProxmoxDeaf == {<<1, "upload">>}
=============================================================================
