----------------------------- MODULE Hypervisor -----------------------------
(***************************************************************************)
(* internal/hypervisor: the state the six drivers share, and the calls     *)
(* that internal/deploy makes to a driver for one node, in their order.    *)
(*                                                                         *)
(* Each client is one such sequence: the two clients of a run are two      *)
(* nodes of one deployment, or of two deployments.  The drivers are        *)
(* modules of their own; they all work on the platform kept here.  Every   *)
(* remote call is answered, refused without effect, or done with its       *)
(* answer lost (a timeout, a canceled context, a failed wait for a task).  *)
(***************************************************************************)
EXTENDS Integers, FiniteSets, Sequences

CONSTANTS
    Clients,   \* 1..n
    Kinds,     \* the drivers to check
    Disks,     \* the disks of a VM, 1..m
    MaxFaults  \* bound: calls that go wrong

ASSUME HypervisorAssumption ==
    /\ IsFiniteSet(Clients) /\ Clients = 1 .. Cardinality(Clients)
    /\ Kinds \subseteq {"proxmox", "vsphere", "xcpng", "nutanix", "hyperv", "workstation"}
    /\ IsFiniteSet(Disks) /\ Disks = 1 .. Cardinality(Disks) /\ Disks # {}
    /\ MaxFaults \in Nat

VARIABLES
    kind, kick, \* the driver, and whether the nodes are kickstarted from a library ISO
    shared,     \* the clients are nodes of one deployment, or of one each
    pc,         \* where the node of each client is
    faults,
    iso,        \* what is behind each library entry: of a name (0) or of client c's upload
    torn,       \* entries that two uploads are writing at once
    vms,        \* the VMs by id
    files,      \* disk files, VDIs or volumes: <<home, disk>>
    folders,    \* folders of the VM directory
    cand,       \* the id or folder the CreateVM of a client has chosen
    nextPort,   \* Workstation.nextPort, per driver value
    port,       \* the VNC port the CreateVM of a client has taken
    got,        \* the ISO reference a client holds
    ref,        \* the VMRef a client holds, 0 for none
    typed,      \* the VM that received the client's keys, 0 for none
    ip          \* the address GetVMIP returned

mode  == <<kind, kick, shared>>
store == <<iso, torn>>
disk  == <<files, folders>>
ports == <<nextPort, port>>
held  == <<got, ref, typed, ip>>
vars  == <<mode, pc, faults, store, vms, disk, cand, ports, held>>

Ids   == Clients
\* What a CD drive has in it, when it is no ISO.
NoDrive == -2
Empty   == -1

NoVM  == [owner |-> 0, home |-> 0, disks |-> {}, cd |-> NoDrive, order |-> "", efi |-> TRUE,
          on |-> FALSE, port |-> 0]

\* A powered-off VM of client c with every disk asked for and an empty drive.
Shell(c, home) == [NoVM EXCEPT !.owner = c, !.home = home, !.disks = Disks, !.cd = Empty]

\* SupportsKickstart, KnownProvider.
SupportsKickstart == {"proxmox", "vsphere", "hyperv", "workstation"}

Init ==
    /\ kind \in Kinds /\ kick \in BOOLEAN /\ shared \in BOOLEAN
    /\ kick => kind \in SupportsKickstart
    /\ pc = [c \in Clients |-> "start"] /\ faults = 0
    /\ iso = [s \in {0} \cup Clients |-> "absent"] /\ torn = {}
    /\ vms = [i \in Ids |-> NoVM] /\ files = {} /\ folders = {}
    /\ cand = [c \in Clients |-> 0] /\ nextPort = [c \in Clients |-> 1] /\ port = [c \in Clients |-> 0]
    /\ got = [c \in Clients |-> 0] /\ ref = [c \in Clients |-> 0]
    /\ typed = [c \in Clients |-> 0] /\ ip = [c \in Clients |-> "none"]

-----------------------------------------------------------------------------
(* Calls and their outcomes. *)

Answer(c, from, to) == pc[c] = from /\ pc' = [pc EXCEPT ![c] = to] /\ UNCHANGED faults

Error(c, from, to) ==
    /\ pc[c] = from /\ faults < MaxFaults
    /\ faults' = faults + 1 /\ pc' = [pc EXCEPT ![c] = to]

\* The call has its effect, whether or not the client learns of it.
Done(c, from, to)   == Answer(c, from, to) \/ Error(c, from, "failed")

\* It has none.  Nothing is on the platform yet that the client would clean up.
Refused(c) ==
    /\ \E from \in {"find", "upload", "create", "build", "attach", "order", "power", "keys", "up"} :
           Error(c, from, "failed")
    /\ UNCHANGED <<mode, store, vms, disk, cand, ports, held>>

SetVM(i, vm) ==
    /\ vms' = [vms EXCEPT ![i] = vm]
    /\ UNCHANGED <<mode, store, disk, cand, ports, held>>

\* The calls on the VM a client holds.
Vm(c)        == vms[ref[c]]
Alter(c, vm) == SetVM(ref[c], vm)

\* CreateVM returns: the client holds id i from here on, unless the answer is lost.
Returned(c, i) == ref' = IF pc'[c] = "attach" THEN [ref EXCEPT ![c] = i] ELSE ref

-----------------------------------------------------------------------------
(* The ISO library: the base ISO of the kickstarted nodes has one name, a customised *)
(* ISO is its node's own.  vSphere, Hyper-V and Workstation write a named file in    *)
(* place; Proxmox receives the upload elsewhere and imports it as a whole; XCP-ng    *)
(* and Nutanix make an entry and fill it.                                            *)

Slot(c)   == IF kick THEN 0 ELSE c
Others(c) == {d \in Clients \ {c} : pc[d] = "uploading" /\ Slot(d) = Slot(c)}

Found(c) ==
    /\ Answer(c, "find", "create") /\ iso[Slot(c)] # "absent"
    /\ got' = [got EXCEPT ![c] = Slot(c)]
    /\ UNCHANGED <<mode, store, vms, disk, cand, ports, ref, typed, ip>>

NotFound(c) ==
    /\ Answer(c, "find", "upload") /\ iso[Slot(c)] = "absent"
    /\ UNCHANGED <<mode, store, vms, disk, cand, ports, held>>

\* The first bytes arrive: what the entry held is gone.
WriteFirst(c) ==
    /\ Answer(c, "upload", "uploading")
    /\ iso' = [iso EXCEPT ![Slot(c)] = "partial"]
    /\ torn' = IF Others(c) # {} THEN torn \cup {Slot(c)} ELSE torn \ {Slot(c)}
    /\ UNCHANGED <<mode, vms, disk, cand, ports, held>>

\* The last ones do.
WriteLast(c) ==
    /\ Done(c, "uploading", "create")
    /\ iso' = [iso EXCEPT ![Slot(c)] = IF Slot(c) \in torn THEN "torn" ELSE "whole"]
    /\ got' = [got EXCEPT ![c] = Slot(c)]
    /\ UNCHANGED <<mode, torn, vms, disk, cand, ports, ref, typed, ip>>

\* The upload breaks off and the entry is then as given.
BreakOff(c, left) ==
    /\ Error(c, "uploading", "failed")
    /\ iso' = [iso EXCEPT ![Slot(c)] = left]
    /\ UNCHANGED <<mode, torn, vms, disk, cand, ports, held>>

-----------------------------------------------------------------------------
(* deployNode: a kickstarted node looks for the shared base ISO, any other node *)
(* uploads its own; kickstarted nodes are always powered on.  The nodes of one  *)
(* deployment share a driver value and come one after the other.                *)

Settled == {"start", "up", "ready", "failed", "destroy", "destroyed", "undestroyed"}

Begin(c) ==
    /\ shared => \A d \in Clients \ {c} : pc[d] \in Settled
    /\ Answer(c, "start", IF kick THEN "find" ELSE "upload")
    /\ UNCHANGED <<mode, store, vms, disk, cand, ports, held>>

AfterPower == IF kick THEN "keys" ELSE "up"

\* Remove of the deployment, once the node is done or has failed: only a VM whose reference is known.
RemoveVM(c) ==
    /\ ref[c] # 0
    /\ Answer(c, "ready", "destroy") \/ Answer(c, "failed", "destroy")
    /\ UNCHANGED <<mode, store, vms, disk, cand, ports, held>>

\* The VM and its files are gone; a lost answer leaves the reference dangling.
Gone(c, to, leftFiles, leftFolders) ==
    /\ Answer(c, "destroy", to) \/ Error(c, "destroy", "undestroyed")
    /\ vms' = [vms EXCEPT ![ref[c]] = NoVM]
    /\ files' = leftFiles /\ folders' = leftFolders
    /\ UNCHANGED <<mode, store, cand, ports, held>>

FilesOf(home) == {f \in files : f[1] = home}

\* A Destroy that does nothing.
NotDestroyed(c) ==
    /\ Error(c, "destroy", "undestroyed")
    /\ UNCHANGED <<mode, store, vms, disk, cand, ports, held>>

-----------------------------------------------------------------------------
(* What the guest reports of its addresses, in the order of its interfaces. *)
Reports == {<<>>, <<"loopback", "v4">>, <<"linklocal", "v4">>, <<"v6", "v4">>, <<"v4">>}

First(s) == IF s = <<>> THEN "none" ELSE s[1]

\* resolveNodeIPs asks until there is an address.
Resolve(c, address) ==
    /\ IF address = "none" THEN pc[c] = "up" /\ UNCHANGED <<pc, faults>>
                           ELSE Answer(c, "up", "ready")
    /\ ip' = [ip EXCEPT ![c] = address]
    /\ UNCHANGED <<mode, store, vms, disk, cand, ports, got, ref, typed>>

\* The keys of client c arrive at VM i.
Type(c, i) ==
    /\ Done(c, "keys", "up")
    /\ typed' = [typed EXCEPT ![c] = i]
    /\ UNCHANGED <<mode, store, vms, disk, cand, ports, got, ref, ip>>
=============================================================================
