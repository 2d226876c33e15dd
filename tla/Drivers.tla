------------------------------ MODULE Drivers ------------------------------
(* The six drivers of internal/hypervisor under the calls of internal/deploy: one of *)
(* them is in use, and every client works on the same platform.                      *)
EXTENDS Proxmox, VSphere, XCPng, Nutanix, HyperV, Workstation

DriverNext(c) ==
    \/ kind = "proxmox"     /\ ProxmoxNext(c)
    \/ kind = "vsphere"     /\ VSphereNext(c)
    \/ kind = "xcpng"       /\ XCPngNext(c)
    \/ kind = "nutanix"     /\ NutanixNext(c)
    \/ kind = "hyperv"      /\ HyperVNext(c)
    \/ kind = "workstation" /\ WorkstationNext(c)

Next == \E c \in Clients : Begin(c) \/ Refused(c) \/ RemoveVM(c) \/ DriverNext(c)

Spec == Init /\ [][Next]_vars

-----------------------------------------------------------------------------
Deployed(c) == pc[c] \in {"keys", "up", "ready"}

\* The VM of a client is its own, nobody else holds it, and it has every disk asked for, on
\* files of its own.
HasOwnVM(c) ==
    /\ Vm(c).owner = c /\ Vm(c).disks = Disks
    /\ {Vm(c).home} \X Disks \subseteq files
    /\ \A d \in Clients \ {c} : ref[d] = ref[c] => pc[d] \in {"destroyed", "undestroyed"}
    /\ \A i \in Ids \ {ref[c]} : vms[i].owner # 0 /\ vms[i].home = Vm(c).home => vms[i].disks = {}

\* At most the disk whose attachment failed is left of a CreateVM.
IsRolledBack(c) == vms[c] = NoVM /\ Cardinality(FilesOf(c)) <= 1

(* CreateVM, under every interleaving with the CreateVM of another deployment that wants *)
(* the same id, name or folder: whoever gets a VM has one of its own, and the rollback of *)
(* XCP-ng leaves nothing behind, unless it fails as well.                                *)
OwnVM ==
    \A c \in Clients :
        /\ pc[c] \in {"attach", "order", "power", "keys", "up", "ready"} => HasOwnVM(c)
        /\ kind = "xcpng" /\ pc[c] = "failed" /\ cand[c] = c /\ ref[c] = 0 /\ faults < 2 => IsRolledBack(c)

(* deployNode: a node that is installing has been started with its own installer in the  *)
(* drive, disk before CD, and with the firmware CreateVM gave it (XCP-ng loses it),       *)
(* whatever other clients did to VMs and library meanwhile; the installer is a whole one *)
(* where UploadISO names a library entry only when it is built; and the boot command of  *)
(* a node is never typed at the console of another node of its deployment.               *)
Installs ==
    \A c \in Clients :
        /\ Deployed(c) =>
               /\ Vm(c).on /\ Vm(c).cd = got[c] /\ Vm(c).order = "disk,cd"
               /\ kind # "xcpng" => Vm(c).efi
               /\ kind \in {"proxmox", "xcpng", "nutanix"} => iso[Vm(c).cd] = "whole"
        /\ shared /\ typed[c] # 0 => typed[c] = ref[c]

(* No call of one client takes anything from another: the VM whose reference the other   *)
(* holds stays as it is, on drivers that address VMs by name, too, and any VM of it, a    *)
(* half-made one included, keeps its disk files.                                         *)
HandsOff ==
    [][\A i \in Ids : LET c == vms[i].owner IN
          c # 0 /\ pc'[c] = pc[c] =>
              /\ ref[c] = i => vms'[i] = vms[i]
              /\ vms'[i].owner = c /\ files \cap ({vms[i].home} \X vms[i].disks) \subseteq files']_vars

=============================================================================
